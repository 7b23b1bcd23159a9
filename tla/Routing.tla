------------------------------ MODULE Routing ------------------------------
(***************************************************************************)
(* The routing table: which token stands for which project, where its      *)
(* traffic goes, and the device-wide pause.  Commands rewrite the file      *)
(* under its lock, one at a time; a proxy decides by the copy it keeps,     *)
(* which it checks against the file before every decision.                  *)
(*                                                                         *)
(* A proxy knows the file it read by identity, size and time.  current says *)
(* that what it knows is the file that is there.  An edit made by hand that *)
(* keeps all three is left out.                                             *)
(***************************************************************************)
EXTENDS Naturals, FiniteSets

CONSTANTS
  Proxies,    \* proxy processes
  Tokens,     \* tokens that may be minted
  Roots,      \* project directories
  RootOf,     \* the directory each token is minted for
  Upstreams,  \* where traffic may be granted to go
  Unusable,   \* those of them no proxy can parse
  Default,    \* the official endpoint
  Builds

ASSUME RoutingConstants ==
  /\ RootOf \in [Tokens -> Roots]
  /\ Default \in Upstreams /\ Unusable \subseteq Upstreams \ {Default}

VARIABLES
  table,  \* what the file holds
  file,   \* whether the file is there and can be parsed
  view    \* what each proxy last read, and whether it is the file's

routing == <<table, file, view>>

Reasons == {"signed_out", "consent_reconfirm", "consent_unreadable", "redaction_drift"}
NoEntry == [state |-> "none", up |-> Default]
Entries == [state : {"none", "standing", "revoked"}, up : Upstreams]
Tables  == [entry : [Tokens -> Entries], pause : Reasons \cup {"none"},
            by : Builds \cup {"unnamed"}]

EmptyTable == [entry |-> [t \in Tokens |-> NoEntry], pause |-> "none", by |-> "unnamed"]
EmptyView  == [entry |-> [t \in Tokens |-> NoEntry], pause |-> "none",
               read |-> FALSE, err |-> FALSE, current |-> FALSE]


RoutingTypeOK ==
  /\ table \in Tables /\ file \in {"there", "missing", "unreadable"}
  /\ \A p \in Proxies :
       /\ view[p].entry \in [Tokens -> Entries] /\ view[p].pause \in Reasons \cup {"none"}
       /\ {view[p].read, view[p].err, view[p].current} \subseteq BOOLEAN

-----------------------------------------------------------------------------
(* What the store's operations make of a table. *)

\* Entries of a project that stand are retired, never deleted.
Retired(tab, root) ==
  [tab EXCEPT !.entry = [t \in Tokens |->
     IF RootOf[t] = root /\ @[t].state = "standing" THEN [@[t] EXCEPT !.state = "revoked"]
                                                    ELSE @[t]]]

Granted(tab, tok, up) ==
  [Retired(tab, RootOf[tok]) EXCEPT !.entry[tok] = [state |-> "standing", up |-> up]]

Revoked(tab, root) == Retired(tab, root)

Moved(tab, root, up) ==
  [tab EXCEPT !.entry = [t \in Tokens |->
     IF RootOf[t] = root /\ @[t].state = "standing" THEN [@[t] EXCEPT !.up = up] ELSE @[t]]]

\* A failed enable puts back the entries of its own project.
Restored(tab, root, snap) ==
  [tab EXCEPT !.entry = [t \in Tokens |-> IF RootOf[t] = root THEN snap[t] ELSE @[t]]]

Paused(tab, reason) == [tab EXCEPT !.pause = reason, !.by = "unnamed"]
PausedByBuild(tab, reason, build) == [tab EXCEPT !.pause = reason, !.by = build]

\* Only the pause of this reason is lifted.
Resumed(tab, reason) ==
  IF tab.pause = reason THEN [tab EXCEPT !.pause = "none", !.by = "unnamed"] ELSE tab

LiftDue(tab, reason, running) == tab.pause = reason /\ tab.by # running
ResumedByOther(tab, reason, running) ==
  IF LiftDue(tab, reason, running) THEN Resumed(tab, reason) ELSE tab

\* A table that is not there is an empty one to the store; one that cannot
\* be read is neither read nor written.
Legible == file # "unreadable"
AsRead  == IF file = "there" THEN table ELSE EmptyTable

\* A rewrite replaces the file, so no proxy's copy is current any more.
Update(tab) ==
  /\ Legible
  /\ table' = tab /\ file' = "there"
  /\ view' = [p \in Proxies |-> [view[p] EXCEPT !.current = FALSE]]

Records(tok) == file = "there" /\ table.entry[tok].state = "standing" /\ table.pause = "none"

\* Nothing was ever enabled, or one project has been, behind a relay.
RoutingInit ==
  /\ \/ table = EmptyTable /\ file = "missing"
     \/ /\ file = "there"
        /\ \E t \in Tokens, u \in Upstreams \ {Default} : table = Granted(EmptyTable, t, u)
  /\ view = [p \in Proxies |-> EmptyView]

-----------------------------------------------------------------------------
(* A proxy's lookup: the file is looked at, then read if it is another.    *)

\* Mutant of Look: a file that is gone is an empty table.
Look_Forgets(p) ==
  view' = IF file = "missing" THEN [view EXCEPT ![p] = [EmptyView EXCEPT !.read = TRUE]]
                              ELSE [view EXCEPT ![p].current = TRUE]

\* A file that is gone is an error.  Another file is about to be read, and
\* is what is known from then on, whatever replaces it before it is read.
Look(p) ==
  view' = IF file = "missing" THEN [view EXCEPT ![p].err = TRUE, ![p].current = FALSE]
                              ELSE [view EXCEPT ![p].current = TRUE]

\* Mutant of MustRead: what was read once is not read again.
MustRead_Once(p) == file # "missing" /\ ~view[p].read

MustRead(p) == file # "missing" /\ ~(view[p].read /\ ~view[p].err /\ view[p].current)

\* What the file holds now.  When it cannot be read, the last copy stays.
ReadFile(p) ==
  view' = IF file = "there"
          THEN [view EXCEPT ![p] = [entry |-> table.entry, pause |-> table.pause,
                                    read |-> TRUE, err |-> FALSE, current |-> @.current]]
          ELSE [view EXCEPT ![p].err = TRUE]

\* The decision for one token, by the copy.
Verdict(v, tok) ==
  LET e == v.entry[tok] IN
  IF v.err THEN IF e.state # "none" THEN "unreadable"
                ELSE IF v.read THEN "unknown" ELSE "never_read"
  ELSE IF e.state = "none" THEN "unknown"
  ELSE IF e.state = "revoked" THEN "revoked"
  ELSE IF v.pause # "none" THEN "paused"
  ELSE "record"

Resolves(verdict) == verdict \notin {"unknown", "never_read"}
Forwards(verdict) == verdict # "never_read"
=============================================================================
