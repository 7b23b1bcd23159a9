------------------------------ MODULE Scanning -------------------------------
(***************************************************************************)
(* The scan of plain text for credentials that are named by what surrounds *)
(* them (internal/redact/credentials.go), and the replacement of the       *)
(* regions every layer finds (applyRegions).  A text is a sequence of      *)
(* lines, and a line is one of                                             *)
(*   [is |-> "words"]                                                      *)
(*   [is |-> "host"]                       a line that names a machine     *)
(*   [is |-> "pair", key, quoted, entry, v]  a key, a separator, a value;  *)
(*                    quoted is a quoted key, entry a value that a comma   *)
(*                    or semicolon of a code literal follows               *)
(*   [is |-> "login", form, v]             a login target and a password:  *)
(*                    "inline", "trailing" or "sshpass" (which names no    *)
(*                    machine)                                             *)
(***************************************************************************)
EXTENDS Redaction

HostLoginWindowLines == 3

-----------------------------------------------------------------------------
NamesHost(l) == l.is = "host" \/ (l.is = "login" /\ l.form # "sshpass")

\* findHostLines: the numbers of the lines that name a host, in order.
HostLines(text) == SetToSortSeq({i \in DOMAIN text : NamesHost(text[i])}, <)

\* near: the first of them not above the window decides.
Near(hosts, line) ==
  LET from == {n \in DOMAIN hosts : hosts[n] >= line - HostLoginWindowLines}
  IN  from # {} /\ hosts[Min(from)] <= line + HostLoginWindowLines

\* A pair of a database password key is a credential whatever its value is.
DetectCredentialValue(l) == l.is = "pair" /\ DatabasePasswordKey(l.key) /\ ~Placeholder(l.v)

\* A quoted key is a JSON spelling, and the document walk owns its context.
DetectKeyedCredential(text, i) ==
  LET l == text[i]
  IN  /\ l.is = "pair"
      /\ \E class \in SecretKeyClass(l.key) :
           \/ HoldsSecret(class, l.v)
           \/ class.password /\ ~l.quoted /\ ~l.entry /\ LoginSecretValue(l.v) /\ Near(HostLines(text), i)

DetectLoginPassword(l) ==
  /\ l.is = "login"
  /\ IF l.form = "trailing" THEN OpaqueValue(l.v, TRUE, 30) ELSE LoginSecretValue(l.v)

\* The lines whose value is masked because of what surrounds it.
MaskedLines(text) ==
  {i \in DOMAIN text : DetectCredentialValue(text[i]) \/ DetectKeyedCredential(text, i) \/ DetectLoginPassword(text[i])}

-----------------------------------------------------------------------------
(***************************************************************************)
(* applyRegions over a text of n bytes: a region is [from, to, label].     *)
(***************************************************************************)
Earlier(r, s) ==
  \/ r.from < s.from
  \/ r.from = s.from /\ r.to > s.to
  \/ r.from = s.from /\ r.to = s.to /\ r.label <= s.label

\* Regions that overlap or touch become one, under the label of the first.
MergeRegions(regions) ==
  LET sorted == SetToSortSeq(regions, Earlier)
      One(acc, r) ==
        IF acc # <<>> /\ r.from <= Last(acc).to
        THEN [acc EXCEPT ![Len(acc)].to = IF r.to > @ THEN r.to ELSE @]
        ELSE Append(acc, r)
  IN  FoldLeft(One, <<>>, sorted)

\* The bytes in order, a merged region as its token; tokens are negative.
ReplaceRegions(n, regions) ==
  LET merged == MergeRegions(regions)
      Start(i) == IF i = 1 THEN 0 ELSE merged[i - 1].to
      Bytes(from, to) == [b \in 1..(to - from) |-> from + b]
  IN  FlattenSeq([i \in DOMAIN merged |-> Append(Bytes(Start(i), merged[i].from), -merged[i].label)])
        \o Bytes(IF merged = <<>> THEN 0 ELSE Last(merged).to, n)
=============================================================================
