------------------------------ MODULE MCRecords ------------------------------
(***************************************************************************)
(* The operators on records, each put to every input of a small set: a     *)
(* state holds one input (of a batch, what is packed and sent of it), and  *)
(* the invariants compare what the operator makes of it with what it is to *)
(* come to.                                                                *)
(***************************************************************************)
EXTENDS Segments, Scanning

VARIABLE job   \* the input at hand

-----------------------------------------------------------------------------
(***************************************************************************)
(* The values.                                                             *)
(***************************************************************************)
Word == [core |-> "words", bits |-> 20, given |-> "secret", code |-> FALSE, format |-> FALSE, pii |-> FALSE,
         toolUse |-> FALSE, left |-> Gone, literal |-> TRUE, absolute |-> FALSE, dirs |-> {}]

PathIn(dirs) == [Word EXCEPT !.given = "reference", !.absolute = TRUE, !.dirs = dirs]

Known ==
  "hunter2"  :> [Word EXCEPT !.core = "short"]
  @@ "h+nt'r" :> [Word EXCEPT !.core = "short", !.literal = FALSE]
  @@ "hex key" :> [Word EXCEPT !.core = "mixed", !.bits = 32]
  @@ "random" :> [Word EXCEPT !.core = "mixed", !.bits = 50]
  @@ "toolu"  :> [Word EXCEPT !.core = "mixed", !.bits = 47, !.toolUse = TRUE]
  @@ "url"    :> [Word EXCEPT !.given = "reference", !.format = TRUE, !.left = "url left"]
  @@ "mail"   :> [Word EXCEPT !.pii = TRUE, !.left = "[REDACTED_EMAIL]"]
  @@ "xxxx"   :> [Word EXCEPT !.given = "placeholder"]
  @@ "getpw()" :> [Word EXCEPT !.code = TRUE]
  @@ Gone     :> [Word EXCEPT !.given = "placeholder"]
  @@ PathToken :> [Word EXCEPT !.given = "reference"]
  @@ "pic"    :> [Word EXCEPT !.core = "mixed", !.bits = 55]
  @@ "pic, escaped" :> [Word EXCEPT !.core = "mixed", !.bits = 55, !.literal = FALSE]
  @@ "scan"   :> [Word EXCEPT !.core = "mixed", !.bits = 55]
  @@ "sha pic" :> [Word EXCEPT !.core = "mixed", !.bits = 38]
  @@ "sha scan" :> [Word EXCEPT !.core = "mixed", !.bits = 38]
  @@ "~"      :> PathIn({"~"})
  @@ "~/p"    :> PathIn({"~", "~/p"})
  @@ "/w"     :> PathIn({"/w"})
  @@ "/w/s"   :> PathIn({"/w", "/w/s"})
  @@ "/etc"   :> PathIn({"/etc"})

Others ==
  {"url left", "[REDACTED_EMAIL]", "word", "h", "u", "none", "image", "pdf", "document", "base64", "sha256_ref",
   "omitted", "environment", "other", "system", "local_command", ""}

MCTraits == Known @@ [v \in Others |-> Word]
MCText == [v \in {"pic", "pic, escaped", "scan"} |-> IF v = "pic, escaped" THEN "pic" ELSE v]
MCDigest == "pic" :> "sha pic" @@ "scan" :> "sha scan"

-----------------------------------------------------------------------------
(***************************************************************************)
(* Records to mask: a member that may name a credential beside one that    *)
(* may hold a copy of its value, in the documents and arrays either may    *)
(* stand in.                                                               *)
(***************************************************************************)
CONSTANTS
  Values, Keys, CopyKeys,
  KeyTwice   \* records may name a key twice beside a block

Login(v) == Obj(<<<<"host", Str("h")>>, <<"user", Str("u")>>, <<"password", Str(v)>>>>)
One(key, t) == Obj(<<<<key, t>>>>)

Forms(v) ==
  {Str(v), Arr(<<Str(v)>>), Doc(Arr(<<Str(v)>>)), Login(v), Doc(Login(v)), Arr(<<Login(v)>>),
   Doc(Obj(<<<<"note", Doc(Login(v))>>, <<"ids", Arr(<<Str(v)>>)>>>>)),
   Doc(Obj(<<<<"password", Str(v)>>, <<"host", Str("h")>>, <<"user", Str("u")>>, <<"password", Str("xxxx")>>>>)),
   Obj(<<<<"type", Str("image")>>, <<"data", Str("pic")>>, <<"note", Str(v)>>>>), Arr(<<One("password", Str(v)), Login(v)>>)}
  \cup UNION {{One(k, Str(v)), Arr(<<One(k, Str(v))>>), Doc(One(k, Str(v)))} : k \in Keys}

Copies(v) ==
  {Str(v), Arr(<<Str(v)>>), Doc(Arr(<<Str(v), Str("word")>>)), Doc(One("note", Doc(Arr(<<Str(v)>>)))),
   Arr(<<One("id", Str(v)), Doc(Login(v))>>)}

Records ==
  UNION {{Obj(<<<<k, f>>, <<c, g>>>>) : k \in Keys, f \in Forms(v), c \in CopyKeys, g \in Copies(v)} : v \in Values}

Paired(k, f) == k = "db_password" => f.k \in {"s", "d"}

MaskRecord == \E t \in Records : Paired(t.m[1][1], t.m[1][2]) /\ job' = [kind |-> "record", t |-> t]

-----------------------------------------------------------------------------
(***************************************************************************)
(* Batches of up to two records with blocks; the lines of session files;   *)
(* plain texts; regions.                                                   *)
(***************************************************************************)
Block(type, source) == Obj(<<<<"type", Str(type)>>, <<"source", source>>>>)
Base64(v) == Obj(<<<<"type", Str("base64")>>, <<"data", Str(v)>>>>)
Blocks ==
  {Block("image", Base64(v)) : v \in {"pic", "pic, escaped", "scan"}}
  \cup {Block("document", Obj(<<<<"type", Str("base64")>>, <<"width", Str("word")>>, <<"data", Str("pic")>>, <<"sha256", Str("word")>>>>)),
        Block("image", Obj(<<<<"type", Str("base64")>>, <<"data", Str("pic")>>, <<"data", Str("scan")>>>>)),
        Block("image", Obj(<<<<"bytes", Base64("pic")>>, <<"type", Str("base64")>>, <<"data", Str("scan")>>>>)),
        One("x", Block("image", Base64("pic")))}

ReadLine(b) ==
  Obj(<<<<"content", b>>, <<"toolUseResult", Obj(<<<<"type", Str("image")>>, <<"file", Obj(<<<<"base64", Str("pic")>>, <<"width", Str("h")>>>>)>>>>)>>>>)

BlockRecords ==
  {Arr(<<b>>) : b \in Blocks} \cup {ReadLine(b) : b \in Blocks}
  \cup {r \in {Arr(<<b, c>>) : b, c \in Blocks} : KeyTwice \/ ~HasDuplicateKeys(r)}

Policies ==
  [omit : {FALSE}, resolves : {TRUE}, sent : {{}, {<<"s1", "sha pic">>}, {<<"s2", "sha pic">>}}]
  \cup [omit : BOOLEAN, resolves : {FALSE}, sent : {{}}]

PackBatch ==
  \E policy \in Policies, first \in BlockRecords, v \in {"pic", "pic, escaped", "scan"}, packed \in BOOLEAN,
     s \in {"s1", NoScope}, s2 \in {"s1", "s2"} :
     LET records == <<[scope |-> s, tree |-> first, packed |-> packed],
                      [scope |-> s2, tree |-> Arr(<<Block("image", Base64(v))>>), packed |-> TRUE]>>
     IN  job' = [kind |-> "packed", policy |-> policy, packed |-> PackAll(policy, records).packed]

\* The records that were packed are masked as they leave.
MaskBatch ==
  /\ job.kind = "packed"
  /\ job' = [kind |-> "batch", policy |-> job.policy, packed |-> job.packed,
              sent |-> [i \in DOMAIN job.packed |-> SegmentLine(job.packed[i].rewritten)]]

PathValues == {"~/p", "/w", "/w/s", "/etc"}

Lines_ ==
  {Obj(<<<<"type", Str(type)>>, <<"home", Str(a)>>, <<"cwd", Str(cwd)>>, <<"content", Str(b)>>, <<"subtype", Str(sub)>>,
         <<"attachment", Obj(<<<<"snapshot", Obj(<<<<"scratchpadDirectory", Str(c)>>, <<"workingDirectory", Str(d)>>>>)>>,
                               <<"type", Str(kind)>>>>)>>>>) :
     type \in {"system", "other"}, sub \in {"local_command", "other"}, kind \in {"environment", "other"},
     a \in PathValues, cwd \in {"~/p", "/w"}, b \in PathValues, c \in PathValues, d \in {"/w/s", "/etc"}}

StripLine == \E l \in Lines_ : job' = [kind |-> "line", line |-> l]

Fact(m, i) ==
  [type |-> "assistant", message |-> m, index |-> i, surface |-> "cli", subtype |-> "", attachment |-> "", empty |-> FALSE,
   sidechain |-> FALSE, agent |-> FALSE, toolUse |-> FALSE, parentAgent |-> FALSE, parentSession |-> FALSE]

ScanFacts ==
  \E n \in 0..4 : \E m \in [1..n -> {"m1", "m2"}], x \in [1..n -> 0..2] :
     job' = [kind |-> "facts", lines |-> [i \in 1..n |-> Fact(m[i], x[i])]]

TextLines ==
  {[is |-> "words"], [is |-> "host"], [is |-> "login", form |-> "sshpass", v |-> "hunter2"],
   [is |-> "login", form |-> "trailing", v |-> "hunter2"], [is |-> "login", form |-> "inline", v |-> "hunter2"]}
  \cup {[is |-> "pair", key |-> "password", quoted |-> q, entry |-> FALSE, v |-> v] : q \in BOOLEAN, v \in {"hunter2", "hex key", "getpw()", "xxxx"}}

ScanPlainText ==
  \E at \in 1..6, above \in 0..4, l \in TextLines, host \in TextLines :
     job' = [kind |-> "text", text |-> [i \in 1..6 |-> IF i = at THEN l ELSE IF i = above THEN host ELSE [is |-> "words"]]]

RegionsOf(n) == {r \in [from : 0..n, to : 0..n, label : 1..2] : r.from < r.to}

MergeOverlaps ==
  \E a, b, c \in RegionsOf(4) : job' = [kind |-> "regions", regions |-> {a, b, c}]

-----------------------------------------------------------------------------
\* Each question starts from a state of its own.
Questions == {"record", "batch", "line", "facts", "text", "regions"}

Init == job \in [kind : {"none"}, of : Questions]

Asked(q) == job.kind = "none" /\ job.of = q

Next ==
  \/ Asked("record") /\ MaskRecord
  \/ Asked("batch") /\ PackBatch
  \/ MaskBatch
  \/ Asked("line") /\ StripLine
  \/ Asked("facts") /\ ScanFacts
  \/ Asked("text") /\ ScanPlainText
  \/ Asked("regions") /\ MergeOverlaps

Spec == Init /\ [][Next]_job

-----------------------------------------------------------------------------
\* In plain text a password is masked when a host stands within three lines of
\* it on either side, and a value shaped like a secret wherever its key stands
\* (detectKeyedCredentials, hostLines.near).  Of the regions all layers find,
\* every byte is hidden and no other, one token for each stretch
\* (applyRegions).
TextMasked ==
  /\ job.kind = "text" =>
       MaskedLines(job.text) =
         {i \in DOMAIN job.text :
            LET l == job.text[i]
            IN  CASE l.is = "pair" -> \/ l.v = "hex key"
                                      \/ /\ l.v = "hunter2" /\ ~l.quoted
                                         /\ \E j \in (i - 3)..(i + 3) : j \in DOMAIN job.text /\ NamesHost(job.text[j])
                  [] l.is = "login" -> l.form # "trailing"
                  [] OTHER -> FALSE}
  /\ job.kind = "regions" =>
       LET hidden == UNION {(r.from + 1)..r.to : r \in job.regions}
           out == ReplaceRegions(4, job.regions)
           touch == {r \in job.regions : \A o \in job.regions : ~(o.from < r.from /\ o.to >= r.from)}
       IN  /\ SelectSeq(out, LAMBDA b : b > 0) = SetToSortSeq((1..4) \ hidden, <)
           /\ Len(SelectSeq(out, LAMBDA b : b < 0)) = Cardinality({r.from : r \in touch})

\* Every string of a record leaves as its place decides: a credential its own
\* key names, and every copy of it in an array of the record or of a document
\* inside it, is gone; any other string loses what its key's policy lets the
\* layers take.  Neither the order Go walks an object in nor the shortcuts of
\* the second reading of a document change it (collectJSONLReplacements,
\* applyJSONReplacements, valueMemo.readings).  Of a text that is no record,
\* TextMasked says the same.
MaskedAsDecided ==
  /\ job.kind = "record" => \A forward \in BOOLEAN : MaskLine(job.t, forward) = Decision(job.t)
  /\ TextMasked

\* Every reference a batch carries stands for a payload the service holds in
\* that session: from an acknowledged batch, or shown in full earlier in this
\* one, in the bytes that really leave after masking.  Putting them all back
\* gives the record that was stored, and with upload turned off no payload is
\* shown at all (mediablock.Pass, batch.Build).
ReferencesResolve ==
  job.kind = "batch" =>
    LET packed == job.packed
        sent == job.sent
        held(i, path, digest) ==
          \/ <<packed[i].scope, digest>> \in job.policy.sent
          \/ \E shown \in Shown(sent[i]) : shown[2] = digest /\ Before(shown[1], path)
          \/ \E j \in 1..(i - 1) : packed[j].scope = packed[i].scope /\ \E shown \in Shown(sent[j]) : shown[2] = digest
        textOf(digest) == CHOOSE v \in DOMAIN Digest : Digest[v] = digest
    IN  \A i \in DOMAIN packed :
          /\ \A ref \in References(sent[i]) :
               job.policy.resolves /\ packed[i].scope # NoScope /\ held(i, ref[1], ref[2])
          /\ IF job.policy.omit THEN Shown(sent[i]) = {} ELSE PutBack(packed[i].rewritten, textOf) = packed[i].was

\* A segment's oddities never go unnoticed.  A field that says where the session
\* ran, in the two layers that are probed, is replaced, or is one of the fields
\* left as observed, or its position is reported and the segment held back; and
\* a message is counted exactly when its block indexes are not consecutive
\* numbers, each once (redact.Segment, AbsolutePathFields, drift.Scan).
NothingUnnoticed ==
  /\ job.kind = "line" =>
       \A s \in StringValues(job.line, <<>>) :
          (ProbedLayer(s.path) /\ Traits[s.v].absolute /\ NamesLocation(s.v, job.line)) =>
             \/ ~\E o \in StringValues(SegmentLine(job.line), <<>>) : o.path = s.path /\ o.v = s.v
             \/ Listed(AcknowledgedPaths, s.path, job.line)
             \/ s.path \in AbsolutePathFields(job.line)
  /\ job.kind = "facts" =>
       LET indexes(m) == BlockIndexes(job.lines, m)
           whole(m) == \E lo \in 0..3 : \E hi \in 0..3 :
                          /\ Range(indexes(m)) = lo..hi
                          /\ Cardinality(Range(indexes(m))) = Len(indexes(m))
       IN  Signals(job.lines).gaps = Cardinality({m \in Messages(job.lines) : ~whole(m)})
=============================================================================
