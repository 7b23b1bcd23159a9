------------------------------ MODULE Redaction ------------------------------
(***************************************************************************)
(* What masking does to one record before it leaves the machine            *)
(* (internal/redact).  A record is a JSON value whose strings may hold     *)
(* JSON documents of their own; the text of a string is abstracted to the  *)
(* name of a value, and Traits says what the seven text layers make of it. *)
(*                                                                         *)
(*   tree ::= Str(v) | Doc(tree) | Obj(<< <<key, tree>>, ... >>)           *)
(*          | Arr(<<tree, ...>>) | Kept(v)                                 *)
(*                                                                         *)
(* An object may name a key twice, as the text may; Doc(t) is a string     *)
(* whose text is the document t; Kept(v) is the one token Segment keeps    *)
(* out of the pass.  A value has the same readings wherever it stands, and *)
(* the patterns that span several tokens are left out.                     *)
(*                                                                         *)
(* The module is a set of operators over one record; MCRecords chooses the *)
(* records.                                                                *)
(***************************************************************************)
EXTENDS Integers, Sequences, FiniteSets, SequencesExt, FiniteSetsExt, Functions

CONSTANT
  \* What the text of each value is: a record of
  \*   core     what its longest unseparated run is made of, "short", "words",
  \*            "letters", "digits" or "mixed"
  \*   bits     its entropy, in tenths of a bit per byte
  \*   given    "secret", or why it is none: "placeholder", "cut", "reference"
  \*   code     it holds bytes that only code holds
  \*   format   a layer that knows credential formats recognises a part of it
  \*   pii      the PII layer does
  \*   toolUse  it is exactly a tool-use id
  \*   left     the value that replacing the recognised part leaves
  \*   literal  every JSON encoder spells it byte for byte
  \*   absolute it has the shape of an absolute path
  \*   dirs     the directories it is, or lies in
  Traits

Gone == "REDACTED"
PathToken == "[REDACTED_PATH]"

Str(v) == [k |-> "s", v |-> v]
Kept(v) == [k |-> "x", v |-> v]
Doc(t) == [k |-> "d", t |-> t]
Obj(m) == [k |-> "o", m |-> m]
Arr(e) == [k |-> "a", e |-> e]

GoneLeaf == Str(Gone)

-----------------------------------------------------------------------------
(***************************************************************************)
(* The judgements on keys and values.                                      *)
(***************************************************************************)
Placeholder(v) == Traits[v].given = "placeholder"

EntropyThreshold == 45

LooksRandom(v) == Traits[v].bits > EntropyThreshold /\ ~Traits[v].toolUse
KnownFormat(v) == Traits[v].format
HoldsPII(v) == Traits[v].pii

\* The two readings of one value: with every layer, and with the layers that
\* know a credential by its format alone.
Layers(v, full) ==
  IF KnownFormat(v) \/ (full /\ (LooksRandom(v) \/ HoldsPII(v))) THEN Traits[v].left ELSE v

\* The keys that name a secret, with what a value under one must be.
SecretKeyClasses ==
  {[keys |-> {"password", "db_password"}, password |-> TRUE, minEntropy |-> 30],
   [keys |-> {"api_key", "token"}, password |-> FALSE, minEntropy |-> 30],
   [keys |-> {"signing_key"}, password |-> FALSE, minEntropy |-> 35]}

\* The class of a key, as a set of at most one.
SecretKeyClass(key) == {c \in SecretKeyClasses : key \in c.keys}

OpaqueValue(v, lettersAlone, minEntropy) ==
  LET t == Traits[v]
  IN  /\ t.given = "secret" /\ ~t.code
      /\ t.core = "mixed" \/ (lettersAlone /\ t.core = "letters")
      /\ t.bits >= minEntropy

HoldsSecret(class, v) == OpaqueValue(v, class.password, class.minEntropy)

NamesOpaqueSecret(key, v) == \E class \in SecretKeyClass(key) : HoldsSecret(class, v)

LoginSecretValue(v) == Traits[v].given = "secret" /\ ~Traits[v].code

DatabasePasswordKey(key) == key = "db_password"
GenericPasswordKey(key) == key = "password"

\* isCredentialJSONValue.  A document is no placeholder and has no shape of a
\* secret, so only a password key names one.
Named(key, leaf, loginContext) ==
  /\ leaf.k = "s" => ~Placeholder(leaf.v)
  /\ \/ DatabasePasswordKey(key)
     \/ loginContext /\ GenericPasswordKey(key)
     \/ leaf.k = "s" /\ NamesOpaqueSecret(key, leaf.v)

\* An object that names a host and a user: isCredentialJSONObject.
NamesLogin(t) ==
  LET keys == {t.m[i][1] : i \in DOMAIN t.m}
  IN  keys \cap {"host", "server"} # {} /\ keys \cap {"user", "username"} # {}

\* How much of the layers the value of a key is subject to.
FieldPolicy(key) ==
  CASE key \in {"signature", "thinkingSignature"} -> "verbatim"
    [] key \in {"id", "ids", "path", "cwd", "gitBranch"} -> "deterministic"
    [] OTHER -> "scan"

-----------------------------------------------------------------------------
(***************************************************************************)
(* Reading a tree.                                                         *)
(***************************************************************************)
\* encoding/json keeps the last member of a name.
Decoded(t) ==
  SelectSeq([i \in DOMAIN t.m |-> <<i, t.m[i][1], t.m[i][2]>>],
            LAMBDA e : \A j \in DOMAIN t.m : j > e[1] => t.m[j][1] # e[2])

\* The value of a key, or a leaf that is none.
Field(t, key) ==
  LET found == SelectSeq(Decoded(t), LAMBDA e : e[2] = key)
  IN  IF found = <<>> THEN Kept("none") ELSE found[1][3]

\* An object whose data is base64 bytes: shouldSkipJSONLObject.
IsPayload(t) == Field(t, "type") \in {Str("image"), Str("image_url"), Str("base64")}

RECURSIVE HasDuplicateKeys(_)
HasDuplicateKeys(t) ==
  CASE t.k = "o" -> \/ \E i, j \in DOMAIN t.m : i < j /\ t.m[i][1] = t.m[j][1]
                    \/ \E i \in DOMAIN t.m : HasDuplicateKeys(t.m[i][2])
    [] t.k = "a" -> \E i \in DOMAIN t.e : HasDuplicateKeys(t.e[i])
    [] OTHER -> FALSE

\* The text of a document holds the text of a value.
RECURSIVE Holds(_, _)
Holds(t, leaf) ==
  CASE t.k = "o" -> \E i \in DOMAIN t.m : Holds(t.m[i][2], leaf)
    [] t.k = "a" -> \E i \in DOMAIN t.e : Holds(t.e[i], leaf)
    [] t.k = "d" -> t = leaf \/ Holds(t.t, leaf)
    [] OTHER -> t = leaf

\* The scan of raw text: every value, and the pairs of a key and a value that
\* the text spells side by side.  Inside a string the quotes are escaped, and
\* no key is found next to its value any more.
RECURSIVE Scan(_, _, _, _)
Scan(t, full, key, escaped) ==
  CASE t.k = "o" -> Obj([i \in DOMAIN t.m |-> <<t.m[i][1], Scan(t.m[i][2], full, t.m[i][1], escaped)>>])
    [] t.k = "a" -> Arr([i \in DOMAIN t.e |-> Scan(t.e[i], full, "", escaped)])
    [] t.k = "d" -> Doc(Scan(t.t, full, "", TRUE))
    [] OTHER -> LET v == t.v
                IN  IF ~escaped /\ ((DatabasePasswordKey(key) /\ ~Placeholder(v)) \/ NamesOpaqueSecret(key, v))
                    THEN GoneLeaf ELSE [t EXCEPT !.v = Layers(v, full)]

ScanText(t, full) == Scan(t, full, "", FALSE)

-----------------------------------------------------------------------------
(***************************************************************************)
(* The field-aware pass: collect the readings of every string of the       *)
(* decoded record, then put them into the raw text.  "forward" is the      *)
(* order the walk takes the members of an object in, which Go leaves open. *)
(***************************************************************************)
\* What the walk comes by: the key a string stands under ("" in an array), the
\* string, and whether the key names it a credential.
RECURSIVE Walk(_, _, _, _)
Walk(t, key, loginContext, forward) ==
  CASE t.k = "o" ->
         LET inner   == loginContext \/ NamesLogin(t)
             members == SelectSeq(Decoded(t), LAMBDA e : ~(IsPayload(t) /\ e[2] = "data"))
             ordered == IF forward THEN members ELSE Reverse(members)
         IN  FlattenSeq([i \in DOMAIN ordered |-> Walk(ordered[i][3], ordered[i][2], inner, forward)])
    [] t.k = "a" -> FlattenSeq([i \in DOMAIN t.e |-> Walk(t.e[i], "", loginContext, forward)])
    [] t.k = "x" -> <<>>
    [] OTHER -> <<[key |-> key, leaf |-> t, named |-> Named(key, t, loginContext)]>>

\* A mutant of Record: the occurrence met first decides.
Record_FirstWins(found, key, leaf, full, format, named) ==
  IF (full = leaf /\ format = leaf) \/ <<key, leaf>> \in DOMAIN found THEN found
  ELSE (<<key, leaf>> :> [full |-> full, format |-> format]) @@ found

\* record: one reading for each key and string; a credential's wins.
Record(found, key, leaf, full, format, named) ==
  LET at == <<key, leaf>>
      reading == [full |-> full, format |-> format]
  IN  CASE full = leaf /\ format = leaf -> found
        [] at \notin DOMAIN found -> (at :> reading) @@ found
        [] named -> [found EXCEPT ![at] = [full |-> GoneLeaf, format |-> GoneLeaf]]
        [] OTHER -> found

\* A verdict reached elsewhere may name a string inside this document.
VerdictFromOutsideMayReach(doc, own, all) ==
  \E leaf \in all \ own :
     \/ leaf.k = "d" \/ ~Traits[leaf.v].literal
     \/ Holds(doc.t, leaf)

RECURSIVE Readings(_, _), Collect(_, _, _), Apply(_, _, _, _)

\* Both readings of a document once its own pass is over it.
Reread(text) == [full |-> Doc(ScanText(text, TRUE)), format |-> Doc(ScanText(text, FALSE))]

\* Both readings of a string, and the credentials named inside it.
ReadInside(doc, c) == Reread(Apply(doc, c, "scan", "")) @@ [credentials |-> c.credentials]
Readings(leaf, forward) ==
  IF leaf.k = "s"
  THEN [full |-> Str(Layers(leaf.v, TRUE)), format |-> Str(Layers(leaf.v, FALSE)), credentials |-> {}]
  ELSE ReadInside(leaf.t, Collect(leaf.t, {}, forward))

\* The first reading: of every string met, what its own document makes of it.
FirstReading(read) ==
  LET One(acc, o) == IF o.named THEN Record(acc, o.key, o.leaf, GoneLeaf, GoneLeaf, TRUE)
                     ELSE Record(acc, o.key, o.leaf, o.full, o.format, FALSE)
  IN  FoldLeft(One, <<>>, read)

Credentials(read) ==
  {read[i].leaf : i \in {j \in DOMAIN read : read[j].named /\ read[j].key # ""}} \cup UNION {read[i].credentials : i \in DOMAIN read}

\* The second reading: of the documents, with every credential of the record.
SecondReading(recorded, read, credentials, forward) ==
  LET One(acc, o) ==
        LET at == <<o.key, o.leaf>>
            text == Apply(o.leaf.t, Collect(o.leaf.t, credentials, forward), "scan", "")
        IN  IF \/ ~VerdictFromOutsideMayReach(o.leaf, o.credentials, credentials)
               \/ at \in DOMAIN acc /\ acc[at] = [full |-> GoneLeaf, format |-> GoneLeaf]
               \/ text = o.leaf.t
            THEN acc
            ELSE (at :> Reread(text)) @@ acc
  IN  FoldLeft(One, recorded, SelectSeq(read, LAMBDA o : o.leaf.k = "d"))

CollectFrom(read, inherited, forward) ==
  LET credentials == inherited \cup Credentials(read)
  IN  [replacements |-> SecondReading(FirstReading(read), read, credentials, forward), credentials |-> credentials]

Collect(t, inherited, forward) ==
  LET found == Walk(t, "", FALSE, forward)
  IN  CollectFrom([i \in DOMAIN found |-> found[i] @@ Readings(found[i].leaf, forward)], inherited, forward)

\* The reading a string token gets: the one of its own key, or for a token with
\* no key the credential verdict; failing those, the one of an array element.
Replacement(leaf, c, policy, key) ==
  LET Reading(at) == IF at \notin DOMAIN c.replacements THEN leaf
                     ELSE IF policy = "scan" THEN c.replacements[at].full ELSE c.replacements[at].format
  IN  IF key # "" /\ Reading(<<key, leaf>>) # leaf THEN Reading(<<key, leaf>>)
      ELSE IF key = "" /\ leaf \in c.credentials THEN GoneLeaf
      ELSE Reading(<<"", leaf>>)

\* An array takes over the policy of the key that owns it, an object inside it
\* does not.
Apply(t, c, policy, key) ==
  CASE t.k = "o" -> Obj([i \in DOMAIN t.m |-> <<t.m[i][1], Apply(t.m[i][2], c, FieldPolicy(t.m[i][1]), t.m[i][1])>>])
    [] t.k = "a" -> Arr([i \in DOMAIN t.e |-> Apply(t.e[i], c, policy, "")])
    [] t.k = "x" \/ policy = "verbatim" -> t
    [] OTHER -> Replacement(t, c, policy, key)

\* One line or document: text that names a key twice is scanned as text.
MaskLine(t, forward) ==
  IF HasDuplicateKeys(t) THEN ScanText(t, TRUE)
  ELSE Apply(t, Collect(t, {}, forward), "scan", "")

-----------------------------------------------------------------------------
(***************************************************************************)
(* What the pass is to come to, said of each string by where it stands.    *)
(***************************************************************************)
\* The pairs of a key and a string that one document names a credential.
NamedPairs(t) ==
  LET found == Walk(t, "", FALSE, TRUE)
  IN  {<<found[i].key, found[i].leaf>> : i \in {j \in DOMAIN found : found[j].named /\ found[j].key # ""}}

RECURSIVE NamedAnywhere(_)
NamedAnywhere(t) ==
  LET found == Walk(t, "", FALSE, TRUE)
  IN  {p[2] : p \in NamedPairs(t)}
        \cup UNION {NamedAnywhere(found[i].leaf.t) : i \in {j \in DOMAIN found : found[j].leaf.k = "d"}}

RECURSIVE Decided(_, _, _, _, _)
Decided(t, pairs, all, policy, key) ==
  CASE t.k = "o" -> Obj([i \in DOMAIN t.m |->
                          <<t.m[i][1], IF IsPayload(t) /\ t.m[i][1] = "data" THEN t.m[i][2]
                                       ELSE Decided(t.m[i][2], pairs, all, FieldPolicy(t.m[i][1]), t.m[i][1])>>])
    [] t.k = "a" -> Arr([i \in DOMAIN t.e |-> Decided(t.e[i], pairs, all, policy, "")])
    [] t.k = "x" \/ policy = "verbatim" -> t
    [] <<key, t>> \in pairs \/ (key = "" /\ t \in all) -> GoneLeaf
    [] t.k = "s" -> Str(Layers(t.v, policy = "scan"))
    [] OTHER -> Doc(ScanText(Decided(t.t, NamedPairs(t.t), all, "scan", ""), policy = "scan"))

Decision(t) ==
  IF HasDuplicateKeys(t) THEN ScanText(t, TRUE)
  ELSE Decided(t, NamedPairs(t), NamedAnywhere(t), "scan", "")
=============================================================================
