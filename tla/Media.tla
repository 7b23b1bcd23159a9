-------------------------------- MODULE Media --------------------------------
(***************************************************************************)
(* The rewrite of image and document payloads on a record's way into a     *)
(* batch (internal/mediablock): a payload the service already holds goes   *)
(* as a reference to its digest, and with upload turned off every payload  *)
(* goes as a placeholder.  A record is a tree of Redaction; a path is the  *)
(* sequence of member and element numbers that leads to a string.          *)
(***************************************************************************)
EXTENDS Redaction

CONSTANTS
  Text,    \* the text a payload value decodes to: two spellings have one text
  Digest   \* the digest of a payload's text, a value of its own

NoScope == "no scope"

PlaceholderNames == {"sha256", "bytes", "width", "height"}

-----------------------------------------------------------------------------
(***************************************************************************)
(* Finding the blocks.                                                     *)
(***************************************************************************)
IsObject(t) == t.k = "o"

\* The members of one name; an object that names one twice is no block.
Naming(t, key) == {i \in DOMAIN t.m : t.m[i][1] = key}
NamesOnce(t, key) == Cardinality(Naming(t, key)) = 1

HasContent(leaf) == leaf.k = "s" /\ leaf.v # ""

IsBlock(t) ==
  /\ IsObject(t)
  /\ NamesOnce(t, "type") /\ Field(t, "type") \in {Str("image"), Str("document")}
  /\ NamesOnce(t, "source") /\ IsObject(Field(t, "source"))
  /\ LET src == Field(t, "source")
     IN  /\ NamesOnce(src, "type") /\ Field(src, "type") = Str("base64")
         /\ NamesOnce(src, "data") /\ HasContent(Field(src, "data"))

\* The Read result a session line keeps at its root.
IsReadResult(line) ==
  /\ IsObject(line) /\ NamesOnce(line, "toolUseResult") /\ IsObject(Field(line, "toolUseResult"))
  /\ LET r == Field(line, "toolUseResult")
     IN  /\ NamesOnce(r, "type") /\ Field(r, "type") \in {Str("image"), Str("pdf")}
         /\ Naming(r, "source") = {}
         /\ NamesOnce(r, "file") /\ IsObject(Field(r, "file"))
         /\ NamesOnce(Field(r, "file"), "base64")
         /\ HasContent(Field(Field(r, "file"), "base64"))

Branches(t) == IF IsObject(t) THEN [i \in DOMAIN t.m |-> t.m[i][2]] ELSE t.e

RECURSIVE At(_, _), Leaves(_), Put(_, _, _)
At(t, path) == IF path = <<>> THEN t ELSE At(Branches(t)[Head(path)], Tail(path))

\* The strings of a record in the order of the text.
Leaves(t) ==
  IF t.k \notin {"o", "a"} THEN <<<<>>>>
  ELSE FlattenSeq([i \in DOMAIN Branches(t) |->
                    LET below == Leaves(Branches(t)[i]) IN [j \in DOMAIN below |-> <<i>> \o below[j]]])

Put(t, path, new) ==
  IF path = <<>> THEN new
  ELSE LET i == Head(path)
       IN  IF IsObject(t) THEN Obj([t.m EXCEPT ![i][2] = Put(@, Tail(path), new)])
           ELSE Arr([t.e EXCEPT ![i] = Put(@, Tail(path), new)])

\* A path that ends at the data of a block's source.
IsPayloadAt(t, path) ==
  /\ Len(path) >= 2
  /\ LET source == Front(path)
         block == At(t, Front(source))
     IN  /\ IsBlock(block)
         /\ block.m[Last(source)][1] = "source"
         /\ At(t, source).m[Last(path)][1] = "data"

FindBlocks(t) == SelectSeq(Leaves(t), LAMBDA p : IsPayloadAt(t, p))

\* Putting a reference back gives the bytes that were there.
Exact(source, leaf) == Text[leaf.v] = leaf.v /\ Naming(source, "sha256") = {}

-----------------------------------------------------------------------------
(***************************************************************************)
(* Writing the edits.                                                      *)
(***************************************************************************)
\* The digest of a payload in the place of the payload.
Digested(source, sourceType, key, v) ==
  Obj([i \in DOMAIN source.m |->
        CASE source.m[i][1] = "type" -> <<"type", Str(sourceType)>>
          [] source.m[i][1] = key -> <<"sha256", Str(Digest[Text[v]])>>
          [] OTHER -> source.m[i]])

Reference(source) == Digested(source, "sha256_ref", "data", Field(source, "data").v)

\* The tokens of an object, numbered in text order: the key and the value of
\* its i-th member, and the comma after it.
KeyToken(i) == 3 * i - 2
ValueToken(i) == 3 * i - 1

\* The ranges of tokens [from, to) that removing the members a placeholder
\* writes takes away, one for each run of adjacent members: up to the key of
\* the member after it, or else from the end of the value before it.
Displaced(members) ==
  LET named == {i \in DOMAIN members : members[i][1] \in PlaceholderNames}
      runs == {<<i, j>> \in named \X named : /\ i..j \subseteq named /\ i <= j
                                             /\ i - 1 \notin named /\ j + 1 \notin named}
  IN  {IF r[2] < Len(members) THEN <<KeyToken(r[1]), KeyToken(r[2] + 1)>>
       ELSE <<ValueToken(r[1] - 1) + 1, ValueToken(r[2]) + 1>> : r \in runs}

\* The members left of an object when those ranges are cut out of it.
WithoutDisplaced(members) ==
  LET gone == UNION {r[1]..(r[2] - 1) : r \in Displaced(members)}
      left == {i \in DOMAIN members : KeyToken(i) \notin gone}
  IN  [n \in 1..Cardinality(left) |-> members[CHOOSE i \in left : Cardinality({j \in left : j <= i}) = n]]

Omitted(source, key) ==
  Digested(Obj(WithoutDisplaced(source.m)), "omitted", key, Field(source, key).v)

\* A Read result has no source type of its own to replace.
OmittedFile(file) ==
  LET t == Obj(WithoutDisplaced(file.m))
  IN  Obj([i \in DOMAIN t.m |-> IF t.m[i][1] = "base64" THEN <<"sha256", Str(Digest[Text[Field(file, "base64").v]])>>
                                ELSE t.m[i]])

RECURSIVE OmitBlocks(_)
OmitBlocks(t) ==
  CASE t.k = "a" -> Arr([i \in DOMAIN t.e |-> OmitBlocks(t.e[i])])
    [] t.k = "o" ->
         LET below(m) == LET b == OmitBlocks(m[2])
                         IN  IF IsBlock(t) /\ m[1] = "source" THEN Omitted(b, "data") ELSE b
         IN  Obj([i \in DOMAIN t.m |-> <<t.m[i][1], below(t.m[i])>>])
    [] OTHER -> t

OmitReadResult(line) ==
  IF ~IsReadResult(line) THEN line
  ELSE Obj([i \in DOMAIN line.m |->
             IF line.m[i][1] # "toolUseResult" THEN line.m[i]
             ELSE <<"toolUseResult",
                    Obj([j \in DOMAIN line.m[i][2].m |->
                          LET m == line.m[i][2].m[j]
                          IN  IF m[1] = "file" THEN <<"file", OmittedFile(m[2])>> ELSE m])>>])

-----------------------------------------------------------------------------
(***************************************************************************)
(* The pass over one batch.  policy says whether payloads are left out,    *)
(* whether the service resolves references, and what it acknowledged.      *)
(***************************************************************************)
Refers(policy, carried, scope, digest, kept) ==
  /\ scope # NoScope /\ policy.resolves
  /\ digest \in kept \/ <<scope, digest>> \in carried \cup policy.sent

\* Rewrite: the record, and the payloads it still carries in full.
Rewrite(policy, carried, scope, t) ==
  IF policy.omit THEN [data |-> OmitReadResult(OmitBlocks(t)), originals |-> {}]
  ELSE LET One(acc, path) ==
             LET leaf == At(t, path)
                 source == At(t, Front(path))
                 digest == Digest[Text[leaf.v]]
             IN  IF Exact(source, leaf) /\ Refers(policy, carried, scope, digest, acc.originals)
                 THEN [acc EXCEPT !.data = Put(@, Front(path), Reference(At(acc.data, Front(path))))]
                 ELSE [acc EXCEPT !.originals = @ \cup {digest}]
       IN  FoldLeft(One, [data |-> t, originals |-> {}], FindBlocks(t))

\* A mutant of KeepOriginals: a payload counts for every session.
KeepOriginals_AnyScope(carried, scope, rewritten) ==
  carried \cup {<<s, d>> : s \in {scope, "s1", "s2"}, d \in rewritten.originals}

\* Keep, only once the record is packed.
KeepOriginals(carried, scope, rewritten) ==
  IF scope = NoScope THEN carried ELSE carried \cup {<<scope, d>> : d \in rewritten.originals}

\* The records of a batch in their order: [scope, tree, packed].
PackAll(policy, records) ==
  LET One(acc, r) ==
        LET w == Rewrite(policy, acc.carried, r.scope, r.tree)
        IN  IF ~r.packed THEN acc
            ELSE [carried |-> KeepOriginals(acc.carried, r.scope, w),
                  packed  |-> Append(acc.packed, [scope |-> r.scope, was |-> r.tree, rewritten |-> w.data])]
  IN  FoldLeft(One, [carried |-> {}, packed |-> <<>>], records)

-----------------------------------------------------------------------------
(***************************************************************************)
(* What the receiving service does with a record.                          *)
(***************************************************************************)
\* The payloads a record shows in full, at the string they stand at.
Shown(t) ==
  {<<p, Digest[Text[At(t, p).v]]>> : p \in {q \in Range(Leaves(t)) : IsPayloadAt(t, q) /\ At(t, q).v \in DOMAIN Text}}

IsReferenceAt(t, path) ==
  /\ Len(path) >= 2
  /\ LET source == At(t, Front(path))
     IN  IsObject(source) /\ Field(source, "type") = Str("sha256_ref") /\ source.m[Last(path)][1] = "sha256"

References(t) == {<<p, At(t, p).v>> : p \in {q \in Range(Leaves(t)) : IsReferenceAt(t, q)}}

Before(p, q) == \E n \in 1..Len(p) : n <= Len(q) /\ p[n] < q[n] /\ \A m \in 1..(n - 1) : p[m] = q[m]

\* Putting every reference back, given the text of a digest.
PutBack(t, TextOf(_)) ==
  LET One(acc, path) ==
        LET source == At(acc, Front(path))
        IN  Put(acc, Front(path),
                Obj([i \in DOMAIN source.m |->
                      CASE source.m[i][1] = "type" -> <<"type", Str("base64")>>
                        [] source.m[i][1] = "sha256" -> <<"data", Str(TextOf(source.m[i][2].v))>>
                        [] OTHER -> source.m[i]]))
  IN  FoldLeft(One, t, SelectSeq(Leaves(t), LAMBDA p : IsReferenceAt(t, p)))
=============================================================================
