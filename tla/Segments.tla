------------------------------ MODULE Segments -------------------------------
(***************************************************************************)
(* Masking of the records read from session files (internal/redact/        *)
(* segment.go) and the signals a scan of a segment reports                 *)
(* (internal/drift): a line's copies of where the session ran are replaced *)
(* by position, and a copy at a position nobody listed is reported, so     *)
(* that uploads pause.                                                     *)
(***************************************************************************)
EXTENDS Media

CONSTANTS
  Home, Project,    \* the directories the reader says the session ran in
  KnownTopLevelTypes, KnownLaunchSurfaces, KnownAttachmentTypes, KnownSystemSubtypes

-----------------------------------------------------------------------------
(***************************************************************************)
(* The strings of a line addressed by keys alone, and the two lists of     *)
(* positions.  An entry applies to a line when its guards all hold there.  *)
(***************************************************************************)
RECURSIVE StringValues(_, _)
StringValues(t, path) ==
  CASE t.k = "o" -> UNION {StringValues(t.m[i][2], Append(path, t.m[i][1])) : i \in DOMAIN t.m}
    [] t.k \in {"s", "x"} -> {[path |-> path, v |-> t.v]}
    [] OTHER -> {}

Entry(path, guards) == [path |-> path, guards |-> guards]
Guard(path, want) == [path |-> path, v |-> want]

AnchoredPaths ==
  {Entry(<<"cwd">>, {}),
   Entry(<<"attachment", "snapshot", "scratchpadDirectory">>, {Guard(<<"attachment", "type">>, "environment")})}

AcknowledgedPaths ==
  {Entry(<<"attachment", "snapshot", "workingDirectory">>, {}),
   Entry(<<"lastPrompt">>, {Guard(<<"type">>, "last-prompt")}),
   Entry(<<"content">>, {Guard(<<"type">>, "queue-operation")}),
   Entry(<<"content">>, {Guard(<<"type">>, "system"), Guard(<<"subtype">>, "local_command")})}

GuardsHeld(entry, line) == entry.guards \subseteq StringValues(line, <<>>)

Listed(entries, path, line) == \E e \in entries : e.path = path /\ GuardsHeld(e, line)

RECURSIVE PutTokens(_, _, _)
PutTokens(t, path, line) ==
  CASE t.k = "o" -> Obj([i \in DOMAIN t.m |-> <<t.m[i][1], PutTokens(t.m[i][2], Append(path, t.m[i][1]), line)>>])
    [] t.k = "s" /\ Listed(AnchoredPaths, path, line) -> Str(PathToken)
    [] OTHER -> t

StripAnchoredPaths(line) == PutTokens(line, <<>>, line)

-----------------------------------------------------------------------------
(***************************************************************************)
(* Segment, MetaSnapshot and GitSnapshot.                                  *)
(***************************************************************************)
\* The Read result's content is kept out of the pass.
KeepReadResult(line) ==
  IF ~IsReadResult(line) THEN line
  ELSE LET MapAt(t, key, F(_)) == Obj([i \in DOMAIN t.m |-> IF t.m[i][1] = key THEN <<key, F(t.m[i][2])>> ELSE t.m[i]])
       IN  MapAt(line, "toolUseResult", LAMBDA r : MapAt(r, "file", LAMBDA f : MapAt(f, "base64", LAMBDA s : Kept(s.v))))

\* A line that is no object names no field and keeps no content.
SegmentLine(line) ==
  MaskLine(IF IsObject(line) THEN KeepReadResult(StripAnchoredPaths(line)) ELSE line, TRUE)

\* A segment whose last line is cut short is refused; otherwise its lines.
MaskSegment(lines, complete) ==
  IF ~complete THEN [refused |-> TRUE, lines |-> <<>>]
  ELSE [refused |-> FALSE, lines |-> [i \in DOMAIN lines |-> SegmentLine(lines[i])]]

\* The content of a snapshot, and the content its record id is computed from.
MaskMetaSnapshot(content) == LET masked == MaskLine(content, TRUE) IN [content |-> masked, named |-> masked]

\* One pass over the branch and the changed paths, read back by position.
MaskGitSnapshot(branch, paths) ==
  LET masked == MaskLine(Arr(<<Str(branch)>> \o [i \in DOMAIN paths |-> Str(paths[i])]), TRUE).e
  IN  [branch |-> masked[1].v, paths |-> [i \in DOMAIN paths |-> masked[i + 1].v]]

-----------------------------------------------------------------------------
(***************************************************************************)
(* AbsolutePathFields: the positions of a line that name where the session *)
(* ran and stand on neither list.                                          *)
(***************************************************************************)
ProbedLayer(path) ==
  Len(path) = 1 \/ (Len(path) = 3 /\ path[1] = "attachment" /\ path[2] = "snapshot")

UnderDir(v, dir) == dir \in Traits[v].dirs

AnchoredValues(line) == {s \in StringValues(line, <<>>) : Listed(AnchoredPaths, s.path, line)}

\* The line's own cwd is a directory of the session as well.
NamesLocation(v, line) ==
  \/ \E a \in AnchoredValues(line) : a.v = v
  \/ UnderDir(v, Home) \/ UnderDir(v, Project)
  \/ \E a \in AnchoredValues(line) : a.path = <<"cwd">> /\ UnderDir(v, a.v)

\* A mutant of AbsolutePathFields: a listed field is known whatever its guards.
AbsolutePathFields_AnyGuard(line) ==
  {s.path : s \in {c \in StringValues(line, <<>>) :
                     /\ ProbedLayer(c.path) /\ Traits[c.v].absolute /\ NamesLocation(c.v, line)
                     /\ \A e \in AnchoredPaths \cup AcknowledgedPaths : e.path # c.path}}

AbsolutePathFields(line) ==
  {s.path : s \in {c \in StringValues(line, <<>>) :
                     /\ ProbedLayer(c.path) /\ Traits[c.v].absolute
                     /\ ~Listed(AnchoredPaths \cup AcknowledgedPaths, c.path, line)
                     /\ NamesLocation(c.v, line)}}

-----------------------------------------------------------------------------
(***************************************************************************)
(* Scan: what the lines of one segment report.  A line is here the facts   *)
(* that sessionline reads out of it.                                       *)
(***************************************************************************)
\* The messages whose block indexes repeat or skip a number.
BlockIndexes(lines, message) ==
  LET of == SelectSeq(lines, LAMBDA l : l.type = "assistant" /\ l.message = message /\ l.index >= 0)
  IN  [i \in DOMAIN of |-> of[i].index]

\* countGaps: sorted, each index is the one before it and one.
HasGap(indexes) ==
  LET s == SortSeq(indexes, <) IN \E i \in 2..Len(s) : s[i] # s[i - 1] + 1

Messages(lines) == {lines[i].message : i \in DOMAIN lines} \ {""}

CountGaps(lines) == Cardinality({m \in Messages(lines) : HasGap(BlockIndexes(lines, m))})

Parented(l) == l.agent \/ l.toolUse \/ l.parentAgent \/ l.parentSession

CountLines(lines, Is(_)) == Cardinality({i \in DOMAIN lines : Is(lines[i])})

Signals(lines) ==
  LET assistant(l) == l.type = "assistant"
      ofAgent(l) == l.sidechain \/ l.agent
  IN  [types       |-> {lines[i].type : i \in DOMAIN lines} \ (KnownTopLevelTypes \cup {""}),
       surfaces    |-> {lines[i].surface : i \in DOMAIN lines} \ (KnownLaunchSurfaces \cup {""}),
       subtypes    |-> {lines[i].subtype : i \in {j \in DOMAIN lines : lines[j].type = "system"}} \ (KnownSystemSubtypes \cup {""}),
       attachments |-> {lines[i].attachment : i \in {j \in DOMAIN lines : lines[j].type = "attachment"}}
                         \ (KnownAttachmentTypes \cup {""}),
       lines       |-> CountLines(lines, assistant),
       empty       |-> CountLines(lines, LAMBDA l : assistant(l) /\ l.empty),
       noMessage   |-> CountLines(lines, LAMBDA l : assistant(l) /\ l.message = ""),
       agentLines  |-> CountLines(lines, ofAgent),
       orphans     |-> CountLines(lines, LAMBDA l : ofAgent(l) /\ ~Parented(l)),
       gaps        |-> CountGaps(lines)]
=============================================================================
