------------------------ MODULE SessionReaderProofs ------------------------
(***************************************************************************)
(* Theorems about SessionReader, for any readers, files and bounds: what   *)
(* reading keeps of a session that moves in and out of consent, that it    *)
(* keeps a line once, and that cursors go on.                              *)
(***************************************************************************)
EXTENDS SessionReader, FiniteSetTheorems, SequenceTheorems, WellFoundedInduction, TLAPS

-----------------------------------------------------------------------------
(* Lines.                                                                   *)

\* What a reader is to keep: said while the session was inside.
Ours(l) == l.kind = "say" /\ l.at = "in"

\* No move from line i to line j.
Calm(lines, i, j) == \A k \in i..j : lines[k].kind = "say"

Sorted(lines) == \A i, j \in 1..Len(lines) : i < j => lines[i].serial < lines[j].serial

\* Where the session was changes with its moves and not between them, a move
\* changes it, and a file without a move was written inside.
Trail(lines) ==
  /\ \A i, j \in 1..Len(lines) : i < j /\ Calm(lines, i + 1, j) => lines[i].at = lines[j].at
  /\ \A i, j \in 1..Len(lines) :
       i < j /\ Calm(lines, i + 1, j - 1) /\ lines[j].kind # "say" => lines[i].at # lines[j].kind
  /\ \A i \in 1..Len(lines) : lines[i].kind # "say" => lines[i].at = lines[i].kind
  /\ Calm(lines, 1, Len(lines)) => \A i \in 1..Len(lines) : lines[i].at = "in"

\* Every line of ours among the first n is known by ids.
Covers(ids, lines, n) == \A j \in 1..n : Ours(lines[j]) => lines[j].serial \in ids

-----------------------------------------------------------------------------
(* A pass is a recursive function.  That there is one, and what holds of it *)
(* at every position, is shown by looking at a least position where it      *)
(* would not.                                                               *)

\* Of the numbers up to n that have something in common, one is the least.
LEMMA LeastOf ==
  ASSUME NEW n \in Nat, NEW B \in SUBSET (0..n), B # {}
  PROVE  \E i \in B : \A j \in B : i <= j
<1> DEFINE N  == 0..n
           BB == {0..i : i \in B}
<1>1. IsWellFoundedOn(StrictSubsetOrdering(N), SUBSET N)
  <2>1. IsFiniteSet(N)
    BY FS_Interval
  <2> HIDE DEF N
  <2> QED
    BY <2>1, FS_StrictSubsetOrderingWellFounded, FS_FiniteSubsetsOfFinite
<1>2. BB \subseteq SUBSET N /\ BB # {}
  <2>1. ASSUME NEW i \in B PROVE 0..i \in SUBSET N
    OBVIOUS
  <2>2. PICK i \in B : TRUE
    OBVIOUS
  <2>3. 0..i \in BB
    BY <2>2
  <2> HIDE DEF N
  <2> QED
    BY <2>1, <2>3
<1>3. PICK T \in BB : \A y \in BB : ~ (<<y, T>> \in StrictSubsetOrdering(N))
  <2> HIDE DEF BB, N
  <2> QED
    BY <1>1, <1>2, WFMin
<1>4. PICK i \in B : T = 0..i
  BY <1>3
<1>5. ASSUME NEW j \in B, j < i PROVE FALSE
  <2>1. 0..j \in BB /\ 0..j \in SUBSET N /\ T \in SUBSET N
    BY <1>4
  <2>2. 0..j \subseteq T /\ 0..j # T
    BY <1>4, <1>5
  <2>3. <<0..j, T>> \in StrictSubsetOrdering(N)
    BY <2>1, <2>2 DEF StrictSubsetOrdering
  <2> QED
    BY <1>3, <2>1, <2>3
<1> QED
  BY <1>4, <1>5

\* g is the pass as far as position n.
IsPass(g, n, lines, start, size, outside, skip, out) ==
  g = [i \in 0..n |-> IF i = 0 THEN PassStart(start, outside)
                      ELSE PassLine(g[i - 1], lines, i, size, skip, out)]

LEMMA PassExists ==
  ASSUME NEW lines, NEW start, NEW size \in Nat, NEW outside, NEW skip, NEW out
  PROVE  \E g : IsPass(g, size, lines, start, size, outside, skip, out)
<1> DEFINE Is(g, n) == IsPass(g, n, lines, start, size, outside, skip, out)
           B == {n \in 0..size : ~ \E g : Is(g, n)}
<1>1. CASE B = {}
  BY <1>1
<1>2. CASE B # {}
  <2>1. PICK n \in B : \A m \in B : n <= m
    <3>1. B \in SUBSET (0..size)
      OBVIOUS
    <3> HIDE DEF B
    <3> QED
      BY <1>2, <3>1, LeastOf
  <2>2. CASE n = 0
    <3> DEFINE g == [i \in 0..0 |-> PassStart(start, outside)]
    <3>1. g = [i \in 0..0 |-> IF i = 0 THEN PassStart(start, outside)
                              ELSE PassLine(g[i - 1], lines, i, size, skip, out)]
      OBVIOUS
    <3>2. Is(g, 0)
      BY <3>1 DEF IsPass
    <3> QED
      BY <2>1, <2>2, <3>2
  <2>3. CASE n # 0
    <3>1. n - 1 \in 0..size /\ n - 1 \notin B /\ n \in Nat /\ n - 1 \in Nat
      BY <2>1, <2>3
    <3>2. PICK h : Is(h, n - 1)
      BY <3>1
    <3> DEFINE g == [i \in 0..n |-> IF i = n THEN PassLine(h[n - 1], lines, n, size, skip, out) ELSE h[i]]
    <3>3. ASSUME NEW i \in 0..n
          PROVE  g[i] = IF i = 0 THEN PassStart(start, outside)
                        ELSE PassLine(g[i - 1], lines, i, size, skip, out)
      <4>1. CASE i = n
        <5>1. g[i - 1] = h[n - 1]
          BY <3>1, <4>1
        <5> QED
          BY <2>3, <4>1, <5>1
      <4>2. CASE i # n
        <5>1. i \in 0..(n - 1) /\ g[i] = h[i] /\ (i # 0 => g[i - 1] = h[i - 1])
          BY <3>1, <4>2
        <5>2. h[i] = IF i = 0 THEN PassStart(start, outside)
                     ELSE PassLine(h[i - 1], lines, i, size, skip, out)
          BY <3>2, <5>1 DEF IsPass
        <5> HIDE DEF g
        <5> QED
          BY <5>1, <5>2
      <4> QED
        BY <4>1, <4>2
    <3>4. g = [i \in 0..n |-> g[i]]
      OBVIOUS
    <3>5. Is(g, n)
      <4> HIDE DEF g
      <4>1. [i \in 0..n |-> g[i]] = [i \in 0..n |-> IF i = 0 THEN PassStart(start, outside)
                                       ELSE PassLine(g[i - 1], lines, i, size, skip, out)]
        BY <3>3
      <4> QED
        BY <3>4, <4>1 DEF IsPass
    <3> QED
      BY <2>1, <3>5
  <2> QED
    BY <2>2, <2>3
<1> QED
  BY <1>1, <1>2

\* A pass is the recursion it was written as.
PassRuns(g, lines, start, size, outside, skip, out) ==
  /\ g[0] = PassStart(start, outside)
  /\ \A i \in 1..size : g[i] = PassLine(g[i - 1], lines, i, size, skip, out)

LEMMA PassIs ==
  ASSUME NEW lines, NEW start, NEW size \in Nat, NEW outside, NEW skip, NEW out
  PROVE  PassRuns(Passes(lines, start, size, outside, skip, out), lines, start, size, outside, skip, out)
<1> DEFINE g == CHOOSE h : IsPass(h, size, lines, start, size, outside, skip, out)
<1>1. Passes(lines, start, size, outside, skip, out) = g
  BY DEF Passes, IsPass
<1>2. IsPass(g, size, lines, start, size, outside, skip, out)
  BY PassExists
<1> HIDE DEF g
<1>3. g[0] = PassStart(start, outside) /\ \A i \in 1..size : g[i] = PassLine(g[i - 1], lines, i, size, skip, out)
  BY <1>2 DEF IsPass
<1> QED
  BY <1>1, <1>3 DEF PassRuns

-----------------------------------------------------------------------------
(* The pass over a main file, which says itself where the session is.       *)

PassStates(n) == [offset : 0..n, outside : BOOLEAN, settled : BOOLEAN,
                  kept : SUBSET Serials, more : BOOLEAN]

\* What a pass may start from: a position whose side is known, or the
\* beginning; and one that starts over outside passes what it knows.
Startable(lines, start, outside, skip) ==
  /\ lines \in Seq(Lines) /\ Sorted(lines) /\ Trail(lines)
  /\ start \in 0..Len(lines) /\ outside \in BOOLEAN
  /\ start > 0 => (outside <=> lines[start].at = "out")
  /\ start = 0 /\ outside =>
       \E k \in 1..Len(lines) : lines[k].kind = "out" /\ Covers(skip, lines, k - 1)

\* What the pass has kept, it met; where the side is settled, inside.
KeptWell(acc, lines, start, skip) ==
  /\ \A s \in acc.kept :
       /\ s \notin skip
       /\ \E j \in (start + 1)..acc.offset :
            lines[j].serial = s /\ lines[j].kind = "say" /\ (acc.settled => lines[j].at = "in")
  /\ Cardinality(acc.kept) <= MaxKept

\* What the pass was to keep, it kept, or it was kept before.
Gathered(acc, lines, start, skip) ==
  \A j \in (start + 1)..acc.offset : Ours(lines[j]) => lines[j].serial \in acc.kept \cup skip

\* The pass knows where the session is, or has met no move.
SideKnown(acc, lines, start, outside) ==
  /\ ~acc.settled => start = 0 /\ ~acc.outside /\ Calm(lines, 1, acc.offset)
  /\ acc.settled /\ ~acc.outside => acc.offset > 0 /\ lines[acc.offset].at = "in"
  /\ acc.outside => \/ acc.offset > 0 /\ lines[acc.offset].at = "out"
                    \/ outside /\ start = 0 /\ Calm(lines, 1, acc.offset)

\* A full segment stops in front of a line that is to be kept.
StopsAt(acc, lines, skip) ==
  acc.more => /\ acc.offset < Len(lines) /\ ~acc.outside /\ Cardinality(acc.kept) = MaxKept
              /\ Ours(lines[acc.offset + 1]) /\ lines[acc.offset + 1].serial \notin skip

\* Where the pass stands after position i.
PassInv(acc, i, lines, start, outside, skip) ==
  /\ acc \in PassStates(Len(lines))
  /\ start <= acc.offset /\ (~acc.more => i <= acc.offset)
  /\ KeptWell(acc, lines, start, skip) /\ Gathered(acc, lines, start, skip)
  /\ SideKnown(acc, lines, start, outside) /\ StopsAt(acc, lines, skip)

\* What a line is.
LEMMA LineIs ==
  ASSUME NEW lines \in Seq(Lines), NEW i \in 1..Len(lines)
  PROVE  /\ Len(lines) \in Nat /\ lines[i] \in Lines /\ lines[i].serial \in Serials /\ lines[i].serial \in Nat
         /\ lines[i].kind \in {"say", "out", "in"} /\ lines[i].at \in {"in", "out"}
<1>1. Len(lines) \in Nat /\ lines[i] \in Lines
  BY ElementOfSeq, LenProperties
<1>2. \A l \in Lines : /\ l.serial \in Serials /\ l.kind \in {"say", "out", "in"} /\ l.at \in {"in", "out"}
  BY DEF Lines
<1>3. \A s \in Serials : s \in Nat
  BY BoundAssumption DEF Serials
<1> QED
  BY <1>1, <1>2, <1>3

\* What is said after a line is said where that line was written.
LEMMA SaidAlike ==
  ASSUME NEW lines \in Seq(Lines), Trail(lines), NEW i \in 1..Len(lines), i > 1, lines[i].kind = "say"
  PROVE  lines[i].at = lines[i - 1].at
<1>1. Len(lines) \in Nat /\ i - 1 \in 1..Len(lines) /\ i - 1 < i /\ Calm(lines, (i - 1) + 1, i)
  BY LineIs DEF Calm
<1> QED
  BY <1>1 DEF Trail

\* The first move ahead is one, and there is none before it.
LEMMA FirstAhead ==
  ASSUME NEW lines \in Seq(Lines), NEW i \in 1..Len(lines), MovesAhead(lines, i, Len(lines)) # {}
  PROVE  LET m == FirstMove(lines, i, Len(lines)) IN
         m \in (i + 1)..Len(lines) /\ lines[m].kind # "say" /\ Calm(lines, i + 1, m - 1)
<1> DEFINE n == Len(lines)
           A == MovesAhead(lines, i, n)
           m == FirstMove(lines, i, n)
<1>1. n \in Nat /\ A \in SUBSET (0..n) /\ A # {}
  BY LineIs DEF MovesAhead
<1>2. \E j \in A : \A k \in A : j <= k
  <2> HIDE DEF A, n
  <2> QED
    BY <1>1, LeastOf
<1>3. m \in A /\ \A k \in A : m <= k
  BY <1>2 DEF FirstMove
<1> HIDE DEF m
<1>4. m \in (i + 1)..n /\ lines[m].kind # "say"
  BY <1>3 DEF MovesAhead
<1>5. ASSUME NEW k \in (i + 1)..(m - 1), lines[k].kind # "say" PROVE FALSE
  BY <1>1, <1>3, <1>4, <1>5 DEF MovesAhead
<1> QED
  BY <1>4, <1>5 DEF Calm, m

\* Before the first move of a file, the side a line is on is the one that the
\* move leaves; without a move it is the inside.
LEMMA SideAhead ==
  ASSUME NEW lines \in Seq(Lines), Trail(lines), NEW i \in 1..Len(lines), Calm(lines, 1, i)
  PROVE  LET n == Len(lines)
             m == FirstMove(lines, i, n) IN
         /\ MovesAhead(lines, i, n) = {} => lines[i].at = "in"
         /\ MovesAhead(lines, i, n) # {} => \A j \in 1..(m - 1) : lines[j].at # lines[m].kind
<1>1. Len(lines) \in Nat
  BY LineIs
<1>2. CASE MovesAhead(lines, i, Len(lines)) = {}
  <2>1. Calm(lines, 1, Len(lines))
    <3> SUFFICES ASSUME NEW k \in 1..Len(lines), lines[k].kind # "say" PROVE FALSE
      BY DEF Calm
    <3>1. k > i
      BY <1>1 DEF Calm
    <3> QED
      BY <1>1, <1>2, <3>1 DEF MovesAhead
  <2> QED
    BY <1>2, <2>1 DEF Trail
<1>3. CASE MovesAhead(lines, i, Len(lines)) # {}
  <2> DEFINE m == FirstMove(lines, i, Len(lines))
  <2>1. m \in (i + 1)..Len(lines) /\ lines[m].kind # "say" /\ Calm(lines, i + 1, m - 1)
    BY <1>3, FirstAhead
  <2> HIDE DEF m
  <2>2. ASSUME NEW j \in 1..(m - 1) PROVE lines[j].at # lines[m].kind
    <3>1. Calm(lines, j + 1, m - 1)
      BY <1>1, <2>1 DEF Calm
    <3>2. j \in 1..Len(lines) /\ m \in 1..Len(lines) /\ j < m
      BY <1>1, <2>1
    <3> QED
      BY <2>1, <3>1, <3>2 DEF Trail
  <2> QED
    BY <1>3, <2>2 DEF m
<1> QED
  BY <1>2, <1>3

\* One line more keeps the pass where it should stand.
LEMMA PassStep ==
  ASSUME NEW lines, NEW start, NEW outside, NEW skip, Startable(lines, start, outside, skip),
         NEW i \in 1..Len(lines), NEW acc, PassInv(acc, i - 1, lines, start, outside, skip)
  PROVE  PassInv(PassLine(acc, lines, i, Len(lines), skip, FALSE), i, lines, start, outside, skip)
<1> DEFINE n == Len(lines)
           b == PassLine(acc, lines, i, n, skip, FALSE)
<1>a. /\ lines \in Seq(Lines) /\ Sorted(lines) /\ Trail(lines) /\ start \in 0..n
      /\ n \in Nat /\ i \in Nat /\ lines[i] \in Lines /\ lines[i].serial \in Serials
      /\ lines[i].kind \in {"say", "out", "in"} /\ lines[i].at \in {"in", "out"}
  BY LineIs DEF Startable
<1>b. /\ acc \in PassStates(n) /\ acc.offset \in 0..n /\ acc.outside \in BOOLEAN
      /\ acc.settled \in BOOLEAN /\ acc.kept \in SUBSET Serials /\ acc.more \in BOOLEAN
  BY DEF PassInv, PassStates
<1>c. /\ start <= acc.offset /\ (~acc.more => i - 1 <= acc.offset)
      /\ KeptWell(acc, lines, start, skip) /\ Gathered(acc, lines, start, skip)
      /\ SideKnown(acc, lines, start, outside) /\ StopsAt(acc, lines, skip)
  BY DEF PassInv
<1>d. n \in Nat /\ i \in 0..n /\ acc \in PassStates(n) /\ {} \in SUBSET Serials
  BY <1>a, <1>b
<1>1. CASE acc.more \/ i <= acc.offset
  <2>1. b = acc
    BY <1>1 DEF PassLine
  <2> QED
    BY <1>1, <2>1, <1>b, <1>c DEF PassInv
<1>2. CASE ~acc.more /\ ~(i <= acc.offset)
  <2>1. acc.offset = i - 1 /\ start <= i - 1
    BY <1>2, <1>a, <1>b, <1>c
  <2>2. CASE lines[i].kind # "say"
    <3>1. b = PassMove(acc, lines[i], i) /\ lines[i].at = lines[i].kind
      BY <1>2, <2>2, <1>a DEF PassLine, Trail
    <3>2. \A j \in 1..(i - 1) : Calm(lines, 1, i - 1) => lines[j].at # lines[i].kind
      <4> SUFFICES ASSUME NEW j \in 1..(i - 1), Calm(lines, 1, i - 1) PROVE lines[j].at # lines[i].kind
        OBVIOUS
      <4>1. Calm(lines, j + 1, i - 1) /\ j \in 1..n /\ j < i
        BY <1>a DEF Calm
      <4> QED
        BY <2>2, <4>1, <1>a DEF Trail
    <3>3. ~acc.settled => Calm(lines, 1, i - 1) /\ start = 0
      BY <2>1, <1>c DEF SideKnown
    <3>4. \A j \in (start + 1)..i : j = i \/ j \in (start + 1)..(i - 1)
      BY <1>a
    <3>5. CASE lines[i].kind = "out"
      <4>1. b = [acc EXCEPT !.settled = TRUE, !.outside = TRUE, !.offset = i]
        BY <3>1, <3>5 DEF PassMove
      <4> HIDE DEF b
      <4>2. b \in PassStates(n) /\ b.offset = i /\ b.more = acc.more
        BY <4>1, <1>d DEF PassStates
      <4>3. b.outside /\ b.settled /\ b.kept = acc.kept
        BY <4>1, <1>b DEF PassStates
      <4>4. KeptWell(b, lines, start, skip)
        <5>1. ASSUME NEW s \in acc.kept
              PROVE  \E j \in (start + 1)..i : lines[j].serial = s /\ lines[j].kind = "say" /\ lines[j].at = "in"
          <6>1. PICK j \in (start + 1)..(i - 1) :
                  lines[j].serial = s /\ lines[j].kind = "say" /\ (acc.settled => lines[j].at = "in")
            BY <5>1, <2>1, <1>c DEF KeptWell
          <6>2. j \in 1..n /\ j \in 1..(i - 1)
            BY <1>a
          <6>3. lines[j].at \in {"in", "out"}
            BY <6>2, <1>a, LineIs
          <6>4. lines[j].at = "in"
            BY <3>2, <3>3, <3>5, <6>1, <6>2, <6>3
          <6> QED
            BY <6>1, <6>4, <1>a
        <5> QED
          BY <5>1, <4>2, <4>3, <1>c DEF KeptWell
      <4>5. Gathered(b, lines, start, skip)
        BY <4>2, <4>3, <3>4, <2>2, <2>1, <1>c DEF Gathered, Ours
      <4>6. SideKnown(b, lines, start, outside) /\ StopsAt(b, lines, skip)
        BY <4>2, <4>3, <3>1, <3>5, <1>2, <1>a DEF SideKnown, StopsAt
      <4>7. PassInv(b, i, lines, start, outside, skip)
        BY <4>2, <4>4, <4>5, <4>6, <2>1, <1>a DEF PassInv
      <4> QED
        BY <4>7 DEF b
    <3>6. CASE lines[i].kind = "in" /\ ~acc.settled
      <4>1. b = [acc EXCEPT !.settled = TRUE, !.kept = {}, !.offset = i]
        BY <3>1, <3>6 DEF PassMove
      <4> HIDE DEF b
      <4>2. b \in PassStates(n) /\ b.offset = i /\ b.more = acc.more
        BY <4>1, <1>d DEF PassStates
      <4>3. b.outside = acc.outside /\ b.settled /\ b.kept = {}
        BY <4>1, <1>b DEF PassStates
      <4>4. KeptWell(b, lines, start, skip)
        BY <4>3, FS_EmptySet, BoundAssumption DEF KeptWell
      <4>5. Gathered(b, lines, start, skip)
        BY <3>2, <3>3, <3>4, <3>6, <4>2, <1>a DEF Gathered, Ours
      <4>6. SideKnown(b, lines, start, outside) /\ StopsAt(b, lines, skip)
        BY <4>2, <4>3, <3>1, <3>6, <1>2, <1>a, <1>c DEF SideKnown, StopsAt
      <4>7. PassInv(b, i, lines, start, outside, skip)
        BY <4>2, <4>4, <4>5, <4>6, <2>1, <1>a DEF PassInv
      <4> QED
        BY <4>7 DEF b
    <3>7. CASE lines[i].kind = "in" /\ acc.settled
      <4>1. b = [acc EXCEPT !.outside = FALSE, !.offset = i]
        BY <3>1, <3>7 DEF PassMove
      <4> HIDE DEF b
      <4>2. b \in PassStates(n) /\ b.offset = i /\ b.more = acc.more
        BY <4>1, <1>d DEF PassStates
      <4>3. ~b.outside /\ b.settled = acc.settled /\ b.kept = acc.kept
        BY <4>1, <1>b DEF PassStates
      <4>4. KeptWell(b, lines, start, skip)
        BY <4>2, <4>3, <3>7, <2>1, <1>a, <1>c DEF KeptWell
      <4>5. Gathered(b, lines, start, skip)
        BY <4>2, <4>3, <3>4, <2>2, <2>1, <1>c DEF Gathered, Ours
      <4>6. SideKnown(b, lines, start, outside) /\ StopsAt(b, lines, skip)
        BY <4>2, <4>3, <3>1, <3>7, <1>2, <1>a DEF SideKnown, StopsAt
      <4>7. PassInv(b, i, lines, start, outside, skip)
        BY <4>2, <4>4, <4>5, <4>6, <2>1, <1>a DEF PassInv
      <4> QED
        BY <4>7 DEF b
    <3> QED
      BY <3>5, <3>6, <3>7, <2>2, <1>a, <1>b
  <2>3. CASE lines[i].kind = "say" /\ (acc.outside \/ lines[i].serial \in skip)
    <3>1. b = [acc EXCEPT !.offset = i]
      BY <1>2, <2>3, <1>a DEF PassLine
    <3> HIDE DEF b
    <3>2. b \in PassStates(n) /\ b.offset = i /\ b.more = acc.more
      BY <3>1, <1>d DEF PassStates
    <3>3. b.outside = acc.outside /\ b.settled = acc.settled /\ b.kept = acc.kept
      BY <3>1, <1>b DEF PassStates
    <3>4. KeptWell(b, lines, start, skip)
      BY <3>2, <3>3, <2>1, <1>a, <1>c DEF KeptWell
    <3>5. i > 1 => lines[i].at = lines[i - 1].at
      BY <2>3, <1>a, SaidAlike
    <3>6. Ours(lines[i]) => lines[i].serial \in skip
      <4> SUFFICES ASSUME acc.outside, Ours(lines[i]) PROVE lines[i].serial \in skip
        BY <2>3
      <4>1. outside /\ start = 0 /\ Calm(lines, 1, i - 1)
        BY <3>5, <2>1, <1>a, <1>c DEF SideKnown, Ours
      <4>2. PICK k \in 1..n : lines[k].kind = "out" /\ Covers(skip, lines, k - 1)
        BY <4>1 DEF Startable
      <4>3. k \notin 1..(i - 1) /\ k # i
        BY <4>1, <4>2, <2>3 DEF Calm
      <4>4. i \in 1..(k - 1)
        BY <4>3, <1>a
      <4> QED
        BY <4>2, <4>4 DEF Covers
    <3>7. Gathered(b, lines, start, skip)
      <4>1. \A j \in (start + 1)..i : j = i \/ j \in (start + 1)..(i - 1)
        BY <1>a
      <4> QED
        BY <4>1, <3>2, <3>3, <3>6, <2>1, <1>c DEF Gathered
    <3>8. Calm(lines, 1, i - 1) => Calm(lines, 1, i)
      <4>1. \A j \in 1..i : j = i \/ j \in 1..(i - 1)
        BY <1>a
      <4> QED
        BY <4>1, <2>3 DEF Calm
    <3>9. SideKnown(b, lines, start, outside) /\ StopsAt(b, lines, skip)
      <4>1. StopsAt(b, lines, skip)
        BY <3>2, <1>2 DEF StopsAt
      <4>2. SideKnown(b, lines, start, outside)
        BY <3>2, <3>3, <3>5, <3>8, <2>1, <1>a, <1>c DEF SideKnown
      <4> QED
        BY <4>1, <4>2
    <3>10. PassInv(b, i, lines, start, outside, skip)
      BY <3>2, <3>4, <3>7, <3>9, <2>1, <1>a DEF PassInv
    <3> QED
      BY <3>10 DEF b
  <2>4. CASE lines[i].kind = "say" /\ ~acc.outside /\ lines[i].serial \notin skip
    <3>0. b = PassSay(acc, lines, i, n)
      BY <1>2, <2>4 DEF PassLine
    <3>1. i > 1 => lines[i].at = lines[i - 1].at
      BY <2>4, <1>a, SaidAlike
    <3>2. acc.settled => lines[i].at = "in"
      BY <3>1, <2>1, <2>4, <1>a, <1>c DEF SideKnown
    <3>3. ~acc.settled => start = 0 /\ Calm(lines, 1, i)
      <4>1. ~acc.settled => start = 0 /\ Calm(lines, 1, i - 1)
        BY <2>1, <1>c DEF SideKnown
      <4>2. \A j \in 1..i : j = i \/ j \in 1..(i - 1)
        BY <1>a
      <4> QED
        BY <4>1, <4>2, <2>4 DEF Calm
    <3>4. CASE Cardinality(acc.kept) < MaxKept
      <4>1. b = [acc EXCEPT !.kept = acc.kept \cup {lines[i].serial}, !.offset = i]
        BY <3>0, <3>4 DEF PassSay
      <4> HIDE DEF b
      <4>2. acc.kept \cup {lines[i].serial} \in SUBSET Serials
        BY <1>a, <1>b
      <4>3. b \in PassStates(n) /\ b.offset = i /\ b.more = acc.more
        BY <4>1, <4>2, <1>d DEF PassStates
      <4>4. b.outside = acc.outside /\ b.settled = acc.settled /\ b.kept = acc.kept \cup {lines[i].serial}
        BY <4>1, <1>d DEF PassStates
      <4>5. Cardinality(b.kept) <= MaxKept
        <5>1. IsFiniteSet(Serials)
          BY FS_Interval, BoundAssumption DEF Serials
        <5>2. IsFiniteSet(acc.kept)
          BY <5>1, <1>b, FS_Subset
        <5>3. Cardinality(acc.kept) \in Nat
          BY <5>2, FS_CardinalityType
        <5>4. Cardinality(acc.kept \cup {lines[i].serial})
                \in {Cardinality(acc.kept), Cardinality(acc.kept) + 1}
          BY <5>2, FS_AddElement
        <5> QED
          BY <5>3, <5>4, <4>4, <3>4, BoundAssumption
      <4>6. ASSUME NEW s \in b.kept
            PROVE  s \notin skip /\ \E j \in (start + 1)..i :
                     lines[j].serial = s /\ lines[j].kind = "say" /\ (acc.settled => lines[j].at = "in")
        <5>1. CASE s = lines[i].serial
          BY <5>1, <3>2, <2>1, <2>4, <1>a
        <5>2. CASE s \in acc.kept
          BY <5>2, <2>1, <1>a, <1>c DEF KeptWell
        <5> QED
          BY <5>1, <5>2, <4>4
      <4>7. KeptWell(b, lines, start, skip)
        BY <4>3, <4>4, <4>5, <4>6 DEF KeptWell
      <4>8. Gathered(b, lines, start, skip)
        <5>1. \A j \in (start + 1)..i : j = i \/ j \in (start + 1)..(i - 1)
          BY <1>a
        <5> QED
          BY <5>1, <4>3, <4>4, <2>1, <1>c DEF Gathered
      <4>9. SideKnown(b, lines, start, outside)
        BY <4>3, <4>4, <3>2, <3>3, <2>4, <1>a DEF SideKnown
      <4>10. PassInv(b, i, lines, start, outside, skip)
        BY <4>3, <4>7, <4>8, <4>9, <2>1, <1>2, <1>a DEF PassInv, StopsAt
      <4> QED
        BY <4>10 DEF b
    <3>5. CASE ~(Cardinality(acc.kept) < MaxKept)
      <4> DEFINE m == FirstMove(lines, i, n)
                 into == MovesAhead(lines, i, n) # {} /\ lines[m].kind = "in"
      <4>1. CASE ~acc.settled /\ into
        <5>1. b = [acc EXCEPT !.settled = TRUE, !.kept = {}, !.offset = m]
          BY <3>0, <3>5, <4>1 DEF PassSay
        <5>2. m \in (i + 1)..n /\ lines[m].kind # "say"
          BY <4>1, <1>a, FirstAhead
        <5>3. \A j \in 1..(m - 1) : lines[j].at # "in"
          BY <4>1, <3>3, <1>a, SideAhead
        <5> HIDE DEF b, m
        <5>4. lines[m].at = "in" /\ lines[m].kind = "in" /\ m \in 0..n /\ m > i
          BY <5>2, <4>1, <1>a DEF Trail
        <5>5. b \in PassStates(n) /\ b.offset = m /\ b.more = acc.more
          BY <5>1, <5>4, <1>d DEF PassStates
        <5>6. b.outside = acc.outside /\ b.settled /\ b.kept = {}
          BY <5>1, <1>d DEF PassStates
        <5>7. KeptWell(b, lines, start, skip)
          BY <5>6, FS_EmptySet, BoundAssumption DEF KeptWell
        <5>8. Gathered(b, lines, start, skip)
          <6>1. \A j \in (start + 1)..m : j = m \/ j \in 1..(m - 1)
            BY <5>4, <1>a
          <6> QED
            BY <6>1, <5>3, <5>4, <5>5 DEF Gathered, Ours
        <5>9. SideKnown(b, lines, start, outside)
          BY <5>4, <5>5, <5>6, <2>4, <1>a DEF SideKnown
        <5>10. PassInv(b, i, lines, start, outside, skip)
          BY <5>4, <5>5, <5>7, <5>8, <5>9, <2>1, <1>2, <1>a DEF PassInv, StopsAt
        <5> QED
          BY <5>10 DEF b
      <4>2. CASE ~(~acc.settled /\ into)
        <5>1. b = [acc EXCEPT !.more = TRUE]
          BY <3>0, <3>5, <4>2 DEF PassSay
        <5> HIDE DEF b
        <5>2. b \in PassStates(n) /\ b.offset = i - 1 /\ b.more
          BY <5>1, <2>1, <1>d DEF PassStates
        <5>3. b.outside = acc.outside /\ b.settled = acc.settled /\ b.kept = acc.kept
          BY <5>1, <1>d DEF PassStates
        <5>4. lines[i].at = "in"
          <6>1. CASE acc.settled
            BY <6>1, <3>2
          <6>2. CASE ~acc.settled /\ MovesAhead(lines, i, n) = {}
            BY <6>2, <3>3, <1>a, SideAhead
          <6>3. CASE ~acc.settled /\ MovesAhead(lines, i, n) # {}
            <7>1. m \in (i + 1)..n /\ lines[m].kind # "say" /\ lines[m].kind # "in"
              BY <6>3, <4>2, <1>a, FirstAhead
            <7>2. lines[i].at # lines[m].kind
              BY <7>1, <6>3, <3>3, <1>a, SideAhead
            <7>3. m \in 1..n
              BY <7>1, <1>a
            <7>4. lines[m].kind \in {"say", "out", "in"}
              BY <7>3, <1>a, LineIs
            <7> QED
              BY <7>1, <7>2, <7>4, <1>a
          <6> QED
            BY <6>1, <6>2, <6>3
        <5>5. KeptWell(b, lines, start, skip) /\ Gathered(b, lines, start, skip)
          BY <5>2, <5>3, <2>1, <1>c DEF KeptWell, Gathered
        <5>6. SideKnown(b, lines, start, outside)
          BY <5>2, <5>3, <2>1, <1>c DEF SideKnown
        <5>7. Cardinality(b.kept) = MaxKept
          <6>1. IsFiniteSet(Serials)
            BY FS_Interval, BoundAssumption DEF Serials
          <6>2. Cardinality(acc.kept) \in Nat
            BY <6>1, <1>b, FS_Subset, FS_CardinalityType
          <6> QED
            BY <6>2, <5>3, <3>5, <1>c, BoundAssumption DEF KeptWell
        <5>8. StopsAt(b, lines, skip)
          BY <5>2, <5>3, <5>4, <5>7, <2>4, <1>a DEF StopsAt, Ours
        <5>9. PassInv(b, i, lines, start, outside, skip)
          BY <5>2, <5>5, <5>6, <5>8, <2>1, <1>a DEF PassInv
        <5> QED
          BY <5>9 DEF b
      <4> QED
        BY <4>1, <4>2
    <3> QED
      BY <3>4, <3>5
  <2> QED
    BY <2>2, <2>3, <2>4, <1>a
<1> QED
  BY <1>1, <1>2

\* Where a pass over a main file ends.
PassEnds(a, lines, start, skip) ==
  /\ a \in PassStates(Len(lines)) /\ start <= a.offset
  /\ \A s \in a.kept : s \notin skip /\ \E j \in (start + 1)..a.offset :
       lines[j].serial = s /\ lines[j].kind = "say" /\ lines[j].at = "in"
  /\ Gathered(a, lines, start, skip)
  /\ a.offset > 0 => (a.outside <=> lines[a.offset].at = "out")
  /\ a.outside => a.offset > 0
  /\ IF a.more THEN StopsAt(a, lines, skip) ELSE a.offset = Len(lines)
  /\ Cardinality(a.kept) <= MaxKept

\* A pass over a main file keeps what was said inside and was not kept
\* before, all of it up to where it stops, and knows the side it stops on.
LEMMA PassMain ==
  ASSUME NEW lines, NEW start, NEW outside, NEW skip, Startable(lines, start, outside, skip)
  PROVE  PassEnds(Pass(lines, start, Len(lines), outside, skip, FALSE), lines, start, skip)
<1> DEFINE n == Len(lines)
           g == Passes(lines, start, n, outside, skip, FALSE)
           a == Pass(lines, start, n, outside, skip, FALSE)
           Inv(i) == PassInv(g[i], i, lines, start, outside, skip)
           B == {i \in 0..n : ~Inv(i)}
<1>a. /\ lines \in Seq(Lines) /\ Trail(lines) /\ n \in Nat /\ start \in 0..n /\ outside \in BOOLEAN
      /\ start > 0 => lines[start].at \in {"in", "out"} /\ (outside <=> lines[start].at = "out")
  BY LineIs, LenProperties DEF Startable
<1>1. g[0] = PassStart(start, outside) /\ \A i \in 1..n : g[i] = PassLine(g[i - 1], lines, i, n, skip, FALSE)
  <2>1. n \in Nat
    BY <1>a
  <2>2. PassRuns(g, lines, start, n, outside, skip, FALSE)
    BY <2>1, PassIs, Zenon
  <2> QED
    BY <2>2 DEF PassRuns
<1> HIDE DEF g
<1>2. Inv(0)
  <2>1. g[0] = [offset |-> start, outside |-> outside, settled |-> start > 0 \/ outside, kept |-> {}, more |-> FALSE]
    BY <1>1 DEF PassStart
  <2>2. g[0] \in PassStates(n)
    BY <2>1, <1>a DEF PassStates
  <2>3. KeptWell(g[0], lines, start, skip) /\ Gathered(g[0], lines, start, skip) /\ StopsAt(g[0], lines, skip)
    BY <2>1, <1>a, FS_EmptySet, BoundAssumption DEF KeptWell, Gathered, StopsAt
  <2>4. SideKnown(g[0], lines, start, outside)
    <3>0. start \in Nat /\ outside \in BOOLEAN
      BY <1>a
    <3>1. /\ g[0].offset = start /\ g[0].outside = outside /\ g[0].settled = (start > 0 \/ outside)
      BY <2>1
    <3>2. start > 0 /\ ~outside => lines[start].at = "in"
      BY <1>a
    <3>3. start = 0 => Calm(lines, 1, start)
      BY DEF Calm
    <3>4. start > 0 \/ start = 0
      BY <1>a
    <3> QED
      BY <3>1, <3>2, <3>3, <3>4, <1>a DEF SideKnown
  <2> QED
    BY <2>1, <2>2, <2>3, <2>4, <1>a DEF PassInv
<1>3. ASSUME NEW i \in 1..n, Inv(i - 1) PROVE Inv(i)
  BY <1>1, <1>3, PassStep
<1>4. B = {}
  <2> SUFFICES ASSUME B # {} PROVE FALSE
    OBVIOUS
  <2>1. B \in SUBSET (0..n)
    OBVIOUS
  <2> HIDE DEF Inv
  <2>2. PICK i \in B : \A j \in B : i <= j
    <3> HIDE DEF B
    <3> QED
      BY <2>1, <1>a, LeastOf
  <2>3. i \in 1..n /\ i - 1 \in 0..n /\ i - 1 \notin B
    BY <2>2, <1>2, <1>a
  <2> QED
    BY <2>2, <2>3, <1>3
<1>5. a = g[n] /\ n \in 0..n
  BY <1>a DEF Pass, g
<1>6. PassInv(a, n, lines, start, outside, skip)
  BY <1>4, <1>5
<1> HIDE DEF a
<1>7. /\ a \in PassStates(n) /\ a.offset \in 0..n /\ a.outside \in BOOLEAN
      /\ a.settled \in BOOLEAN /\ a.more \in BOOLEAN
      /\ start <= a.offset /\ (~a.more => n <= a.offset)
      /\ KeptWell(a, lines, start, skip) /\ Gathered(a, lines, start, skip)
      /\ SideKnown(a, lines, start, outside) /\ StopsAt(a, lines, skip)
  BY <1>6 DEF PassInv, PassStates
<1>8. ~a.more => a.offset = n
  BY <1>7, <1>a
\* Where no move was met, none of the lines was written outside.
<1>9. ASSUME ~a.settled, NEW j \in 1..a.offset PROVE lines[j].at = "in"
  <2>1. Calm(lines, 1, a.offset)
    BY <1>7, <1>9 DEF SideKnown
  <2>2. CASE ~a.more
    BY <2>1, <2>2, <1>8, <1>9, <1>a DEF Trail
  <2>3. CASE a.more
    <3>1. a.offset + 1 \in 1..n /\ Ours(lines[a.offset + 1])
      BY <2>3, <1>7, <1>a DEF StopsAt
    <3>2. Calm(lines, j + 1, a.offset + 1)
      <4> SUFFICES ASSUME NEW k \in (j + 1)..(a.offset + 1) PROVE lines[k].kind = "say"
        BY DEF Calm
      <4>1. k \in 1..a.offset \/ k = a.offset + 1
        BY <1>7, <1>a
      <4> QED
        BY <4>1, <2>1, <3>1 DEF Calm, Ours
    <3>3. j \in 1..n /\ j < a.offset + 1
      BY <1>7, <1>a
    <3> QED
      BY <3>1, <3>2, <3>3, <1>a DEF Trail, Ours
  <2> QED
    BY <2>2, <2>3
<1>10. a.outside => a.offset > 0 /\ lines[a.offset].at = "out"
  <2> SUFFICES ASSUME a.outside, outside, start = 0, Calm(lines, 1, a.offset) PROVE FALSE
    BY <1>7 DEF SideKnown
  <2>1. a.offset = n
    BY <1>7, <1>8 DEF StopsAt
  <2>2. \E k \in 1..n : lines[k].kind = "out"
    BY DEF Startable
  <2> QED
    BY <2>1, <2>2 DEF Calm
<1>11. ~a.outside /\ a.offset > 0 => lines[a.offset].at = "in"
  BY <1>7, <1>9, <1>a DEF SideKnown
<1>12. ASSUME NEW s \in a.kept
       PROVE  s \notin skip /\ \E j \in (start + 1)..a.offset :
                lines[j].serial = s /\ lines[j].kind = "say" /\ lines[j].at = "in"
  <2>1. PICK j \in (start + 1)..a.offset :
          lines[j].serial = s /\ lines[j].kind = "say" /\ (a.settled => lines[j].at = "in")
    BY <1>7, <1>12 DEF KeptWell
  <2>2. j \in 1..a.offset
    BY <1>7, <1>a
  <2> QED
    BY <2>1, <2>2, <1>7, <1>9, <1>12 DEF KeptWell
<1>13. a.offset > 0 => (a.outside <=> lines[a.offset].at = "out")
  BY <1>10, <1>11
<1>14. IF a.more THEN StopsAt(a, lines, skip) ELSE a.offset = n
  BY <1>7, <1>8
<1>15. Cardinality(a.kept) <= MaxKept
  BY <1>7 DEF KeptWell
<1>16. /\ a \in PassStates(n) /\ start <= a.offset /\ Gathered(a, lines, start, skip) /\ (a.outside => a.offset > 0)
  BY <1>7, <1>10
<1> QED
  BY <1>12, <1>13, <1>14, <1>15, <1>16 DEF a, PassEnds

-----------------------------------------------------------------------------
(* The files: what Claude Code writes keeps them as it writes them.         *)

\* Where the session is, is what its main file says last.
PlaceIs(lines, at) ==
  /\ \A i \in 1..Len(lines) : Calm(lines, i + 1, Len(lines)) => lines[i].at = at
  /\ Calm(lines, 1, Len(lines)) => at = "in"

\* The lines of a file that has some of its lines no more.
Thinned(lines, m, g) == [i \in 1..m |-> lines[g[i]]]

\* A file that was moved has a last move.
LEMMA LastMove ==
  ASSUME NEW lines \in Seq(Lines), ~Calm(lines, 1, Len(lines))
  PROVE  \E k \in 1..Len(lines) : lines[k].kind # "say" /\ Calm(lines, k + 1, Len(lines))
<1> DEFINE n == Len(lines)
           B == {n - k : k \in {j \in 1..n : lines[j].kind # "say"}}
<1>1. n \in Nat
  BY LenProperties
<1>2. B \in SUBSET (0..n) /\ B # {}
  BY <1>1 DEF Calm
<1>3. PICK i \in B : \A j \in B : i <= j
  <2> HIDE DEF B, n
  <2> QED
    BY <1>1, <1>2, LeastOf
<1>4. PICK k \in 1..n : lines[k].kind # "say" /\ i = n - k
  BY <1>3
<1>5. ASSUME NEW j \in (k + 1)..n, lines[j].kind # "say" PROVE FALSE
  <2>1. n - j \in B
    BY <1>1, <1>4, <1>5
  <2>2. i <= n - j
    BY <1>3, <2>1
  <2> QED
    BY <1>1, <1>4, <2>2
<1> QED
  BY <1>4, <1>5 DEF Calm

\* What Append gives.
LEMMA Appended ==
  ASSUME NEW lines \in Seq(Lines), NEW l \in Lines
  PROVE  LET a == Append(lines, l) IN
         /\ a \in Seq(Lines) /\ Len(lines) \in Nat /\ Len(a) = Len(lines) + 1 /\ a[Len(a)] = l
         /\ \A i \in 1..Len(lines) : a[i] = lines[i]
  BY AppendProperties, LenProperties

LEMMA AppendSorted ==
  ASSUME NEW lines \in Seq(Lines), NEW l \in Lines, Sorted(lines),
         \A i \in 1..Len(lines) : lines[i].serial < l.serial
  PROVE  Sorted(Append(lines, l))
<1> DEFINE a == Append(lines, l)
<1>1. /\ Len(lines) \in Nat /\ Len(a) = Len(lines) + 1 /\ a[Len(a)] = l
      /\ \A i \in 1..Len(lines) : a[i] = lines[i]
  BY Appended
<1> HIDE DEF a
<1>2. ASSUME NEW i \in 1..Len(a), NEW j \in 1..Len(a), i < j PROVE a[i].serial < a[j].serial
  <2>1. i \in 1..Len(lines) /\ (j = Len(a) \/ j \in 1..Len(lines))
    BY <1>1, <1>2
  <2> QED
    BY <1>1, <1>2, <2>1 DEF Sorted
<1> QED
  BY <1>2 DEF Sorted, a

\* What is said is said where the session is; a move leaves the place where
\* it was.
LEMMA AppendTrail ==
  ASSUME NEW lines \in Seq(Lines), NEW l \in Lines, NEW at, NEW at2,
         Trail(lines), PlaceIs(lines, at),
         IF l.kind = "say" THEN l.at = at /\ at2 = at ELSE l.at = l.kind /\ l.kind # at /\ at2 = l.kind
  PROVE  Trail(Append(lines, l)) /\ PlaceIs(Append(lines, l), at2)
<1> DEFINE a == Append(lines, l)
           n == Len(lines)
<1>1. /\ n \in Nat /\ Len(a) = n + 1 /\ a[n + 1] = l /\ \A i \in 1..n : a[i] = lines[i]
  BY Appended
<1> HIDE DEF a
\* No move up to a line of before, or up to the new one.
<1>2. ASSUME NEW i \in Int, NEW j \in Int, i >= 1, j <= n
      PROVE  Calm(a, i, j) <=> Calm(lines, i, j)
  BY <1>1, <1>2 DEF Calm
<1>3. ASSUME NEW i \in Int, i >= 1, i <= n + 1, Calm(a, i, n + 1)
      PROVE  Calm(lines, i, n) /\ l.kind = "say"
  BY <1>1, <1>3 DEF Calm
<1>4. \A i \in 1..(n + 1) : i = n + 1 \/ i \in 1..n
  BY <1>1
<1>5. ASSUME NEW i \in 1..(n + 1), NEW j \in 1..(n + 1), i < j, Calm(a, i + 1, j) PROVE a[i].at = a[j].at
  <2>1. i \in 1..n /\ i \in Int /\ j \in Int /\ i + 1 >= 1 /\ i + 1 <= n + 1
    BY <1>1, <1>5
  <2>2. CASE j = n + 1
    <3>1. Calm(lines, i + 1, n) /\ l.kind = "say"
      BY <1>3, <1>5, <2>1, <2>2
    <3> QED
      BY <3>1, <2>1, <2>2, <1>1 DEF PlaceIs
  <2>3. CASE j \in 1..n
    <3>1. Calm(lines, i + 1, j)
      BY <1>2, <1>5, <2>1, <2>3
    <3> QED
      BY <3>1, <2>1, <2>3, <1>1, <1>5 DEF Trail
  <2> QED
    BY <2>2, <2>3, <1>4
<1>6. ASSUME NEW i \in 1..(n + 1), NEW j \in 1..(n + 1), i < j, Calm(a, i + 1, j - 1), a[j].kind # "say"
      PROVE  a[i].at # a[j].kind
  <2>1. i \in 1..n /\ i + 1 \in Int /\ j - 1 \in Int /\ i + 1 >= 1 /\ j - 1 <= n
    BY <1>1, <1>6
  <2>2. Calm(lines, i + 1, j - 1)
    BY <1>2, <1>6, <2>1
  <2>3. CASE j = n + 1
    <3>1. Calm(lines, i + 1, n)
      BY <2>2, <2>3, <1>1
    <3> QED
      BY <3>1, <2>1, <2>3, <1>1, <1>6 DEF PlaceIs
  <2>4. CASE j \in 1..n
    <3>1. lines[j].kind # "say" /\ a[i] = lines[i] /\ a[j] = lines[j]
      BY <2>1, <2>4, <1>1, <1>6
    <3>2. lines[i].at # lines[j].kind
      BY <3>1, <2>1, <2>2, <2>4, <1>6 DEF Trail
    <3> QED
      BY <3>1, <3>2
  <2> QED
    BY <2>3, <2>4, <1>4
<1>7. \A i \in 1..(n + 1) : a[i].kind # "say" => a[i].at = a[i].kind
  BY <1>1, <1>4 DEF Trail
<1>8. ASSUME Calm(a, 1, n + 1) PROVE \A i \in 1..(n + 1) : a[i].at = "in"
  <2>1. Calm(lines, 1, n) /\ l.kind = "say"
    BY <1>1, <1>3, <1>8
  <2> QED
    BY <2>1, <1>1, <1>4 DEF Trail, PlaceIs
<1>9. ASSUME NEW i \in 1..(n + 1), Calm(a, i + 1, n + 1) PROVE a[i].at = at2
  <2>1. CASE i = n + 1
    BY <2>1, <1>1
  <2>2. CASE i \in 1..n
    <3>1. Calm(lines, i + 1, n) /\ l.kind = "say"
      BY <2>2, <1>1, <1>3, <1>9
    <3> QED
      BY <3>1, <2>2, <1>1 DEF PlaceIs
  <2> QED
    BY <2>1, <2>2, <1>4
<1>10. Calm(a, 1, n + 1) => at2 = "in"
  BY <1>1, <1>3 DEF PlaceIs
<1>11. Trail(a)
  BY <1>1, <1>5, <1>6, <1>7, <1>8 DEF Trail
<1>12. PlaceIs(a, at2)
  BY <1>1, <1>9, <1>10 DEF PlaceIs
<1> QED
  BY <1>11, <1>12 DEF a

\* A file that lost lines, none of them a move.
LEMMA ThinnedIs ==
  ASSUME NEW lines \in Seq(Lines), NEW m \in Nat, NEW g \in Thinnings(m, Len(lines))
  PROVE  LET t == Thinned(lines, m, g) IN
         /\ t \in Seq(Lines) /\ Len(t) = m /\ Len(lines) \in Nat
         /\ \A i \in 1..m : t[i] = lines[g[i]] /\ g[i] \in 1..Len(lines)
         /\ \A i, j \in 1..m : g[i] < g[j] <=> i < j
         /\ Sorted(lines) => Sorted(t)
<1> DEFINE t == Thinned(lines, m, g)
<1>1. \A i \in 1..m : g[i] \in 1..Len(lines)
  BY DEF Thinnings
<1>2. \A i \in 1..m : t[i] = lines[g[i]]
  BY DEF Thinned
<1>3. \A i \in 1..m : lines[g[i]] \in Lines
  BY <1>1, ElementOfSeq
<1>4. t \in Seq(Lines) /\ Len(t) = m
  <2>1. t = [i \in 1..m |-> t[i]]
    BY DEF Thinned
  <2>2. t \in [1..m -> Lines]
    BY <1>2, <1>3, <2>1
  <2> QED
    BY <2>2, SeqDef, LenProperties
<1>5. Len(lines) \in Nat
  BY LenProperties
<1>6. ASSUME NEW i \in 1..m, NEW j \in 1..m PROVE g[i] < g[j] <=> i < j
  <2>1. g[i] \in Int /\ g[j] \in Int /\ (i < j => g[i] < g[j]) /\ (j < i => g[j] < g[i])
    BY <1>1, <1>5 DEF Thinnings
  <2>2. i < j \/ i = j \/ j < i
    OBVIOUS
  <2> QED
    BY <2>1, <2>2
<1>7. Sorted(lines) => Sorted(t)
  BY <1>1, <1>2, <1>4, <1>6 DEF Sorted
<1> QED
  BY <1>1, <1>2, <1>4, <1>5, <1>6, <1>7

LEMMA ThinnedTrail ==
  ASSUME NEW lines \in Seq(Lines), NEW m \in Nat, NEW g \in Thinnings(m, Len(lines)), NEW at,
         Trail(lines), PlaceIs(lines, at),
         \A j \in 1..Len(lines) : lines[j].kind # "say" => \E i \in 1..m : g[i] = j
  PROVE  Trail(Thinned(lines, m, g)) /\ PlaceIs(Thinned(lines, m, g), at)
<1> DEFINE t == Thinned(lines, m, g)
           n == Len(lines)
<1>1. /\ Len(t) = m /\ n \in Nat
      /\ \A i \in 1..m : t[i] = lines[g[i]] /\ g[i] \in 1..n
      /\ \A i, j \in 1..m : g[i] < g[j] <=> i < j
  BY ThinnedIs
<1> HIDE DEF t
\* No move was lost between two lines that are left, nor behind or before them.
<1>2. ASSUME NEW i \in 1..m, NEW j \in 1..m, Calm(t, i + 1, j) PROVE Calm(lines, g[i] + 1, g[j])
  <2> SUFFICES ASSUME NEW k \in (g[i] + 1)..g[j], lines[k].kind # "say" PROVE FALSE
    BY DEF Calm
  <2>1. k \in 1..n /\ g[i] < k /\ k <= g[j] /\ g[i] \in Int /\ g[j] \in Int
    BY <1>1
  <2>2. PICK p \in 1..m : g[p] = k
    BY <2>1
  <2>3. i < p /\ ~(j < p)
    BY <2>1, <2>2, <1>1
  <2>4. p \in (i + 1)..j
    BY <2>3
  <2> QED
    BY <2>2, <2>4, <1>1, <1>2 DEF Calm
<1>3. ASSUME NEW i \in 1..m, NEW j \in 1..m, Calm(t, i + 1, j - 1) PROVE Calm(lines, g[i] + 1, g[j] - 1)
  <2> SUFFICES ASSUME NEW k \in (g[i] + 1)..(g[j] - 1), lines[k].kind # "say" PROVE FALSE
    BY DEF Calm
  <2>1. k \in 1..n /\ g[i] < k /\ k < g[j]
    BY <1>1
  <2>2. PICK p \in 1..m : g[p] = k
    BY <2>1
  <2>3. i < p /\ p < j
    BY <2>1, <2>2, <1>1
  <2>4. p \in (i + 1)..(j - 1)
    BY <2>3
  <2> QED
    BY <2>2, <2>4, <1>1, <1>3 DEF Calm
<1>4. ASSUME NEW i \in 1..m, Calm(t, i + 1, m) PROVE Calm(lines, g[i] + 1, n)
  <2> SUFFICES ASSUME NEW k \in (g[i] + 1)..n, lines[k].kind # "say" PROVE FALSE
    BY DEF Calm
  <2>1. k \in 1..n /\ g[i] < k
    BY <1>1
  <2>2. PICK p \in 1..m : g[p] = k
    BY <2>1
  <2>3. p \in (i + 1)..m
    BY <2>1, <2>2, <1>1
  <2> QED
    BY <2>2, <2>3, <1>1, <1>4 DEF Calm
<1>5. ASSUME Calm(t, 1, m) PROVE Calm(lines, 1, n)
  <2> SUFFICES ASSUME NEW k \in 1..n, lines[k].kind # "say" PROVE FALSE
    BY DEF Calm
  <2>1. PICK p \in 1..m : g[p] = k
    OBVIOUS
  <2> QED
    BY <2>1, <1>1, <1>5 DEF Calm
<1>6. ASSUME NEW i \in 1..m, NEW j \in 1..m, i < j, Calm(t, i + 1, j) PROVE t[i].at = t[j].at
  <2>1. g[i] \in 1..n /\ g[j] \in 1..n /\ g[i] < g[j] /\ Calm(lines, g[i] + 1, g[j])
    BY <1>1, <1>2, <1>6
  <2>2. lines[g[i]].at = lines[g[j]].at
    BY <2>1 DEF Trail
  <2> QED
    BY <2>2, <1>1
<1>7. ASSUME NEW i \in 1..m, NEW j \in 1..m, i < j, Calm(t, i + 1, j - 1), t[j].kind # "say"
      PROVE  t[i].at # t[j].kind
  <2>1. g[i] \in 1..n /\ g[j] \in 1..n /\ g[i] < g[j] /\ Calm(lines, g[i] + 1, g[j] - 1)
        /\ lines[g[j]].kind # "say"
    BY <1>1, <1>3, <1>7
  <2>2. lines[g[i]].at # lines[g[j]].kind
    BY <2>1 DEF Trail
  <2> QED
    BY <2>2, <1>1
<1>8. \A i \in 1..m : t[i].kind # "say" => t[i].at = t[i].kind
  BY <1>1 DEF Trail
<1>9. Calm(t, 1, m) => \A i \in 1..m : t[i].at = "in"
  BY <1>1, <1>5 DEF Trail
<1>10. \A i \in 1..m : Calm(t, i + 1, m) => t[i].at = at
  BY <1>1, <1>4 DEF PlaceIs
<1>11. Calm(t, 1, m) => at = "in"
  BY <1>5 DEF PlaceIs
<1>12. Trail(t)
  BY <1>1, <1>6, <1>7, <1>8, <1>9 DEF Trail
<1>13. PlaceIs(t, at)
  BY <1>1, <1>10, <1>11 DEF PlaceIs
<1> QED
  BY <1>12, <1>13 DEF t

-----------------------------------------------------------------------------
(* What a pass makes of a cursor.                                           *)

\* A cursor with numbers as large as they may be.
AnyCursors == [reg : BOOLEAN, inode : Nat, offset : Nat, next : Nat, ids : SUBSET Serials,
               before : SUBSET Serials, outside : BOOLEAN]
Results == [kept : SUBSET Serials, cursor : AnyCursors, more : BOOLEAN]
Sights  == [exists : BOOLEAN, inode : Nat, size : Nat]

\* The cursor c is one of this file or of one before it, and all that was
\* said inside, up to where it stands or, outside, to a move out, is known.
Sound(c, file) ==
  /\ c.inode <= file.inode /\ c.before \subseteq c.ids
  /\ c.inode = 0 => c.offset = 0 /\ ~c.outside
  /\ file.exists /\ c.inode = file.inode =>
       /\ c.offset <= Len(file.lines)
       /\ c.offset > 0 => (c.outside <=> file.lines[c.offset].at = "out")
       /\ c.outside => c.offset > 0
       /\ Covers(c.ids, file.lines, c.offset)
  /\ file.exists /\ c.outside =>
       \E k \in 1..Len(file.lines) : file.lines[k].kind = "out" /\ Covers(c.ids, file.lines, k - 1)

\* What a cursor knows is not forgotten.
Follows(c, d) ==
  /\ d.reg = c.reg /\ c.inode <= d.inode /\ c.ids \subseteq d.ids
  /\ c.inode = d.inode => c.offset <= d.offset

\* The cursor c is past line i, and is again when the lines are read anew.
PastMove(c, lines, i) == i <= c.offset /\ Covers(c.ids, lines, i - 1)

\* A pass goes on from the cursor, or over a file from its start.
StartOf(c, sight) == IF Restarts(c, sight) THEN 0 ELSE c.offset
SkipOf(c, sight)  == IF Restarts(c, sight) THEN c.ids ELSE c.before
PassOf(c, sight, lines, out) ==
  Pass(lines, StartOf(c, sight), Least(sight.size, Len(lines)), c.outside, SkipOf(c, sight), out)

\* What reading a file comes to, from what its pass comes to.
ReadsTo(res, c, sight, a) ==
  LET d == res.cursor IN
  /\ res \in Results /\ res.kept = a.kept /\ res.more = a.more
  /\ d.reg = c.reg /\ d.inode = sight.inode /\ d.offset = a.offset /\ d.outside = a.outside
  /\ d.ids = c.ids \cup a.kept /\ d.before = (IF a.more THEN SkipOf(c, sight) ELSE {})
  /\ d.next = (IF a.kept = {} THEN c.next ELSE c.next + 1)

LEMMA ReadIs ==
  ASSUME NEW c \in AnyCursors, NEW sight \in Sights, NEW lines, NEW out,
         LET a == PassOf(c, sight, lines, out) IN
         /\ a.offset \in Nat /\ a.outside \in BOOLEAN /\ a.kept \in SUBSET Serials /\ a.more \in BOOLEAN
  PROVE  ReadsTo(ReadLines(c, sight, lines, out), c, sight, PassOf(c, sight, lines, out))
<1> DEFINE a   == PassOf(c, sight, lines, out)
           res == ReadLines(c, sight, lines, out)
           before == IF a.more THEN SkipOf(c, sight) ELSE {}
           next == IF a.kept = {} THEN c.next ELSE c.next + 1
           d   == [c EXCEPT !.inode = sight.inode, !.offset = a.offset, !.outside = a.outside,
                            !.ids = c.ids \cup a.kept, !.before = before, !.next = next]
<1>1. res = [kept |-> a.kept, more |-> a.more, cursor |-> d]
  BY DEF ReadLines, PassOf, StartOf, SkipOf
<1>2. a.offset \in Nat /\ a.outside \in BOOLEAN /\ a.kept \in SUBSET Serials /\ a.more \in BOOLEAN
  OBVIOUS
<1>3. sight.inode \in Nat /\ before \in SUBSET Serials /\ next \in Nat /\ c.ids \cup a.kept \in SUBSET Serials
  BY <1>2 DEF Sights, SkipOf, AnyCursors
<1> HIDE DEF a, res, before, next
<1>4. d \in AnyCursors
  BY <1>2, <1>3 DEF AnyCursors
<1>5. /\ d.reg = c.reg /\ d.inode = sight.inode /\ d.offset = a.offset /\ d.outside = a.outside
      /\ d.ids = c.ids \cup a.kept /\ d.before = before /\ d.next = next
  BY DEF AnyCursors
<1> HIDE DEF d
<1>6. res \in Results /\ res.kept = a.kept /\ res.more = a.more /\ res.cursor = d
  BY <1>1, <1>2, <1>4 DEF Results
<1>7. ReadsTo(res, c, sight, a)
  BY <1>5, <1>6 DEF ReadsTo, before, next
<1> QED
  BY <1>7 DEF a, res

\* What reading the file from the cursor c comes to.
MainRead(res, c, file) ==
  /\ res \in Results /\ Sound(res.cursor, file) /\ Follows(c, res.cursor)
  /\ \A s \in res.kept : \E j \in 1..Len(file.lines) :
       /\ file.lines[j].serial = s /\ file.lines[j].kind = "say" /\ file.lines[j].at = "in"
       /\ j <= res.cursor.offset
  /\ res.cursor.ids = c.ids \cup res.kept
  /\ \A i \in 1..Len(file.lines) :
       PastMove(c, file.lines, i) /\ file.lines[i].kind # "say" => PastMove(res.cursor, file.lines, i)

\* What the pass of a reading of a main file comes to.
LEMMA ReadMainEnds ==
  ASSUME NEW file, file.exists, file.inode \in Nat, file.inode >= 1,
         file.lines \in Seq(Lines), Sorted(file.lines), Trail(file.lines),
         NEW c \in AnyCursors, Sound(c, file),
         NEW sight \in Sights, sight.inode = file.inode, sight.size = Len(file.lines)
  PROVE  LET start == StartOf(c, sight)
             skip  == SkipOf(c, sight)
             a     == PassOf(c, sight, file.lines, FALSE) IN
         /\ Startable(file.lines, start, c.outside, skip)
         /\ PassEnds(a, file.lines, start, skip)
         /\ ReadsTo(ReadLines(c, sight, file.lines, FALSE), c, sight, a)
<1> DEFINE L     == file.lines
           n     == Len(L)
           start == StartOf(c, sight)
           skip  == SkipOf(c, sight)
           a     == PassOf(c, sight, L, FALSE)
<1>a. /\ c.reg \in BOOLEAN /\ c.inode \in Nat /\ c.offset \in Nat /\ c.ids \in SUBSET Serials
      /\ c.before \in SUBSET Serials /\ c.outside \in BOOLEAN /\ n \in Nat
  BY LenProperties DEF AnyCursors
<1>1. \/ c.inode # 0 /\ c.inode # file.inode /\ start = 0 /\ skip = c.ids
      \/ c.inode = 0 /\ start = c.offset /\ skip = c.before
      \/ c.inode = file.inode /\ start = c.offset /\ skip = c.before
  BY DEF Restarts, StartOf, SkipOf
<1>2. Startable(L, start, c.outside, skip)
  <2>1. start \in 0..n
    BY <1>1, <1>a DEF Sound
  <2>2. start > 0 => (c.outside <=> L[start].at = "out")
    BY <1>1, <1>a DEF Sound
  <2>3. start = 0 /\ c.outside => \E k \in 1..n : L[k].kind = "out" /\ Covers(skip, L, k - 1)
    BY <1>1, <1>a DEF Sound
  <2> QED
    BY <2>1, <2>2, <2>3, <1>a DEF Startable
<1>3. PassEnds(a, L, start, skip)
  <2>1. a = Pass(L, start, n, c.outside, skip, FALSE)
    BY <1>a DEF PassOf, Least
  <2>2. PassEnds(Pass(L, start, n, c.outside, skip, FALSE), L, start, skip)
    BY <1>2, PassMain
  <2> QED
    BY <2>1, <2>2
<1>4. ReadsTo(ReadLines(c, sight, L, FALSE), c, sight, a)
  <2>1. a.offset \in Nat /\ a.outside \in BOOLEAN /\ a.kept \in SUBSET Serials /\ a.more \in BOOLEAN
    <3> HIDE DEF a, start, skip
    <3>1. a \in PassStates(n)
      BY <1>3 DEF PassEnds
    <3> QED
      BY <3>1, <1>a DEF PassStates
  <2> QED
    BY <2>1, ReadIs, Zenon
<1> QED
  BY <1>2, <1>3, <1>4

\* Reading a main file from a cursor that is sound leaves one that is, and
\* keeps what was said inside.
LEMMA ReadMain ==
  ASSUME NEW file, file.exists, file.inode \in Nat, file.inode >= 1,
         file.lines \in Seq(Lines), Sorted(file.lines), Trail(file.lines),
         NEW c \in AnyCursors, Sound(c, file),
         NEW sight \in Sights, sight.inode = file.inode, sight.size = Len(file.lines)
  PROVE  MainRead(ReadLines(c, sight, file.lines, FALSE), c, file)
<1> DEFINE L     == file.lines
           n     == Len(L)
           start == StartOf(c, sight)
           skip  == SkipOf(c, sight)
           a     == PassOf(c, sight, L, FALSE)
           res   == ReadLines(c, sight, L, FALSE)
           d     == res.cursor
<1>a. /\ c.reg \in BOOLEAN /\ c.inode \in Nat /\ c.offset \in Nat /\ c.ids \in SUBSET Serials
      /\ c.before \in SUBSET Serials /\ c.outside \in BOOLEAN /\ n \in Nat
  BY LenProperties DEF AnyCursors
<1>1. \/ c.inode # 0 /\ c.inode # file.inode /\ start = 0 /\ skip = c.ids
      \/ c.inode = 0 /\ start = c.offset /\ skip = c.before
      \/ c.inode = file.inode /\ start = c.offset /\ skip = c.before
  BY DEF Restarts, StartOf, SkipOf
<1>2. Startable(L, start, c.outside, skip)
  BY ReadMainEnds, Zenon
<1>3. PassEnds(a, L, start, skip) /\ ReadsTo(res, c, sight, a)
  BY ReadMainEnds, Zenon
<1>4. /\ a \in PassStates(n) /\ start <= a.offset
      /\ \A s \in a.kept : s \notin skip /\ \E j \in (start + 1)..a.offset :
              L[j].serial = s /\ L[j].kind = "say" /\ L[j].at = "in"
      /\ Gathered(a, L, start, skip)
      /\ a.offset > 0 => (a.outside <=> L[a.offset].at = "out")
      /\ a.outside => a.offset > 0
      /\ IF a.more THEN StopsAt(a, L, skip) ELSE a.offset = n
  BY <1>3 DEF PassEnds
<1> HIDE DEF a, start, skip
<1>5. a.offset \in 0..n /\ a.outside \in BOOLEAN /\ a.kept \in SUBSET Serials /\ a.more \in BOOLEAN
  BY <1>4 DEF PassStates
<1>6. /\ res \in Results /\ res.kept = a.kept /\ res.more = a.more
      /\ d.reg = c.reg /\ d.inode = sight.inode /\ d.offset = a.offset /\ d.outside = a.outside
      /\ d.ids = c.ids \cup a.kept /\ d.before = (IF a.more THEN skip ELSE {})
  BY <1>3 DEF ReadsTo, skip
<1> HIDE DEF res
<1>7. start \in 0..n /\ skip \subseteq c.ids
  BY <1>1, <1>2 DEF Startable, Sound
<1>8. Covers(d.ids, L, d.offset)
  <2> SUFFICES ASSUME NEW j \in 1..a.offset, Ours(L[j]) PROVE L[j].serial \in c.ids \cup a.kept
    BY <1>6 DEF Covers
  <2>1. CASE j \in (start + 1)..a.offset
    BY <2>1, <1>4, <1>7 DEF Gathered
  <2>2. CASE ~(j \in (start + 1)..a.offset)
    <3>1. j \in 1..start
      BY <2>2, <1>5, <1>7, <1>a
    <3>2. Covers(c.ids, L, start)
      BY <3>1, <1>1, <1>a DEF Sound
    <3> QED
      BY <3>1, <3>2 DEF Covers
  <2> QED
    BY <2>1, <2>2
<1>9. ASSUME a.outside PROVE \E k \in 1..n : L[k].kind = "out" /\ Covers(d.ids, L, k - 1)
  <2>1. a.offset = n /\ a.offset > 0 /\ L[n].at = "out"
    BY <1>4, <1>9 DEF StopsAt
  <2>2. ~Calm(L, 1, n)
    <3>1. n \in 1..n
      BY <2>1, <1>a
    <3> QED
      BY <2>1, <3>1 DEF Trail
  <2>3. PICK k \in 1..n : L[k].kind # "say" /\ Calm(L, k + 1, n)
    BY <2>2, LastMove
  <2>4. L[k].at = "out"
    <3>1. CASE k = n
      BY <3>1, <2>1
    <3>2. CASE k # n
      <4>1. k < n /\ n \in 1..n
        BY <3>2, <1>a
      <4> QED
        BY <4>1, <2>1, <2>3 DEF Trail
    <3> QED
      BY <3>1, <3>2
  <2>5. L[k].kind = "out"
    BY <2>3, <2>4 DEF Trail
  <2>6. Covers(d.ids, L, k - 1)
    <3>1. d.offset = n /\ \A j \in 1..(k - 1) : j \in 1..n
      BY <2>1, <1>6, <1>a
    <3> QED
      BY <3>1, <1>8 DEF Covers
  <2> QED
    BY <2>5, <2>6
<1>10. Sound(d, file)
  <2>1. d.before \subseteq d.ids
    BY <1>6, <1>7
  <2>2. /\ d.offset <= n /\ (d.offset > 0 => (d.outside <=> L[d.offset].at = "out"))
        /\ (d.outside => d.offset > 0) /\ d.inode = file.inode
    BY <1>4, <1>5, <1>6, <1>a
  <2>3. d.outside => \E k \in 1..n : L[k].kind = "out" /\ Covers(d.ids, L, k - 1)
    BY <1>6, <1>9
  <2> QED
    BY <2>1, <2>2, <2>3, <1>8, <1>a DEF Sound
<1>11. Follows(c, d)
  <2>1. c.inode = file.inode => start = c.offset
    BY <1>1, <1>a
  <2> QED
    BY <2>1, <1>4, <1>6 DEF Follows, Sound
<1>12. ASSUME NEW s \in res.kept
       PROVE  \E j \in 1..n : /\ L[j].serial = s /\ L[j].kind = "say" /\ L[j].at = "in"
                              /\ j <= d.offset
  <2>1. PICK j \in (start + 1)..a.offset : L[j].serial = s /\ L[j].kind = "say" /\ L[j].at = "in"
    BY <1>4, <1>6, <1>12
  <2>2. j \in 1..n /\ j <= a.offset
    BY <1>5, <1>7, <1>a
  <2> QED
    BY <2>1, <2>2, <1>6
<1>13. ASSUME NEW i \in 1..n, PastMove(c, L, i), L[i].kind # "say" PROVE PastMove(d, L, i)
  <2>1. Covers(d.ids, L, i - 1)
    BY <1>6, <1>13 DEF PastMove, Covers
  <2>2. CASE start = c.offset
    BY <2>1, <2>2, <1>4, <1>5, <1>6, <1>13, <1>a DEF PastMove
  <2>3. CASE start = 0 /\ skip = c.ids /\ a.more
    <3>1. a.offset < n /\ Ours(L[a.offset + 1]) /\ L[a.offset + 1].serial \notin c.ids
      BY <2>3, <1>4 DEF StopsAt
    <3>2. a.offset + 1 # i /\ a.offset + 1 \notin 1..(i - 1)
      BY <3>1, <1>13 DEF Ours, Covers, PastMove
    <3>3. i <= a.offset
      BY <3>2, <1>5, <1>a
    <3> QED
      BY <3>3, <2>1, <1>6 DEF PastMove
  <2>4. CASE ~a.more
    BY <2>1, <2>4, <1>4, <1>6, <1>a DEF PastMove
  <2> QED
    BY <2>2, <2>3, <2>4, <1>1
<1> QED
  BY <1>6, <1>10, <1>11, <1>12, <1>13 DEF res, MainRead

-----------------------------------------------------------------------------
(* The pass over an agent file, which has no move of its own: out says      *)
(* whether all of it is passed over.                                        *)

\* Where the pass stands after position i.
AgentInv(acc, i, lines, start, size, skip, out) ==
  /\ acc \in [offset : Nat, outside : BOOLEAN, settled : BOOLEAN, kept : SUBSET Serials, more : BOOLEAN]
  /\ start <= acc.offset /\ (acc.offset <= size \/ acc.offset = start) /\ (~acc.more => i <= acc.offset)
  /\ ~acc.outside
  /\ out => acc.kept = {} /\ ~acc.more
  /\ \A s \in acc.kept : s \notin skip /\ \E j \in (start + 1)..acc.offset : j <= Len(lines) /\ lines[j].serial = s
  /\ ~out => \A j \in (start + 1)..acc.offset : lines[j].serial \in acc.kept \cup skip
  /\ Cardinality(acc.kept) <= MaxKept /\ (acc.more => Cardinality(acc.kept) = MaxKept)

\* A segment with one line more.
LEMMA OneMoreLine ==
  ASSUME NEW K \in SUBSET Serials, NEW s \in Serials
  PROVE  Cardinality(K) \in Nat /\ Cardinality(K \cup {s}) \in {Cardinality(K), Cardinality(K) + 1}
<1>1. IsFiniteSet(Serials)
  BY FS_Interval, BoundAssumption DEF Serials
<1>2. IsFiniteSet(K)
  BY <1>1, FS_Subset
<1> QED
  BY <1>2, FS_CardinalityType, FS_AddElement

LEMMA PassAgent ==
  ASSUME NEW lines \in Seq(Lines), Calm(lines, 1, Len(lines)), NEW start \in Nat, NEW size \in 0..Len(lines),
         NEW skip, NEW out \in BOOLEAN
  PROVE  AgentInv(Pass(lines, start, size, FALSE, skip, out), size, lines, start, size, skip, out)
<1> DEFINE g == Passes(lines, start, size, FALSE, skip, out)
           Inv(i) == AgentInv(g[i], i, lines, start, size, skip, out)
           B == {i \in 0..size : ~Inv(i)}
<1>a. Len(lines) \in Nat /\ size \in Nat
  BY LenProperties
<1>1. PassRuns(g, lines, start, size, FALSE, skip, out)
  BY <1>a, PassIs, Zenon
<1> HIDE DEF g
<1>2. g[0] = PassStart(start, FALSE) /\ \A i \in 1..size : g[i] = PassLine(g[i - 1], lines, i, size, skip, out)
  BY <1>1 DEF PassRuns
<1>3. Inv(0)
  <2>1. g[0] = [offset |-> start, outside |-> FALSE, settled |-> start > 0, kept |-> {}, more |-> FALSE]
    BY <1>2 DEF PassStart
  <2>2. Cardinality({}) <= MaxKept
    BY FS_EmptySet, BoundAssumption
  <2> QED
    BY <2>1, <2>2, <1>a DEF AgentInv
<1>4. ASSUME NEW i \in 1..size, Inv(i - 1) PROVE Inv(i)
  <2> DEFINE acc == g[i - 1]
             b == PassLine(acc, lines, i, size, skip, out)
  <2>a. i \in 1..Len(lines) /\ i \in Nat
    BY <1>a
  <2>b. lines[i].kind = "say" /\ lines[i].serial \in Serials
    BY <2>a, LineIs DEF Calm
  <2>c. MovesAhead(lines, i, size) = {}
    BY <2>a, <1>a DEF MovesAhead, Calm
  <2>d. AgentInv(acc, i - 1, lines, start, size, skip, out)
    BY <1>4
  <2> HIDE DEF acc
  <2>e. /\ acc \in [offset : Nat, outside : BOOLEAN, settled : BOOLEAN, kept : SUBSET Serials, more : BOOLEAN]
        /\ acc.offset \in Nat /\ acc.kept \in SUBSET Serials /\ ~acc.outside
        /\ start <= acc.offset /\ (acc.offset <= size \/ acc.offset = start) /\ (~acc.more => i - 1 <= acc.offset)
        /\ Cardinality(acc.kept) <= MaxKept /\ (acc.more => Cardinality(acc.kept) = MaxKept)
    BY <2>d DEF AgentInv
  <2>f. Cardinality(acc.kept) \in Nat /\ MaxKept \in Nat
    BY <2>b, <2>e, OneMoreLine, BoundAssumption
  <2>1. CASE acc.more \/ i <= acc.offset
    <3>1. b = acc
      BY <2>1 DEF PassLine
    <3>2. ~acc.more => i <= acc.offset
      BY <2>1
    <3> HIDE DEF b
    <3>3. AgentInv(b, i, lines, start, size, skip, out)
      BY <3>1, <3>2, <2>d DEF AgentInv
    <3> QED
      BY <3>3, <1>2 DEF b, acc
  <2>2. CASE ~acc.more /\ ~(i <= acc.offset)
    <3>1. acc.offset = i - 1 /\ start <= i - 1
      BY <2>2, <2>a, <2>e
    <3>2. CASE out \/ lines[i].serial \in skip
      <4>1. b = [acc EXCEPT !.offset = i]
        BY <2>2, <2>b, <3>2 DEF PassLine
      <4> HIDE DEF b
      <4>2. b \in [offset : Nat, outside : BOOLEAN, settled : BOOLEAN, kept : SUBSET Serials, more : BOOLEAN]
        BY <4>1, <2>a, <2>e
      <4>3. b.offset = i /\ b.kept = acc.kept /\ b.more = acc.more /\ b.outside = acc.outside
        BY <4>1, <2>e
      <4>4. \A j \in (start + 1)..i : j = i \/ j \in (start + 1)..(i - 1)
        BY <2>a
      <4>5. \A s \in b.kept : s \notin skip /\ \E j \in (start + 1)..i : j <= Len(lines) /\ lines[j].serial = s
        BY <4>3, <3>1, <2>a, <2>d DEF AgentInv
      <4>6. ~out => \A j \in (start + 1)..i : lines[j].serial \in b.kept \cup skip
        BY <4>3, <4>4, <3>1, <3>2, <2>d DEF AgentInv
      <4>7. out => b.kept = {} /\ ~b.more
        BY <4>3, <2>d DEF AgentInv
      <4>8. AgentInv(b, i, lines, start, size, skip, out)
        BY <4>2, <4>3, <4>5, <4>6, <4>7, <3>1, <2>2, <2>a, <2>e DEF AgentInv
      <4> QED
        BY <4>8, <1>2 DEF b, acc
    <3>3. CASE ~out /\ lines[i].serial \notin skip /\ Cardinality(acc.kept) < MaxKept
      <4>1. b = [acc EXCEPT !.kept = acc.kept \cup {lines[i].serial}, !.offset = i]
        BY <2>2, <2>b, <2>e, <3>3 DEF PassLine, PassSay
      <4> HIDE DEF b
      <4>2. b \in [offset : Nat, outside : BOOLEAN, settled : BOOLEAN, kept : SUBSET Serials, more : BOOLEAN]
        BY <4>1, <2>a, <2>b, <2>e
      <4>3. b.offset = i /\ b.kept = acc.kept \cup {lines[i].serial} /\ b.more = acc.more /\ b.outside = acc.outside
        BY <4>1, <2>e
      <4>4. \A j \in (start + 1)..i : j = i \/ j \in (start + 1)..(i - 1)
        BY <2>a
      <4>5. ASSUME NEW s \in b.kept
            PROVE  s \notin skip /\ \E j \in (start + 1)..i : j <= Len(lines) /\ lines[j].serial = s
        <5>1. CASE s = lines[i].serial
          BY <5>1, <3>1, <3>3, <2>a
        <5>2. CASE s \in acc.kept
          BY <5>2, <3>1, <2>a, <2>d DEF AgentInv
        <5> QED
          BY <5>1, <5>2, <4>3
      <4>6. \A j \in (start + 1)..i : lines[j].serial \in b.kept \cup skip
        BY <4>3, <4>4, <3>1, <3>3, <2>d DEF AgentInv
      <4>7. Cardinality(b.kept) <= MaxKept
        BY <4>3, <3>3, <2>b, <2>e, <2>f, OneMoreLine
      <4>8. AgentInv(b, i, lines, start, size, skip, out)
        BY <4>2, <4>3, <4>5, <4>6, <4>7, <3>1, <3>3, <2>2, <2>a, <2>e DEF AgentInv
      <4> QED
        BY <4>8, <1>2 DEF b, acc
    <3>4. CASE ~out /\ lines[i].serial \notin skip /\ ~(Cardinality(acc.kept) < MaxKept)
      <4>1. b = [acc EXCEPT !.more = TRUE]
        BY <2>2, <2>b, <2>c, <2>e, <3>4 DEF PassLine, PassSay
      <4> HIDE DEF b
      <4>2. b \in [offset : Nat, outside : BOOLEAN, settled : BOOLEAN, kept : SUBSET Serials, more : BOOLEAN]
        BY <4>1, <2>e
      <4>3. b.offset = acc.offset /\ b.kept = acc.kept /\ b.more = TRUE /\ b.outside = acc.outside
        BY <4>1, <2>e
      <4>4. AgentInv(b, i, lines, start, size, skip, out)
        BY <4>2, <4>3, <3>4, <2>d, <2>e, <2>f DEF AgentInv
      <4> QED
        BY <4>4, <1>2 DEF b, acc
    <3> QED
      BY <3>2, <3>3, <3>4
  <2> QED
    BY <2>1, <2>2
<1>5. B = {}
  <2> SUFFICES ASSUME B # {} PROVE FALSE
    OBVIOUS
  <2>1. B \in SUBSET (0..size)
    OBVIOUS
  <2> HIDE DEF Inv
  <2>2. PICK i \in B : \A j \in B : i <= j
    <3> HIDE DEF B
    <3> QED
      BY <2>1, <1>a, LeastOf
  <2>3. i \in 1..size /\ i - 1 \in 0..size /\ i - 1 \notin B
    BY <2>2, <1>3, <1>a
  <2> QED
    BY <2>2, <2>3, <1>4
<1>6. size \in 0..size
  BY <1>a
<1>7. Inv(size)
  BY <1>5, <1>6
<1> QED
  BY <1>7 DEF Pass, g

\* What reading the lines of an agent file from the cursor c comes to.
AgentRead(res, c, sight, lines, out) ==
  LET d     == res.cursor
      start == StartOf(c, sight) IN
  /\ res \in Results /\ ~d.outside /\ d.inode = sight.inode /\ d.reg = c.reg
  /\ d.ids = c.ids \cup res.kept /\ d.before \subseteq c.ids \cup c.before
  /\ \A s \in res.kept : s \notin SkipOf(c, sight) /\ \E j \in 1..Len(lines) : lines[j].serial = s
  /\ out => res.kept = {}
  /\ \A s \in res.kept : \E j \in (start + 1)..d.offset : j <= Len(lines) /\ lines[j].serial = s
  /\ Cardinality(res.kept) <= MaxKept
  /\ d.next = (IF res.kept = {} THEN c.next ELSE c.next + 1)
  /\ IF res.more THEN Cardinality(res.kept) = MaxKept /\ d.before = SkipOf(c, sight)
                  ELSE Least(sight.size, Len(lines)) <= d.offset
  /\ start <= d.offset /\ (d.offset <= Len(lines) \/ d.offset = start)
  /\ ~out => \A j \in (start + 1)..d.offset : lines[j].serial \in res.kept \cup SkipOf(c, sight)

\* Reading an agent file up to what was observed of it.
LEMMA ReadAgent ==
  ASSUME NEW lines \in Seq(Lines), Calm(lines, 1, Len(lines)), NEW c \in AnyCursors, ~c.outside,
         NEW sight \in Sights, NEW out \in BOOLEAN
  PROVE  AgentRead(ReadLines(c, sight, lines, out), c, sight, lines, out)
<1> DEFINE start == StartOf(c, sight)
           skip  == SkipOf(c, sight)
           size  == Least(sight.size, Len(lines))
           a     == PassOf(c, sight, lines, out)
           res   == ReadLines(c, sight, lines, out)
           d     == res.cursor
<1>a. /\ c.reg \in BOOLEAN /\ c.inode \in Nat /\ c.offset \in Nat /\ c.ids \in SUBSET Serials
      /\ c.before \in SUBSET Serials /\ c.outside \in BOOLEAN /\ Len(lines) \in Nat /\ sight.size \in Nat
  BY LenProperties DEF AnyCursors, Sights
<1>1. start \in Nat /\ size \in 0..Len(lines) /\ skip \subseteq c.ids \cup c.before
  BY <1>a DEF StartOf, SkipOf, Least
<1>2. AgentInv(a, size, lines, start, size, skip, out)
  <2>1. a = Pass(lines, start, size, FALSE, skip, out)
    <3>1. c.outside = FALSE
      BY <1>a
    <3> QED
      BY <3>1 DEF PassOf
  <2>2. AgentInv(Pass(lines, start, size, FALSE, skip, out), size, lines, start, size, skip, out)
    BY <1>1, PassAgent
  <2> QED
    BY <2>1, <2>2
<1> HIDE DEF a, start, skip, size
<1>3. /\ a.offset \in Nat /\ a.outside \in BOOLEAN /\ a.kept \in SUBSET Serials /\ a.more \in BOOLEAN
      /\ ~a.outside /\ start <= a.offset /\ (a.offset <= size \/ a.offset = start)
      /\ (out => a.kept = {})
      /\ \A s \in a.kept : s \notin skip /\ \E j \in (start + 1)..a.offset : j <= Len(lines) /\ lines[j].serial = s
      /\ (~out => \A j \in (start + 1)..a.offset : lines[j].serial \in a.kept \cup skip)
      /\ Cardinality(a.kept) <= MaxKept /\ (a.more => Cardinality(a.kept) = MaxKept) /\ (~a.more => size <= a.offset)
  BY <1>2 DEF AgentInv
<1>4. /\ res \in Results /\ res.kept = a.kept /\ res.more = a.more /\ d.reg = c.reg /\ d.inode = sight.inode /\ d.offset = a.offset
      /\ d.outside = a.outside /\ d.ids = c.ids \cup a.kept /\ d.before = (IF a.more THEN skip ELSE {})
      /\ d.next = (IF a.kept = {} THEN c.next ELSE c.next + 1)
  <2>1. ReadsTo(res, c, sight, a)
    BY <1>3, ReadIs, Zenon DEF a
  <2> QED
    BY <2>1 DEF ReadsTo, skip
<1> HIDE DEF res
<1>5. ASSUME NEW s \in res.kept PROVE s \notin skip /\ \E j \in 1..Len(lines) : lines[j].serial = s
  <2>1. PICK j \in (start + 1)..a.offset : j <= Len(lines) /\ lines[j].serial = s
    BY <1>3, <1>4, <1>5
  <2>2. j \in 1..Len(lines)
    BY <2>1, <1>1, <1>3, <1>a
  <2> QED
    BY <2>1, <2>2, <1>3, <1>4, <1>5
<1>6. d.before \subseteq c.ids \cup c.before
  BY <1>1, <1>4
<1>7. d.offset <= Len(lines) \/ d.offset = start
  BY <1>1, <1>3, <1>4, <1>a
<1> QED
  BY <1>3, <1>4, <1>5, <1>6, <1>7 DEF res, start, skip, size, AgentRead

-----------------------------------------------------------------------------
(* The inductive invariant, in parts.                                       *)

MainLines  == disk["main"].lines
AgentLines == disk["agent"].lines
Stages == {"idle", "again", "observe", "scan", "store", "commit", "vanished"} \cup Ends
Records == [file : Files, no : Nat, lines : SUBSET Serials]
FileStates == [exists : BOOLEAN, inode : Nat, lines : Seq(Lines)]

\* What every variable is.
Shape ==
  /\ disk \in [Files -> FileStates] /\ place \in {"in", "out"} /\ clock \in 0..MaxLines
  /\ entry \in [Files -> AnyCursors]
  /\ pc \in [Readers -> Stages] /\ path \in [Readers -> Files]
  /\ from \in [Readers -> AnyCursors] /\ seen \in [Readers -> Sights]
  /\ result \in [Readers -> Results]
  /\ stored \subseteq Records /\ shadowed \subseteq Serials

\* The session was outside when the serial s was written, and its main file
\* says so.
OutBefore(lines, s) ==
  \E k \in 1..Len(lines) :
    /\ lines[k].kind = "out" /\ lines[k].serial < s
    /\ \A j \in (k + 1)..Len(lines) : lines[j].kind # "say" => lines[j].serial > s

\* The files are what Claude Code writes.
OneFile(file, now) ==
  /\ file.inode >= 1 /\ Sorted(file.lines) /\ (~file.exists => file.lines = <<>>)
  /\ \A i \in 1..Len(file.lines) : file.lines[i].serial <= now

FilesInv ==
  /\ \A f \in Files : OneFile(disk[f], clock)
  /\ disk["agent"].exists => disk["main"].exists
  /\ Trail(MainLines) /\ (disk["main"].exists => PlaceIs(MainLines, place))
  /\ Calm(AgentLines, 1, Len(AgentLines))
  /\ \A i \in 1..Len(AgentLines) :
       AgentLines[i].at = "out" => OutBefore(MainLines, AgentLines[i].serial)

\* A line of that serial, if the main file has one, was said inside.
Safe(s, now, lines) ==
  s <= now /\ \A i \in 1..Len(lines) : lines[i].serial = s => lines[i].at = "in"

\* A round on f has a result that is not all written yet.
Pending(r, f) == path[r] = f /\ pc[r] \in {"store", "commit"}

\* The cursors of the main file are sound, and what was kept of it is safe.
OutsideInv ==
  /\ Sound(entry["main"], disk["main"])
  /\ \A s \in Kept("main") : Safe(s, clock, MainLines)
  /\ \A r \in Readers : Pending(r, "main") =>
       /\ Sound(result[r].cursor, disk["main"])
       /\ \A s \in result[r].kept : Safe(s, clock, MainLines)

\* The cursor c is one of the agent file or of one before it; where the
\* session never moved, all that was said up to it is known.
Tracks(c, file, main) ==
  /\ c.inode <= file.inode /\ c.before \subseteq c.ids /\ ~c.outside
  /\ c.inode = 0 => c.offset = 0
  /\ file.exists /\ c.inode = file.inode =>
       /\ c.offset <= Len(file.lines)
       /\ Calm(main, 1, Len(main)) => \A j \in 1..c.offset : file.lines[j].serial \in c.ids

Sent(f) == Kept(f) \cup shadowed

\* What a round observed of the agent file is still what that file is.
Observed(r) ==
  /\ path[r] = "agent" /\ Tracks(from[r], disk["agent"], MainLines) /\ from[r].ids \subseteq Sent("agent")
  /\ seen[r].exists /\ disk["agent"].exists => seen[r].inode = disk["agent"].inode

\* What a cursor knows was sent, but for the segment about to be.
SkipInv ==
  /\ \A f \in Files : entry[f].ids \subseteq Sent(f)
  /\ Tracks(entry["agent"], disk["agent"], MainLines)
  /\ \A r \in Readers :
       /\ pc[r] = "scan" => Observed(r)
       /\ Pending(r, "agent") => Tracks(result[r].cursor, disk["agent"], MainLines)
       /\ pc[r] = "store" => result[r].cursor.ids \subseteq Sent(path[r]) \cup result[r].kept
       /\ pc[r] = "commit" => result[r].cursor.ids \subseteq Sent(path[r])

SInv == Shape /\ FilesInv /\ OutsideInv /\ SkipInv

-----------------------------------------------------------------------------
(* Steps of Claude Code.                                                    *)

\* How a write leaves a file.
Grown(file, file2, l) ==
  file.exists /\ file2 = [file EXCEPT !.lines = Append(@, l)] /\ l.serial = clock + 1
Replaced(file, file2) ==
  /\ file.exists
  /\ \E m \in Nat : \E g \in Thinnings(m, Len(file.lines)) :
       /\ \A j \in 1..Len(file.lines) : file.lines[j].kind # "say" => \E i \in 1..m : g[i] = j
       /\ file2 = [file EXCEPT !.inode = @ + 1, !.lines = Thinned(file.lines, m, g)]
Gone(file, file2) == file.exists /\ file2 = [file EXCEPT !.exists = FALSE, !.lines = <<>>]

\* A write is one of five.
WroteMain ==
  /\ \E l \in Lines : /\ Grown(disk["main"], disk'["main"], l)
                      /\ IF l.kind = "say" THEN l.at = place /\ place' = place
                         ELSE l.at = l.kind /\ l.kind # place /\ place' = l.kind
  /\ disk'["agent"] = disk["agent"] /\ clock' = clock + 1
WroteAgent ==
  /\ \E l \in Lines : Grown(disk["agent"], disk'["agent"], l) /\ l.kind = "say" /\ l.at = place
  /\ disk'["main"] = disk["main"] /\ place' = place /\ clock' = clock + 1
ReplacedMain ==
  /\ Replaced(disk["main"], disk'["main"]) /\ disk'["agent"] = disk["agent"]
  /\ place' = place /\ clock' = clock
ReplacedAgent ==
  /\ Replaced(disk["agent"], disk'["agent"]) /\ disk'["main"] = disk["main"]
  /\ place' = place /\ clock' = clock
  /\ \A r \in Readers : ~(path[r] = "agent" /\ seen[r].exists)
OneGone ==
  /\ \/ Gone(disk["main"], disk'["main"]) /\ disk'["agent"] = disk["agent"] /\ ~disk["agent"].exists
     \/ Gone(disk["agent"], disk'["agent"]) /\ disk'["main"] = disk["main"]
  /\ place' = place /\ clock' = clock

Written == WroteMain \/ WroteAgent \/ ReplacedMain \/ ReplacedAgent \/ OneGone

LEMMA WriteIs ==
  ASSUME Shape, Write
  PROVE  /\ Written /\ UNCHANGED reading
         /\ disk' \in [Files -> FileStates] /\ place' \in {"in", "out"} /\ clock' \in 0..MaxLines
<1> DEFINE Typed == disk' \in [Files -> FileStates] /\ place' \in {"in", "out"} /\ clock' \in 0..MaxLines
<1>a. /\ disk \in [Files -> FileStates] /\ "main" \in Files /\ "agent" \in Files /\ MaxLines \in Nat
      /\ place \in {"in", "out"} /\ clock \in 0..MaxLines
  BY BoundAssumption DEF Shape, Files
<1>b. \A f \in Files : disk[f] \in FileStates /\ disk[f].exists \in BOOLEAN /\ disk[f].inode \in Nat /\ disk[f].lines \in Seq(Lines)
  BY <1>a DEF FileStates
<1>c. \A f \in Files : f = "main" \/ f = "agent"
  BY DEF Files
<1>1. ASSUME NEW f \in Files, NEW kind \in {"say", "out", "in"}, NEW at \in {"in", "out"}, Append1(f, kind, at)
      PROVE  \E l \in Lines : /\ Grown(disk[f], disk'[f], l) /\ l.kind = kind /\ l.at = at
                              /\ \A h \in Files \ {f} : disk'[h] = disk[h]
                              /\ disk' \in [Files -> FileStates] /\ clock' = clock + 1 /\ clock' \in 0..MaxLines
  <2> DEFINE l == [kind |-> kind, serial |-> clock + 1, at |-> at]
  <2>1. clock + 1 \in Serials /\ clock + 1 \in 0..MaxLines
    BY <1>a, <1>1 DEF Append1, Serials
  <2>2. l \in Lines /\ l.kind = kind /\ l.at = at /\ l.serial = clock + 1
    BY <2>1 DEF Lines
  <2>3. disk' = [disk EXCEPT ![f].lines = Append(@, l)] /\ disk[f].exists /\ clock' = clock + 1
    BY <1>1 DEF Append1
  <2> HIDE DEF l
  <2>4. Append(disk[f].lines, l) \in Seq(Lines)
    BY <2>2, <1>b, AppendProperties
  <2>5. disk'[f] = [disk[f] EXCEPT !.lines = Append(@, l)] /\ \A h \in Files \ {f} : disk'[h] = disk[h]
    BY <2>3, <1>a
  <2>6. disk'[f] \in FileStates
    BY <2>4, <2>5, <1>b DEF FileStates
  <2>7. disk' \in [Files -> FileStates]
    BY <2>3, <2>5, <2>6, <1>a
  <2> QED
    BY <2>1, <2>2, <2>3, <2>5, <2>7 DEF Grown
<1>2. ASSUME NEW f \in Files, Say(f) PROVE Written /\ UNCHANGED reading /\ Typed
  <2>1. Append1(f, "say", place) /\ place' = place /\ UNCHANGED reading
    BY <1>2 DEF Say
  <2>2. PICK l \in Lines : /\ Grown(disk[f], disk'[f], l) /\ l.kind = "say" /\ l.at = place
                           /\ \A h \in Files \ {f} : disk'[h] = disk[h]
                           /\ disk' \in [Files -> FileStates] /\ clock' = clock + 1 /\ clock' \in 0..MaxLines
    BY <2>1, <1>1, <1>a
  <2>3. Written
    <3>1. CASE f = "main"
      BY <3>1, <2>1, <2>2, <1>a DEF Written, WroteMain
    <3>2. CASE f = "agent"
      BY <3>2, <2>1, <2>2, <1>a DEF Written, WroteAgent
    <3> QED
      BY <3>1, <3>2, <1>c
  <2> QED
    BY <2>1, <2>2, <2>3, <1>a
<1>3. ASSUME Move PROVE Written /\ UNCHANGED reading /\ Typed
  <2>1. /\ place' = (IF place = "in" THEN "out" ELSE "in") /\ Append1("main", place', place') /\ UNCHANGED reading
    BY <1>3 DEF Move
  <2>2. place' \in {"in", "out"} /\ place' # place /\ place' # "say"
    BY <2>1, <1>a
  <2>3. PICK l \in Lines : /\ Grown(disk["main"], disk'["main"], l) /\ l.kind = place' /\ l.at = place'
                           /\ \A h \in Files \ {"main"} : disk'[h] = disk[h]
                           /\ disk' \in [Files -> FileStates] /\ clock' = clock + 1 /\ clock' \in 0..MaxLines
    BY <2>1, <2>2, <1>1, <1>a
  <2>4. Written
    BY <2>2, <2>3, <1>a DEF Written, WroteMain
  <2> QED
    BY <2>1, <2>2, <2>3, <2>4
<1>4. ASSUME NEW f \in Files, NEW m \in 0..Len(disk[f].lines), NEW g \in Thinnings(m, Len(disk[f].lines)), Rewrite(f, m, g)
      PROVE  Written /\ UNCHANGED reading /\ Typed
  <2> DEFINE t == Thinned(disk[f].lines, m, g)
  <2>0. m \in Nat
    BY <1>b, LenProperties
  <2>1. disk' = [disk EXCEPT ![f].inode = @ + 1, ![f].lines = t] /\ place' = place /\ clock' = clock /\ UNCHANGED reading
        /\ disk[f].exists /\ (\A r \in Readers : ~(path[r] = f /\ seen[r].exists))
    BY <1>4 DEF Rewrite, Thinned
  <2>2. \A j \in 1..Len(disk[f].lines) : disk[f].lines[j].kind # "say" => \E i \in 1..m : g[i] = j
    BY <1>4 DEF Rewrite
  <2>3. t \in Seq(Lines)
    BY <2>0, <1>b, ThinnedIs
  <2> HIDE DEF t
  <2>4. disk'[f] = [disk[f] EXCEPT !.inode = @ + 1, !.lines = t] /\ \A h \in Files \ {f} : disk'[h] = disk[h]
    BY <2>1, <1>a
  <2>5. disk'[f] \in FileStates
    <3> DEFINE n == disk[f].inode + 1
    <3>1. disk'[f] = [disk[f] EXCEPT !.inode = n, !.lines = t] /\ disk[f] \in FileStates
      BY <2>4, <1>b
    <3>2. n \in Nat
      BY <1>b
    <3> HIDE DEF n
    <3> QED
      BY <3>1, <3>2, <2>3 DEF FileStates
  <2>6. disk' \in [Files -> FileStates]
    BY <2>1, <2>4, <2>5, <1>a
  <2>7. Replaced(disk[f], disk'[f])
    BY <2>0, <2>1, <2>2, <2>4 DEF Replaced, t
  <2>8. Written
    <3>1. CASE f = "main"
      BY <3>1, <2>1, <2>4, <2>7, <1>a DEF Written, ReplacedMain
    <3>2. CASE f = "agent"
      BY <3>2, <2>1, <2>4, <2>7, <1>a DEF Written, ReplacedAgent
    <3> QED
      BY <3>1, <3>2, <1>c
  <2> QED
    BY <2>1, <2>6, <2>8, <1>a
<1>5. ASSUME NEW f \in Files, Vanish(f) PROVE Written /\ UNCHANGED reading /\ Typed
  <2>1. /\ disk' = [disk EXCEPT ![f].exists = FALSE, ![f].lines = <<>>] /\ place' = place /\ clock' = clock
        /\ UNCHANGED reading /\ disk[f].exists /\ (f = "main" => ~disk["agent"].exists)
    BY <1>5 DEF Vanish
  <2>2. disk'[f] = [disk[f] EXCEPT !.exists = FALSE, !.lines = <<>>] /\ \A h \in Files \ {f} : disk'[h] = disk[h]
    BY <2>1, <1>a
  <2>3. disk'[f] \in FileStates
    <3>1. disk'[f] = [disk[f] EXCEPT !.exists = FALSE, !.lines = <<>>] /\ disk[f] \in FileStates
      BY <2>2, <1>b
    <3>2. <<>> \in Seq(Lines)
      BY EmptySeq
    <3> QED
      BY <3>1, <3>2 DEF FileStates
  <2>4. disk' \in [Files -> FileStates]
    BY <2>1, <2>2, <2>3, <1>a
  <2>5. Written
    <3>1. CASE f = "main"
      BY <3>1, <2>1, <2>2, <1>a DEF Written, OneGone, Gone
    <3>2. CASE f = "agent"
      BY <3>2, <2>1, <2>2, <1>a DEF Written, OneGone, Gone
    <3> QED
      BY <3>1, <3>2, <1>c
  <2> QED
    BY <2>1, <2>4, <2>5, <1>a
<1> QED
  BY <1>2, <1>3, <1>4, <1>5 DEF Write

\* The three ways a file changes, and that it does not.
Changed(file, file2) ==
  \/ file2 = file
  \/ \E l \in Lines : Grown(file, file2, l)
  \/ Replaced(file, file2)
  \/ Gone(file, file2)

\* The lines kept are those g is of, the moves among them.
Lost(lines, lines2, m, g) ==
  /\ m \in Nat /\ g \in Thinnings(m, Len(lines)) /\ lines2 = Thinned(lines, m, g)
  /\ \A j \in 1..Len(lines) : lines[j].kind # "say" => \E i \in 1..m : g[i] = j

\* What the changes come to.
LEMMA GrownIs ==
  ASSUME NEW file \in FileStates, NEW file2, NEW l \in Lines, Grown(file, file2, l)
  PROVE  /\ file.exists /\ file2.exists /\ file2.inode = file.inode /\ file2.lines = Append(file.lines, l)
         /\ l.serial = clock + 1 /\ file2.lines \in Seq(Lines)
         /\ Len(file.lines) \in Nat /\ Len(file2.lines) = Len(file.lines) + 1
         /\ file2.lines[Len(file.lines) + 1] = l
         /\ \A i \in 1..Len(file.lines) : file2.lines[i] = file.lines[i]
<1>1. file.exists /\ file2 = [file EXCEPT !.lines = Append(file.lines, l)] /\ l.serial = clock + 1
  BY DEF Grown
<1>2. file.lines \in Seq(Lines)
  BY DEF FileStates
<1>3. file2.exists = file.exists /\ file2.inode = file.inode /\ file2.lines = Append(file.lines, l)
  BY <1>1 DEF FileStates
<1> QED
  BY <1>1, <1>2, <1>3, Appended

LEMMA ReplacedIs ==
  ASSUME NEW file \in FileStates, NEW file2, Replaced(file, file2)
  PROVE  /\ file.exists /\ file2.exists /\ file2.inode = file.inode + 1
         /\ \E m, g : Lost(file.lines, file2.lines, m, g)
<1>1. PICK m \in Nat : \E g \in Thinnings(m, Len(file.lines)) :
        /\ \A j \in 1..Len(file.lines) : file.lines[j].kind # "say" => \E i \in 1..m : g[i] = j
        /\ file2 = [file EXCEPT !.inode = @ + 1, !.lines = Thinned(file.lines, m, g)]
  BY DEF Replaced
<1>0. PICK g \in Thinnings(m, Len(file.lines)) :
        /\ \A j \in 1..Len(file.lines) : file.lines[j].kind # "say" => \E i \in 1..m : g[i] = j
        /\ file2 = [file EXCEPT !.inode = @ + 1, !.lines = Thinned(file.lines, m, g)]
  BY <1>1
<1>2. file.exists
  BY DEF Replaced
<1>3. file2.exists = file.exists /\ file2.inode = file.inode + 1 /\ file2.lines = Thinned(file.lines, m, g)
  BY <1>0 DEF FileStates
<1> QED
  BY <1>0, <1>2, <1>3 DEF Lost

LEMMA GoneIs ==
  ASSUME NEW file \in FileStates, NEW file2, Gone(file, file2)
  PROVE  file.exists /\ ~file2.exists /\ file2.inode = file.inode /\ file2.lines = <<>> /\ Len(file2.lines) = 0
<1>1. file.exists /\ file2 = [file EXCEPT !.exists = FALSE, !.lines = <<>>]
  BY DEF Gone
<1>2. file2.exists = FALSE /\ file2.inode = file.inode /\ file2.lines = <<>>
  BY <1>1 DEF FileStates
<1> QED
  BY <1>1, <1>2

LEMMA OneFileKept ==
  ASSUME Shape, NEW file \in FileStates, OneFile(file, clock), NEW file2, Changed(file, file2),
         NEW now, now = clock \/ now = clock + 1, (\E l \in Lines : Grown(file, file2, l)) => now = clock + 1
  PROVE  OneFile(file2, now)
<1>a. /\ clock \in Int /\ file.inode \in Nat /\ file.lines \in Seq(Lines) /\ clock <= now /\ now \in Int
  BY BoundAssumption DEF Shape, FileStates
<1>b. \A i \in 1..Len(file.lines) : file.lines[i].serial \in Nat /\ file.lines[i].serial <= now
  BY <1>a, LineIs DEF OneFile
<1>1. CASE file2 = file
  BY <1>1, <1>a, <1>b DEF OneFile
<1>2. ASSUME NEW l \in Lines, Grown(file, file2, l) PROVE OneFile(file2, now)
  <2>1. /\ file2.exists /\ file2.inode = file.inode /\ file2.lines = Append(file.lines, l)
        /\ l.serial = clock + 1 /\ Len(file.lines) \in Nat /\ Len(file2.lines) = Len(file.lines) + 1
        /\ file2.lines[Len(file.lines) + 1] = l
        /\ \A i \in 1..Len(file.lines) : file2.lines[i] = file.lines[i]
    BY <1>2, GrownIs
  <2>2. now = clock + 1
    BY <1>2
  <2>3. Sorted(file2.lines)
    <3>1. \A i \in 1..Len(file.lines) : file.lines[i].serial < l.serial
      BY <2>1, <1>a, <1>b DEF OneFile
    <3> QED
      BY <3>1, <2>1, <1>a, AppendSorted DEF OneFile
  <2>4. \A i \in 1..Len(file2.lines) : file2.lines[i].serial <= now
    <3>1. \A i \in 1..Len(file2.lines) : i = Len(file.lines) + 1 \/ i \in 1..Len(file.lines)
      BY <2>1
    <3> QED
      BY <3>1, <2>1, <2>2, <1>a, <1>b
  <2> QED
    BY <2>1, <2>3, <2>4 DEF OneFile
<1>3. CASE Replaced(file, file2)
  <2>1. PICK m, g : Lost(file.lines, file2.lines, m, g)
    BY <1>3, ReplacedIs
  <2>2. file2.exists /\ file2.inode = file.inode + 1
    BY <1>3, ReplacedIs
  <2>3. /\ Len(file2.lines) = m /\ Sorted(file2.lines)
        /\ \A i \in 1..m : file2.lines[i] = file.lines[g[i]] /\ g[i] \in 1..Len(file.lines)
    BY <2>1, <1>a, ThinnedIs DEF OneFile, Lost
  <2> QED
    BY <2>2, <2>3, <1>a, <1>b DEF OneFile
<1>4. CASE Gone(file, file2)
  <2>1. ~file2.exists /\ file2.inode = file.inode /\ file2.lines = <<>> /\ Len(file2.lines) = 0
    BY <1>4, GoneIs
  <2> QED
    BY <2>1 DEF OneFile, Sorted
<1> QED
  BY <1>1, <1>2, <1>3, <1>4 DEF Changed

\* Cursors stay sound when the file changes.
LEMMA SoundKept ==
  ASSUME NEW file \in FileStates, OneFile(file, clock), NEW file2, Changed(file, file2),
         NEW c \in AnyCursors, Sound(c, file)
  PROVE  Sound(c, file2)
<1>a. /\ file.inode \in Nat /\ file.lines \in Seq(Lines) /\ Len(file.lines) \in Nat
      /\ c.inode \in Nat /\ c.offset \in Nat
  BY LenProperties DEF FileStates, AnyCursors
<1>1. CASE file2 = file
  BY <1>1
<1>2. ASSUME NEW l \in Lines, Grown(file, file2, l) PROVE Sound(c, file2)
  <2>1. /\ file.exists /\ file2.exists /\ file2.inode = file.inode /\ Len(file2.lines) = Len(file.lines) + 1
        /\ \A i \in 1..Len(file.lines) : file2.lines[i] = file.lines[i]
    BY <1>2, GrownIs
  <2>2. ASSUME NEW n \in 0..Len(file.lines), Covers(c.ids, file.lines, n) PROVE Covers(c.ids, file2.lines, n)
    <3>1. \A j \in 1..n : j \in 1..Len(file.lines)
      BY <1>a
    <3> QED
      BY <3>1, <2>1, <2>2 DEF Covers
  <2>3. c.inode = file.inode =>
          /\ c.offset <= Len(file2.lines) /\ Covers(c.ids, file2.lines, c.offset)
          /\ c.offset > 0 => (c.outside <=> file2.lines[c.offset].at = "out")
          /\ c.outside => c.offset > 0
    BY <2>1, <2>2, <1>a DEF Sound
  <2>4. c.outside => \E k \in 1..Len(file2.lines) : file2.lines[k].kind = "out" /\ Covers(c.ids, file2.lines, k - 1)
    <3> SUFFICES ASSUME c.outside
                 PROVE  \E k \in 1..Len(file2.lines) : file2.lines[k].kind = "out" /\ Covers(c.ids, file2.lines, k - 1)
      OBVIOUS
    <3>1. PICK k \in 1..Len(file.lines) : file.lines[k].kind = "out" /\ Covers(c.ids, file.lines, k - 1)
      BY <2>1 DEF Sound
    <3>2. k - 1 \in 0..Len(file.lines) /\ k \in 1..Len(file2.lines)
      BY <2>1, <1>a
    <3> QED
      BY <3>1, <3>2, <2>1, <2>2
  <2> QED
    BY <2>1, <2>3, <2>4, <1>a DEF Sound
<1>3. CASE Replaced(file, file2)
  <2>1. PICK m, g : Lost(file.lines, file2.lines, m, g)
    BY <1>3, ReplacedIs
  <2>2. file.exists /\ file2.exists /\ file2.inode = file.inode + 1
    BY <1>3, ReplacedIs
  <2>3. /\ Len(file2.lines) = m
        /\ \A i \in 1..m : file2.lines[i] = file.lines[g[i]] /\ g[i] \in 1..Len(file.lines)
        /\ \A i, j \in 1..m : g[i] < g[j] <=> i < j
    BY <2>1, <1>a, ThinnedIs DEF Lost
  <2>4. c.outside => \E k \in 1..Len(file2.lines) : file2.lines[k].kind = "out" /\ Covers(c.ids, file2.lines, k - 1)
    <3> SUFFICES ASSUME c.outside
                 PROVE  \E k \in 1..m : file2.lines[k].kind = "out" /\ Covers(c.ids, file2.lines, k - 1)
      BY <2>3
    <3>1. PICK k \in 1..Len(file.lines) : file.lines[k].kind = "out" /\ Covers(c.ids, file.lines, k - 1)
      BY <2>2 DEF Sound
    <3>2. PICK i \in 1..m : g[i] = k
      BY <2>1, <3>1 DEF Lost
    <3>3. \A j \in 1..(i - 1) : j \in 1..m /\ g[j] \in 1..(k - 1) /\ file2.lines[j] = file.lines[g[j]]
      BY <2>3, <3>2, <1>a
    <3> QED
      BY <2>3, <3>1, <3>2, <3>3 DEF Covers
  <2> QED
    BY <2>2, <2>4, <1>a DEF Sound
<1>4. CASE Gone(file, file2)
  <2>1. ~file2.exists /\ file2.inode = file.inode
    BY <1>4, GoneIs
  <2> QED
    BY <2>1 DEF Sound
<1> QED
  BY <1>1, <1>2, <1>3, <1>4 DEF Changed

\* What is safe stays safe.
LEMMA SafeKept ==
  ASSUME NEW file \in FileStates, NEW file2, clock \in Int, Changed(file, file2),
         NEW now, now = clock \/ now = clock + 1, NEW s \in Int, Safe(s, clock, file.lines)
  PROVE  Safe(s, now, file2.lines)
<1>a. file.lines \in Seq(Lines) /\ Len(file.lines) \in Nat /\ s <= now /\ s < clock + 1
  BY LenProperties DEF FileStates, Safe
<1>1. CASE file2 = file
  BY <1>1, <1>a DEF Safe
<1>2. ASSUME NEW l \in Lines, Grown(file, file2, l) PROVE Safe(s, now, file2.lines)
  <2>1. /\ Len(file2.lines) = Len(file.lines) + 1 /\ l.serial = clock + 1
        /\ file2.lines[Len(file.lines) + 1] = l
        /\ \A i \in 1..Len(file.lines) : file2.lines[i] = file.lines[i]
    BY <1>2, GrownIs
  <2>2. \A i \in 1..Len(file2.lines) : i = Len(file.lines) + 1 \/ i \in 1..Len(file.lines)
    BY <2>1, <1>a
  <2>3. ASSUME NEW i \in 1..Len(file2.lines), file2.lines[i].serial = s PROVE file2.lines[i].at = "in"
    <3>1. i # Len(file.lines) + 1
      BY <2>1, <2>3, <1>a
    <3>2. i \in 1..Len(file.lines)
      BY <3>1, <2>2
    <3>3. file2.lines[i] = file.lines[i]
      BY <3>2, <2>1
    <3> QED
      BY <3>2, <3>3, <2>3 DEF Safe
  <2> QED
    BY <2>3, <1>a DEF Safe
<1>3. CASE Replaced(file, file2)
  <2>1. PICK m, g : Lost(file.lines, file2.lines, m, g)
    BY <1>3, ReplacedIs
  <2>2. /\ Len(file2.lines) = m
        /\ \A i \in 1..m : file2.lines[i] = file.lines[g[i]] /\ g[i] \in 1..Len(file.lines)
    BY <2>1, <1>a, ThinnedIs DEF Lost
  <2> QED
    BY <2>2, <1>a DEF Safe
<1>4. CASE Gone(file, file2)
  <2>1. Len(file2.lines) = 0
    BY <1>4, GoneIs
  <2> QED
    BY <2>1, <1>a DEF Safe
<1> QED
  BY <1>1, <1>2, <1>3, <1>4 DEF Changed

\* Cursors still track the agent file when it changes, and when the main
\* file does.
LEMMA TracksKept ==
  ASSUME NEW file \in FileStates, NEW file2, NEW main \in FileStates, NEW main2, NEW c \in AnyCursors,
         Changed(file, file2), Changed(main, main2),
         file2.exists => main2.exists, OneFile(file, clock), Tracks(c, file, main.lines)
  PROVE  Tracks(c, file2, main2.lines)
<1>a. /\ file.inode \in Nat /\ file.lines \in Seq(Lines) /\ Len(file.lines) \in Nat
      /\ main.lines \in Seq(Lines) /\ Len(main.lines) \in Nat
      /\ c.inode \in Nat /\ c.offset \in Nat
  BY LenProperties DEF FileStates, AnyCursors
<1>1. ASSUME main2.exists, Calm(main2.lines, 1, Len(main2.lines)) PROVE Calm(main.lines, 1, Len(main.lines))
  <2>1. ASSUME NEW l \in Lines, Grown(main, main2, l) PROVE Calm(main.lines, 1, Len(main.lines))
    <3>1. /\ Len(main2.lines) = Len(main.lines) + 1
          /\ \A i \in 1..Len(main.lines) : main2.lines[i] = main.lines[i]
      BY <2>1, GrownIs
    <3>2. \A j \in 1..Len(main.lines) : j \in 1..Len(main2.lines)
      BY <3>1, <1>a
    <3> QED
      BY <3>1, <3>2, <1>1 DEF Calm
  <2>2. CASE Replaced(main, main2)
    <3>1. PICK m, g : Lost(main.lines, main2.lines, m, g)
      BY <2>2, ReplacedIs
    <3>2. Len(main2.lines) = m /\ \A i \in 1..m : main2.lines[i] = main.lines[g[i]]
      BY <3>1, <1>a, ThinnedIs DEF Lost
    <3>3. ASSUME NEW j \in 1..Len(main.lines), main.lines[j].kind # "say" PROVE FALSE
      BY <3>1, <3>2, <3>3, <1>1 DEF Calm, Lost
    <3> QED
      BY <3>3 DEF Calm
  <2>3. ~Gone(main, main2)
    BY <1>1, GoneIs
  <2> QED
    BY <2>1, <2>2, <2>3, <1>1 DEF Changed
<1>2. CASE file2 = file
  BY <1>1, <1>2 DEF Tracks
<1>3. ASSUME NEW l \in Lines, Grown(file, file2, l) PROVE Tracks(c, file2, main2.lines)
  <2>1. /\ file.exists /\ file2.exists /\ file2.inode = file.inode /\ Len(file2.lines) = Len(file.lines) + 1
        /\ \A i \in 1..Len(file.lines) : file2.lines[i] = file.lines[i]
    BY <1>3, GrownIs
  <2>2. c.inode = file.inode => \A j \in 1..c.offset : j \in 1..Len(file.lines)
    BY <2>1, <1>a DEF Tracks
  <2> QED
    BY <2>1, <2>2, <1>1, <1>a DEF Tracks
<1>4. CASE Replaced(file, file2)
  <2>1. file2.inode = file.inode + 1
    BY <1>4, ReplacedIs
  <2> QED
    BY <2>1, <1>a DEF Tracks
<1>5. CASE Gone(file, file2)
  <2>1. ~file2.exists /\ file2.inode = file.inode
    BY <1>5, GoneIs
  <2> QED
    BY <2>1 DEF Tracks
<1> QED
  BY <1>2, <1>3, <1>4, <1>5 DEF Changed

\* What the main file says of a time before, it still says.
LEMMA OutBeforeKept ==
  ASSUME NEW main \in FileStates, NEW main2, Changed(main, main2), main2.exists,
         NEW s \in Int, s <= clock, clock \in Int, OutBefore(main.lines, s)
  PROVE  OutBefore(main2.lines, s)
<1>a. main.lines \in Seq(Lines) /\ Len(main.lines) \in Nat
  BY LenProperties DEF FileStates
<1>b. PICK k \in 1..Len(main.lines) :
        /\ main.lines[k].kind = "out" /\ main.lines[k].serial < s
        /\ \A j \in (k + 1)..Len(main.lines) : main.lines[j].kind # "say" => main.lines[j].serial > s
  BY DEF OutBefore
<1>1. ASSUME NEW l \in Lines, Grown(main, main2, l) PROVE OutBefore(main2.lines, s)
  <2>1. /\ Len(main2.lines) = Len(main.lines) + 1 /\ l.serial = clock + 1
        /\ main2.lines[Len(main.lines) + 1] = l
        /\ \A i \in 1..Len(main.lines) : main2.lines[i] = main.lines[i]
    BY <1>1, GrownIs
  <2>2. k \in 1..Len(main2.lines) /\ main2.lines[k] = main.lines[k]
    BY <2>1, <1>a
  <2>3. \A j \in (k + 1)..Len(main2.lines) : j = Len(main.lines) + 1 \/ j \in (k + 1)..Len(main.lines)
    BY <2>1, <1>a
  <2>4. ASSUME NEW j \in (k + 1)..Len(main2.lines), main2.lines[j].kind # "say" PROVE main2.lines[j].serial > s
    <3>1. CASE j = Len(main.lines) + 1
      BY <3>1, <2>1
    <3>2. CASE j \in (k + 1)..Len(main.lines)
      <4>1. j \in 1..Len(main.lines)
        BY <3>2, <1>a
      <4> QED
        BY <4>1, <3>2, <2>1, <2>4, <1>b
    <3> QED
      BY <3>1, <3>2, <2>3
  <2> QED
    BY <2>2, <2>4, <1>b DEF OutBefore
<1>2. CASE Replaced(main, main2)
  <2>1. PICK m, g : Lost(main.lines, main2.lines, m, g)
    BY <1>2, ReplacedIs
  <2>2. /\ Len(main2.lines) = m
        /\ \A i \in 1..m : main2.lines[i] = main.lines[g[i]] /\ g[i] \in 1..Len(main.lines)
        /\ \A i, j \in 1..m : g[i] < g[j] <=> i < j
    BY <2>1, <1>a, ThinnedIs DEF Lost
  <2>3. PICK i \in 1..m : g[i] = k
    BY <2>1, <1>b DEF Lost
  <2>4. ASSUME NEW j \in (i + 1)..m, main2.lines[j].kind # "say" PROVE main2.lines[j].serial > s
    <3>1. j \in 1..m /\ i < j
      BY <2>4
    <3>2. g[j] \in (k + 1)..Len(main.lines)
      BY <3>1, <2>2, <2>3, <1>a
    <3> QED
      BY <3>1, <3>2, <2>2, <2>4, <1>b
  <2> QED
    BY <2>2, <2>3, <2>4, <1>b DEF OutBefore
<1>3. ~Gone(main, main2)
  BY GoneIs
<1> QED
  BY <1>1, <1>2, <1>3 DEF Changed

\* What a write does to each file.
LEMMA WriteChanges ==
  ASSUME Shape, FilesInv, Written
  PROVE  /\ Changed(disk["main"], disk'["main"]) /\ Changed(disk["agent"], disk'["agent"])
         /\ clock' = clock \/ clock' = clock + 1
         /\ disk'["agent"].exists => disk'["main"].exists
         /\ (\E l \in Lines : Grown(disk["main"], disk'["main"], l)) => clock' = clock + 1
         /\ (\E l \in Lines : Grown(disk["agent"], disk'["agent"], l)) => clock' = clock + 1
<1>a. disk["main"] \in FileStates /\ disk["agent"] \in FileStates /\ clock \in Int
  BY BoundAssumption DEF Shape, Files
<1>b. \A file \in FileStates : \A file2 : \A l \in Lines :
        Grown(file, file2, l) => file2 # file /\ ~Replaced(file, file2) /\ ~Gone(file, file2)
  <2> SUFFICES ASSUME NEW file \in FileStates, NEW file2, NEW l \in Lines, Grown(file, file2, l)
               PROVE  file2 # file /\ ~Replaced(file, file2) /\ ~Gone(file, file2)
    OBVIOUS
  <2>1. Len(file2.lines) = Len(file.lines) + 1 /\ Len(file.lines) \in Nat /\ file2.exists /\ file2.inode = file.inode
    BY GrownIs
  <2>2. file.inode \in Nat
    BY DEF FileStates
  <2> QED
    BY <2>1, <2>2, GoneIs, ReplacedIs
<1>1. CASE WroteMain
  <2>1. PICK l \in Lines : Grown(disk["main"], disk'["main"], l)
    BY <1>1 DEF WroteMain
  <2>2. disk["main"].exists /\ disk'["main"].exists
    BY <2>1, <1>a, GrownIs
  <2> QED
    BY <2>1, <2>2, <1>1, <1>a, <1>b DEF Changed, WroteMain
<1>2. CASE WroteAgent
  <2>1. PICK l \in Lines : Grown(disk["agent"], disk'["agent"], l)
    BY <1>2 DEF WroteAgent
  <2>2. disk["agent"].exists
    BY <2>1, <1>a, GrownIs
  <2> QED
    BY <2>1, <2>2, <1>2, <1>a, <1>b DEF Changed, FilesInv, WroteAgent
<1>3. CASE ReplacedMain
  <2>1. disk'["main"].exists
    BY <1>3, <1>a, ReplacedIs DEF ReplacedMain
  <2> QED
    BY <2>1, <1>3, <1>a, <1>b DEF Changed, ReplacedMain
<1>4. CASE ReplacedAgent
  <2>1. disk["agent"].exists
    BY <1>4, <1>a, ReplacedIs DEF ReplacedAgent
  <2> QED
    BY <2>1, <1>4, <1>a, <1>b DEF Changed, FilesInv, ReplacedAgent
<1>5. CASE OneGone
  <2>1. CASE Gone(disk["main"], disk'["main"]) /\ disk'["agent"] = disk["agent"] /\ ~disk["agent"].exists
    BY <2>1, <1>5, <1>a, <1>b DEF Changed, OneGone
  <2>2. CASE Gone(disk["agent"], disk'["agent"]) /\ disk'["main"] = disk["main"]
    <3>1. ~disk'["agent"].exists
      BY <2>2, <1>a, GoneIs
    <3> QED
      BY <3>1, <2>2, <1>5, <1>a, <1>b DEF Changed, OneGone
  <2> QED
    BY <2>1, <2>2, <1>5 DEF OneGone
<1> QED
  BY <1>1, <1>2, <1>3, <1>4, <1>5 DEF Written

\* The files stay as Claude Code writes them.
LEMMA FilesKept ==
  ASSUME Shape, FilesInv, Written, disk' \in [Files -> FileStates], place' \in {"in", "out"}, clock' \in 0..MaxLines
  PROVE  FilesInv'
<1> DEFINE main == disk["main"]
           main2 == disk'["main"]
           agent == disk["agent"]
           agent2 == disk'["agent"]
<1>a. /\ main \in FileStates /\ agent \in FileStates /\ main2 \in FileStates /\ agent2 \in FileStates
      /\ clock \in Int /\ main.lines \in Seq(Lines) /\ agent.lines \in Seq(Lines)
      /\ main2.lines \in Seq(Lines) /\ agent2.lines \in Seq(Lines)
      /\ Len(main.lines) \in Nat /\ Len(agent.lines) \in Nat /\ Len(main2.lines) \in Nat /\ Len(agent2.lines) \in Nat
  BY BoundAssumption, LenProperties DEF Shape, Files, FileStates
<1>b. /\ Changed(main, main2) /\ Changed(agent, agent2) /\ (clock' = clock \/ clock' = clock + 1)
      /\ agent2.exists => main2.exists
      /\ (\E l \in Lines : Grown(main, main2, l)) => clock' = clock + 1
      /\ (\E l \in Lines : Grown(agent, agent2, l)) => clock' = clock + 1
  BY WriteChanges
<1>c. /\ OneFile(main, clock) /\ OneFile(agent, clock) /\ (agent.exists => main.exists)
      /\ Trail(main.lines) /\ (main.exists => PlaceIs(main.lines, place))
      /\ Calm(agent.lines, 1, Len(agent.lines))
      /\ \A i \in 1..Len(agent.lines) : agent.lines[i].at = "out" => OutBefore(main.lines, agent.lines[i].serial)
  BY DEF FilesInv, MainLines, AgentLines, Files
<1>1. OneFile(main2, clock') /\ OneFile(agent2, clock')
  BY <1>a, <1>b, <1>c, OneFileKept
<1>2. Trail(main2.lines) /\ (main2.exists => PlaceIs(main2.lines, place'))
  <2>1. ASSUME main2 = main, place' = place
        PROVE  Trail(main2.lines) /\ (main2.exists => PlaceIs(main2.lines, place'))
    BY <2>1, <1>c
  <2>2. ASSUME NEW l \in Lines, Grown(main, main2, l),
               IF l.kind = "say" THEN l.at = place /\ place' = place
               ELSE l.at = l.kind /\ l.kind # place /\ place' = l.kind
        PROVE  Trail(main2.lines) /\ PlaceIs(main2.lines, place')
    <3>0. Grown(main, main2, l)
      BY <2>2
    <3>1. main.exists /\ main2.lines = Append(main.lines, l)
      BY <3>0, <1>a DEF Grown, FileStates
    <3> QED
      BY <3>1, <2>2, <1>a, <1>c, AppendTrail
  <2>3. ASSUME Replaced(main, main2), place' = place
        PROVE  Trail(main2.lines) /\ PlaceIs(main2.lines, place')
    <3>1. main.exists
      BY <2>3, <1>a, ReplacedIs
    <3>2. PICK m, g : Lost(main.lines, main2.lines, m, g)
      BY <2>3, <1>a, ReplacedIs
    <3> QED
      BY <3>1, <3>2, <2>3, <1>a, <1>c, ThinnedTrail DEF Lost
  <2>4. ASSUME Gone(main, main2)
        PROVE  Trail(main2.lines) /\ ~main2.exists
    <3>1. ~main2.exists /\ Len(main2.lines) = 0
      BY <2>4, <1>a, GoneIs
    <3> QED
      BY <3>1 DEF Trail
  <2>5. CASE WroteMain
    BY <2>2, <2>5 DEF WroteMain
  <2>6. CASE ReplacedMain
    BY <2>3, <2>6 DEF ReplacedMain
  <2>7. CASE WroteAgent \/ ReplacedAgent
    BY <2>1, <2>7 DEF WroteAgent, ReplacedAgent
  <2>8. CASE OneGone
    BY <2>1, <2>4, <2>8 DEF OneGone
  <2> QED
    BY <2>5, <2>6, <2>7, <2>8 DEF Written
<1>3. /\ Calm(agent2.lines, 1, Len(agent2.lines))
      /\ \A i \in 1..Len(agent2.lines) : agent2.lines[i].at = "out" => OutBefore(main2.lines, agent2.lines[i].serial)
  <2>0. ASSUME agent2.exists, NEW s \in Int, s <= clock, OutBefore(main.lines, s) PROVE OutBefore(main2.lines, s)
    BY <2>0, <1>a, <1>b, OutBeforeKept
  <2>a. \A i \in 1..Len(agent.lines) : agent.lines[i].serial \in Int /\ agent.lines[i].serial <= clock
    BY <1>a, <1>c, LineIs DEF OneFile
  <2>1. CASE agent2 = agent
    <3>1. \A i \in 1..Len(agent.lines) : agent.exists
      <4>1. ~agent.exists => Len(agent.lines) = 0
        BY <1>c, EmptySeq DEF OneFile
      <4> QED
        BY <4>1
    <3> QED
      BY <3>1, <2>1, <2>0, <2>a, <1>c
  <2>2. ASSUME NEW l \in Lines, Grown(agent, agent2, l), l.kind = "say", l.at = place, main2 = main
        PROVE  /\ Calm(agent2.lines, 1, Len(agent2.lines))
               /\ \A i \in 1..Len(agent2.lines) : agent2.lines[i].at = "out" => OutBefore(main2.lines, agent2.lines[i].serial)
    <3>1. /\ agent.exists /\ Len(agent2.lines) = Len(agent.lines) + 1 /\ l.serial = clock + 1
          /\ agent2.lines[Len(agent.lines) + 1] = l
          /\ \A i \in 1..Len(agent.lines) : agent2.lines[i] = agent.lines[i]
      <4>1. Grown(agent, agent2, l)
        BY <2>2
      <4> QED
        BY <4>1, <1>a, GrownIs
    <3>2. \A i \in 1..Len(agent2.lines) : i = Len(agent.lines) + 1 \/ i \in 1..Len(agent.lines)
      BY <3>1, <1>a
    <3>3. ASSUME place = "out" PROVE OutBefore(main.lines, clock + 1)
      <4>1. ~Calm(main.lines, 1, Len(main.lines)) /\ PlaceIs(main.lines, place)
        BY <3>1, <3>3, <1>c DEF PlaceIs
      <4>2. PICK k \in 1..Len(main.lines) : main.lines[k].kind # "say" /\ Calm(main.lines, k + 1, Len(main.lines))
        BY <4>1, <1>a, LastMove
      <4>3. main.lines[k].at = "out" /\ main.lines[k].at = main.lines[k].kind
        BY <4>1, <4>2, <3>3, <1>c DEF PlaceIs, Trail
      <4>4. main.lines[k].serial < clock + 1
        <5>1. main.lines[k].serial \in Int /\ main.lines[k].serial <= clock
          BY <1>a, <1>c, LineIs DEF OneFile
        <5> QED
          BY <5>1, <1>a
      <4> QED
        BY <4>2, <4>3, <4>4 DEF OutBefore, Calm
    <3>4. \A i \in 1..Len(agent2.lines) : agent2.lines[i].kind = "say"
      BY <3>1, <3>2, <2>2, <1>c DEF Calm
    <3>5. \A i \in 1..Len(agent2.lines) : agent2.lines[i].at = "out" => OutBefore(main2.lines, agent2.lines[i].serial)
      BY <3>1, <3>2, <3>3, <2>2, <1>c
    <3> QED
      BY <3>4, <3>5 DEF Calm
  <2>3. CASE Replaced(agent, agent2)
    <3>1. PICK m, g : Lost(agent.lines, agent2.lines, m, g)
      BY <2>3, <1>a, ReplacedIs
    <3>2. agent2.exists
      BY <2>3, <1>a, ReplacedIs
    <3>3. /\ Len(agent2.lines) = m
          /\ \A i \in 1..m : agent2.lines[i] = agent.lines[g[i]] /\ g[i] \in 1..Len(agent.lines)
      BY <3>1, <1>a, ThinnedIs DEF Lost
    <3>4. Calm(agent2.lines, 1, Len(agent2.lines))
      <4> SUFFICES ASSUME NEW i \in 1..m PROVE agent2.lines[i].kind = "say"
        BY <3>3 DEF Calm
      <4>1. agent2.lines[i] = agent.lines[g[i]] /\ g[i] \in 1..Len(agent.lines)
        BY <3>3
      <4> QED
        BY <4>1, <1>c DEF Calm
    <3>5. ASSUME NEW i \in 1..m, agent2.lines[i].at = "out" PROVE OutBefore(main2.lines, agent2.lines[i].serial)
      BY <3>2, <3>3, <3>5, <2>0, <2>a, <1>c
    <3> QED
      BY <3>3, <3>4, <3>5
  <2>4. CASE Gone(agent, agent2)
    <3>1. Len(agent2.lines) = 0
      BY <2>4, <1>a, GoneIs
    <3> QED
      BY <3>1 DEF Calm
  <2>5. CASE WroteAgent
    BY <2>2, <2>5 DEF WroteAgent
  <2>6. CASE ReplacedAgent
    BY <2>3, <2>6 DEF ReplacedAgent
  <2>7. CASE WroteMain \/ ReplacedMain
    BY <2>1, <2>7 DEF WroteMain, ReplacedMain
  <2>8. CASE OneGone
    BY <2>1, <2>4, <2>8 DEF OneGone
  <2> QED
    BY <2>5, <2>6, <2>7, <2>8 DEF Written
<1> QED
  BY <1>1, <1>2, <1>3, <1>b DEF FilesInv, MainLines, AgentLines, Files

\* A write keeps the invariant.
LEMMA WriteKeeps ==
  ASSUME SInv, Write
  PROVE  SInv'
<1>a. Shape /\ FilesInv /\ OutsideInv /\ SkipInv
  BY DEF SInv
<1>b. /\ Written /\ UNCHANGED reading
      /\ disk' \in [Files -> FileStates] /\ place' \in {"in", "out"} /\ clock' \in 0..MaxLines
  BY <1>a, WriteIs
<1>c. /\ entry' = entry /\ pc' = pc /\ path' = path /\ from' = from /\ seen' = seen /\ result' = result
      /\ stored' = stored /\ shadowed' = shadowed
  BY <1>b DEF reading, round
<1>d. /\ Changed(disk["main"], disk'["main"]) /\ Changed(disk["agent"], disk'["agent"])
      /\ (clock' = clock \/ clock' = clock + 1) /\ (disk'["agent"].exists => disk'["main"].exists)
  BY <1>a, <1>b, WriteChanges
<1>e. /\ disk["main"] \in FileStates /\ disk["agent"] \in FileStates /\ clock \in Int
      /\ OneFile(disk["main"], clock) /\ OneFile(disk["agent"], clock)
      /\ \A f \in Files : entry[f] \in AnyCursors
      /\ \A r \in Readers : /\ result[r].cursor \in AnyCursors /\ result[r].kept \in SUBSET Serials
                            /\ from[r] \in AnyCursors
      /\ Files = {"main", "agent"} /\ \A s \in Serials : s \in Int
  BY <1>a, BoundAssumption DEF Shape, FilesInv, Files, Results, Serials
<1>1. Shape'
  BY <1>a, <1>b, <1>c DEF Shape
<1>2. FilesInv'
  BY <1>a, <1>b, FilesKept
<1>3. \A c \in AnyCursors : Sound(c, disk["main"]) => Sound(c, disk'["main"])
  BY <1>d, <1>e, SoundKept
<1>4. \A s \in Int : Safe(s, clock, disk["main"].lines) => Safe(s, clock', disk'["main"].lines)
  BY <1>d, <1>e, SafeKept
<1>5. \A c \in AnyCursors : Tracks(c, disk["agent"], disk["main"].lines) => Tracks(c, disk'["agent"], disk'["main"].lines)
  BY <1>d, <1>e, TracksKept
<1>6. OutsideInv'
  <2>1. Kept("main")' = Kept("main") /\ Kept("main") \subseteq Serials
    BY <1>a, <1>c DEF Kept, Shape, Records
  <2>2. Sound(entry'["main"], disk'["main"])
    BY <1>3, <1>a, <1>c, <1>e DEF OutsideInv
  <2>3. \A s \in Kept("main") : Safe(s, clock', disk'["main"].lines)
    BY <2>1, <1>4, <1>a, <1>e DEF OutsideInv, MainLines
  <2>4. ASSUME NEW r \in Readers, Pending(r, "main")
        PROVE  /\ Sound(result[r].cursor, disk'["main"])
               /\ \A s \in result[r].kept : Safe(s, clock', disk'["main"].lines)
    BY <2>4, <1>3, <1>4, <1>a, <1>e DEF OutsideInv, MainLines
  <2> QED
    BY <2>1, <2>2, <2>3, <2>4, <1>c DEF OutsideInv, MainLines, Pending
<1>7. SkipInv'
  <2>1. \A f \in Files : Sent(f)' = Sent(f)
    BY <1>c DEF Sent, Kept
  <2>2. ASSUME NEW r \in Readers, pc[r] = "scan" PROVE Observed(r)'
    <3>1. Observed(r)
      BY <2>2, <1>a DEF SkipInv
    <3>2. Tracks(from[r], disk'["agent"], disk'["main"].lines)
      BY <3>1, <1>5, <1>e DEF Observed, MainLines
    <3>3. ASSUME seen[r].exists, disk'["agent"].exists PROVE seen[r].inode = disk'["agent"].inode
      <4>1. disk["agent"].exists /\ disk'["agent"].inode = disk["agent"].inode
        <5>1. CASE WroteMain \/ ReplacedMain
          BY <5>1, <3>3 DEF WroteMain, ReplacedMain
        <5>2. CASE WroteAgent
          BY <5>2, <1>e, GrownIs DEF WroteAgent
        <5>3. ~ReplacedAgent
          BY <3>1, <3>3 DEF Observed, ReplacedAgent
        <5>4. CASE OneGone
          <6>1. ~Gone(disk["agent"], disk'["agent"])
            BY <3>3, <1>e, GoneIs
          <6> QED
            BY <6>1, <5>4, <3>3 DEF OneGone
        <5> QED
          BY <5>1, <5>2, <5>3, <5>4, <1>b DEF Written
      <4> QED
        BY <4>1, <3>1, <3>3 DEF Observed
    <3> QED
      BY <3>1, <3>2, <3>3, <2>1, <1>c, <1>e DEF Observed, MainLines
  <2>3. Tracks(entry["agent"], disk'["agent"], disk'["main"].lines)
    BY <1>5, <1>a, <1>e DEF SkipInv, MainLines
  <2>4. ASSUME NEW r \in Readers, Pending(r, "agent")
        PROVE  Tracks(result[r].cursor, disk'["agent"], disk'["main"].lines)
    BY <2>4, <1>5, <1>a, <1>e DEF SkipInv, MainLines
  <2>5. \A r \in Readers : path[r] \in Files
    BY <1>a DEF Shape
  <2>6. /\ \A f \in Files : entry[f].ids \subseteq Sent(f)
        /\ \A r \in Readers : /\ pc[r] = "store" => result[r].cursor.ids \subseteq Sent(path[r]) \cup result[r].kept
                              /\ pc[r] = "commit" => result[r].cursor.ids \subseteq Sent(path[r])
    BY <1>a DEF SkipInv
  <2>7. \A f \in Files : entry'[f].ids \subseteq Sent(f)'
    BY <2>1, <2>6, <1>c
  <2>8. \A r \in Readers : /\ pc'[r] = "store" => result'[r].cursor.ids \subseteq Sent(path[r])' \cup result'[r].kept
                           /\ pc'[r] = "commit" => result'[r].cursor.ids \subseteq Sent(path[r])'
    <3>1. \A r \in Readers : Sent(path[r])' = Sent(path[r])
      BY <1>c DEF Sent, Kept
    <3> QED
      BY <3>1, <2>6, <1>c
  <2> QED
    BY <2>2, <2>3, <2>4, <2>7, <2>8, <1>c DEF SkipInv, MainLines, Pending
<1> QED
  BY <1>1, <1>2, <1>6, <1>7 DEF SInv

-----------------------------------------------------------------------------
(* Steps of readers.                                                        *)

\* Where the files are left alone, so is what holds of them.
LEMMA FilesAlone ==
  ASSUME FilesInv, UNCHANGED session
  PROVE  FilesInv'
  BY DEF session, FilesInv, MainLines, AgentLines, OneFile

\* A step that stores nothing, writes no cursor, and takes no round on.
Settled(r) ==
  /\ UNCHANGED <<session, stored, shadowed>>
  /\ \A f \in Files : \/ entry'[f] = entry[f]
                      \/ entry'[f] = [entry[f] EXCEPT !.reg = FALSE]
  /\ \A q \in Readers : pc'[q] \in {"scan", "store", "commit"} =>
       /\ pc'[q] = pc[q] /\ path'[q] = path[q] /\ from'[q] = from[q]
       /\ seen'[q] = seen[q] /\ result'[q] = result[q]

LEMMA SettledKeeps ==
  ASSUME SInv, Shape', NEW r, Settled(r)
  PROVE  SInv'
<1>a. Shape /\ FilesInv /\ OutsideInv /\ SkipInv /\ UNCHANGED session /\ stored' = stored /\ shadowed' = shadowed
  BY DEF SInv, Settled
<1>b. disk' = disk /\ clock' = clock /\ MainLines' = MainLines
  BY <1>a DEF session, MainLines
<1>c. Files = {"main", "agent"}
  BY DEF Files
<1>d. \A f \in Files : /\ entry'[f].inode = entry[f].inode /\ entry'[f].offset = entry[f].offset
                       /\ entry'[f].ids = entry[f].ids /\ entry'[f].before = entry[f].before
                       /\ entry'[f].outside = entry[f].outside
  <2> SUFFICES ASSUME NEW f \in Files, entry'[f] = [entry[f] EXCEPT !.reg = FALSE]
               PROVE  /\ entry'[f].inode = entry[f].inode /\ entry'[f].offset = entry[f].offset
                      /\ entry'[f].ids = entry[f].ids /\ entry'[f].before = entry[f].before
                      /\ entry'[f].outside = entry[f].outside
    BY DEF Settled
  <2>1. entry[f] \in AnyCursors
    BY <1>a DEF Shape
  <2> QED
    BY <2>1 DEF AnyCursors
<1>e. \A f : Kept(f)' = Kept(f) /\ Sent(f)' = Sent(f)
  BY <1>a DEF Kept, Sent
<1>f. \A q \in Readers : pc'[q] \in {"scan", "store", "commit"} =>
       /\ pc'[q] = pc[q] /\ path'[q] = path[q] /\ from'[q] = from[q]
       /\ seen'[q] = seen[q] /\ result'[q] = result[q]
  BY DEF Settled
<1>1. FilesInv'
  BY <1>a, FilesAlone
<1>2. OutsideInv'
  <2>1. Sound(entry'["main"], disk["main"])
    BY <1>a, <1>c, <1>d DEF OutsideInv, Sound
  <2>2. \A s \in Kept("main") : Safe(s, clock, MainLines)
    BY <1>a DEF OutsideInv
  <2>3. ASSUME NEW q \in Readers, Pending(q, "main")'
        PROVE  /\ Sound(result'[q].cursor, disk["main"])
               /\ \A s \in result'[q].kept : Safe(s, clock, MainLines)
    BY <2>3, <1>a, <1>f DEF OutsideInv, Pending
  <2> QED
    BY <2>1, <2>2, <2>3, <1>b, <1>e DEF OutsideInv
<1>3. SkipInv'
  <2>1. \A f \in Files : entry'[f].ids \subseteq Sent(f)'
    BY <1>a, <1>d, <1>e DEF SkipInv
  <2>2. Tracks(entry'["agent"], disk'["agent"], MainLines')
    BY <1>a, <1>b, <1>c, <1>d DEF SkipInv, Tracks
  <2>3. ASSUME NEW q \in Readers, pc'[q] = "scan" PROVE Observed(q)'
    <3>1. Observed(q) /\ path'[q] = path[q] /\ from'[q] = from[q] /\ seen'[q] = seen[q]
      BY <2>3, <1>a, <1>f DEF SkipInv
    <3> QED
      BY <3>1, <1>b, <1>e DEF Observed
  <2>4. ASSUME NEW q \in Readers, Pending(q, "agent")' PROVE Tracks(result'[q].cursor, disk'["agent"], MainLines')
    BY <2>4, <1>a, <1>b, <1>f DEF SkipInv, Pending
  <2>5. ASSUME NEW q \in Readers, path'[q] = path[q] PROVE Sent(path[q])' = Sent(path[q])
    BY <2>5, <1>a DEF Sent, Kept
  <2>6. ASSUME NEW q \in Readers
        PROVE  /\ pc'[q] = "store" => result'[q].cursor.ids \subseteq Sent(path[q])' \cup result'[q].kept
               /\ pc'[q] = "commit" => result'[q].cursor.ids \subseteq Sent(path[q])'
    <3>1. /\ pc[q] = "store" => result[q].cursor.ids \subseteq Sent(path[q]) \cup result[q].kept
          /\ pc[q] = "commit" => result[q].cursor.ids \subseteq Sent(path[q])
      BY <1>a DEF SkipInv
    <3> QED
      BY <3>1, <2>5, <1>f
  <2> QED
    BY <2>1, <2>2, <2>3, <2>4, <2>6 DEF SkipInv
<1> QED
  BY <1>1, <1>2, <1>3 DEF SInv

\* The steps that take no round on.
LEMMA ComeKeeps ==
  ASSUME SInv, NEW r \in Readers, NEW f \in Files, Come(r, f) \/ GiveUp(r, f)
  PROVE  SInv' /\ Settled(r)
<1>a. Shape /\ pc \in [Readers -> Stages] /\ path \in [Readers -> Files]
  BY DEF SInv, Shape
<1>1. CASE Come(r, f)
  <2>1. /\ UNCHANGED <<session, entry, from, seen, result, stored, shadowed>>
        /\ pc' = [pc EXCEPT ![r] = "observe"] /\ path' = [path EXCEPT ![r] = f]
    BY <1>1 DEF Come, Goto
  <2>2. Shape'
    BY <2>1, <1>a DEF Shape, session, Stages
  <2>3. Settled(r)
    BY <2>1, <1>a DEF Settled
  <2> QED
    BY <2>2, <2>3, SettledKeeps
<1>2. CASE GiveUp(r, f)
  <2>1. /\ UNCHANGED <<session, entry, from, seen, result, stored, shadowed>>
        /\ pc' = [pc EXCEPT ![r] = "idle"] /\ path' = [path EXCEPT ![r] = "main"]
    BY <1>2 DEF GiveUp, Goto
  <2>2. Shape'
    BY <2>1, <1>a DEF Shape, session, Stages, Files
  <2>3. Settled(r)
    BY <2>1, <1>a DEF Settled
  <2> QED
    BY <2>2, <2>3, SettledKeeps
<1> QED
  BY <1>1, <1>2

LEMMA StopKeeps ==
  ASSUME SInv, NEW r \in Readers, Refused(r) \/ DropEntry(r) \/ Fail(r)
  PROVE  SInv' /\ Settled(r)
<1>a. Shape /\ pc \in [Readers -> Stages] /\ path \in [Readers -> Files]
  BY DEF SInv, Shape
<1>1. CASE Refused(r)
  <2>1. /\ UNCHANGED <<session, entry, path, from, seen, result, stored, shadowed>>
        /\ pc' = [pc EXCEPT ![r] = "held"]
    BY <1>1 DEF Refused, Goto
  <2>2. Shape'
    BY <2>1, <1>a DEF Shape, session, Stages, Ends
  <2>3. Settled(r)
    BY <2>1, <1>a DEF Settled
  <2> QED
    BY <2>2, <2>3, SettledKeeps
<1>2. CASE DropEntry(r)
  <2>1. /\ UNCHANGED <<session, path, from, seen, result, stored, shadowed>>
        /\ pc' = [pc EXCEPT ![r] = "ended"] /\ entry' = [entry EXCEPT ![path[r]].reg = FALSE]
    BY <1>2 DEF DropEntry, Goto
  <2>2. entry \in [Files -> AnyCursors] /\ path[r] \in Files
    BY <1>a DEF Shape
  <2>3. \A h \in Files : entry'[h] = entry[h] \/ entry'[h] = [entry[h] EXCEPT !.reg = FALSE]
    BY <2>1, <2>2
  <2>4. entry' \in [Files -> AnyCursors]
    <3>1. [entry[path[r]] EXCEPT !.reg = FALSE] \in AnyCursors
      BY <2>2 DEF AnyCursors
    <3> QED
      BY <3>1, <2>1, <2>2
  <2>5. Shape'
    BY <2>1, <2>4, <1>a DEF Shape, session, Stages, Ends
  <2>6. Settled(r)
    BY <2>1, <2>3, <1>a DEF Settled
  <2> QED
    BY <2>5, <2>6, SettledKeeps
<1>3. CASE Fail(r)
  <2>1. /\ UNCHANGED <<session, entry, path, from, result, stored, shadowed>>
        /\ pc' = [pc EXCEPT ![r] = IF pc[r] = "vanished" THEN "ended" ELSE "failed"]
        /\ seen' = [seen EXCEPT ![r] = NoSight]
    BY <1>3 DEF Fail, Goto
  <2>2. NoSight \in Sights
    BY DEF NoSight, Sights
  <2>3. Shape'
    BY <2>1, <2>2, <1>a DEF Shape, session, Stages, Ends
  <2>4. Settled(r)
    BY <2>1, <1>a DEF Settled
  <2> QED
    BY <2>3, <2>4, SettledKeeps
<1> QED
  BY <1>1, <1>2, <1>3

LEMMA LeaveKeeps ==
  ASSUME SInv, NEW r \in Readers, Unlock(r) \/ Crash(ProcessOf[r])
  PROVE  SInv' /\ Settled(r)
<1>a. /\ Shape /\ pc \in [Readers -> Stages] /\ path \in [Readers -> Files]
      /\ from \in [Readers -> AnyCursors] /\ seen \in [Readers -> Sights] /\ result \in [Readers -> Results]
  BY DEF SInv, Shape
<1>b. NoSight \in Sights /\ NewCursor \in AnyCursors /\ NoResult \in Results
  BY DEF NoSight, Sights, NewCursor, AnyCursors, NoResult, Results
<1>1. ASSUME NEW rs \in SUBSET Readers, Forgotten(rs), UNCHANGED <<session, entry, stored, shadowed>>,
             pc' \in [Readers -> Stages], path' \in [Readers -> Files],
             \A q \in Readers \ rs : pc'[q] = pc[q] /\ path'[q] = path[q],
             \A q \in rs : pc'[q] \in {"idle", "again"}
      PROVE  SInv' /\ Settled(r)
  <2>1. /\ from' = [q \in Readers |-> IF q \in rs THEN NewCursor ELSE from[q]]
        /\ seen' = [q \in Readers |-> IF q \in rs THEN NoSight ELSE seen[q]]
        /\ result' = [q \in Readers |-> IF q \in rs THEN NoResult ELSE result[q]]
    BY <1>1 DEF Forgotten
  <2>2. /\ from' \in [Readers -> AnyCursors] /\ seen' \in [Readers -> Sights] /\ result' \in [Readers -> Results]
    BY <2>1, <1>a, <1>b
  <2>3. Shape'
    BY <2>2, <1>1, <1>a DEF Shape, session
  <2>4. Settled(r)
    BY <2>1, <1>1 DEF Settled
  <2> QED
    BY <2>3, <2>4, SettledKeeps
<1>2. CASE Unlock(r)
  <2>1. Forgotten({r}) /\ UNCHANGED <<session, entry, stored, shadowed>>
    BY <1>2 DEF Unlock
  <2>2. \/ pc' = [pc EXCEPT ![r] = "again"] /\ path' = path
        \/ pc' = [pc EXCEPT ![r] = "idle"] /\ path' = [path EXCEPT ![r] = "main"]
    BY <1>2 DEF Unlock, Goto
  <2>3. pc' \in [Readers -> Stages] /\ path' \in [Readers -> Files]
    BY <2>2, <1>a DEF Stages, Files
  <2>4. /\ \A q \in Readers \ {r} : pc'[q] = pc[q] /\ path'[q] = path[q]
        /\ \A q \in {r} : pc'[q] \in {"idle", "again"}
    BY <2>2, <1>a
  <2> QED
    BY <2>1, <2>3, <2>4, <1>1
<1>3. CASE Crash(ProcessOf[r])
  <2> DEFINE dead == {q \in Readers : ProcessOf[q] = ProcessOf[r]}
  <2>1. /\ Forgotten(dead) /\ UNCHANGED <<session, entry, stored, shadowed>>
        /\ pc' = [q \in Readers |-> IF q \in dead THEN "idle" ELSE pc[q]]
        /\ path' = [q \in Readers |-> IF q \in dead THEN "main" ELSE path[q]]
    BY <1>3 DEF Crash
  <2>2. dead \in SUBSET Readers
    OBVIOUS
  <2> HIDE DEF dead
  <2>3. pc' \in [Readers -> Stages] /\ path' \in [Readers -> Files]
    BY <2>1, <1>a DEF Stages, Files
  <2>4. /\ \A q \in Readers \ dead : pc'[q] = pc[q] /\ path'[q] = path[q]
        /\ \A q \in dead : pc'[q] \in {"idle", "again"}
    BY <2>1, <2>2
  <2> QED
    BY <2>1, <2>2, <2>3, <2>4, <1>1
<1> QED
  BY <1>2, <1>3

\* A step that takes the round of r on, and what is to hold of it then.
LEMMA RoundKeeps ==
  ASSUME SInv, Shape', NEW r \in Readers,
         UNCHANGED <<session, entry, path, stored, shadowed>>,
         \A q \in Readers \ {r} :
           pc'[q] = pc[q] /\ from'[q] = from[q] /\ seen'[q] = seen[q] /\ result'[q] = result[q],
         pc'[r] \in {"store", "commit"} /\ path[r] = "main" =>
           /\ Sound(result'[r].cursor, disk["main"])
           /\ \A s \in result'[r].kept : Safe(s, clock, MainLines),
         pc'[r] \in {"store", "commit"} /\ path[r] = "agent" =>
           Tracks(result'[r].cursor, disk["agent"], MainLines),
         pc'[r] = "scan" =>
           /\ path[r] = "agent" /\ Tracks(from'[r], disk["agent"], MainLines)
           /\ from'[r].ids \subseteq Sent("agent")
           /\ seen'[r].exists /\ disk["agent"].exists => seen'[r].inode = disk["agent"].inode,
         pc'[r] = "store" => result'[r].cursor.ids \subseteq Sent(path[r]) \cup result'[r].kept,
         pc'[r] = "commit" => result'[r].cursor.ids \subseteq Sent(path[r])
  PROVE  SInv'
<1>a. /\ Shape /\ FilesInv /\ OutsideInv /\ SkipInv /\ UNCHANGED session /\ stored' = stored /\ shadowed' = shadowed
      /\ entry' = entry /\ path' = path
  BY DEF SInv
<1>b. disk' = disk /\ clock' = clock /\ MainLines' = MainLines
  BY <1>a DEF session, MainLines
<1>e. \A f : Kept(f)' = Kept(f) /\ Sent(f)' = Sent(f)
  BY <1>a DEF Kept, Sent
<1>1. FilesInv'
  BY <1>a, FilesAlone
<1>2. OutsideInv'
  <2>1. Sound(entry["main"], disk["main"]) /\ \A s \in Kept("main") : Safe(s, clock, MainLines)
    BY <1>a DEF OutsideInv
  <2>2. ASSUME NEW q \in Readers, Pending(q, "main")'
        PROVE  /\ Sound(result'[q].cursor, disk["main"])
               /\ \A s \in result'[q].kept : Safe(s, clock, MainLines)
    <3>1. CASE q = r
      BY <3>1, <2>2, <1>a DEF Pending
    <3>2. CASE q # r
      BY <3>2, <2>2, <1>a DEF Pending, OutsideInv
    <3> QED
      BY <3>1, <3>2
  <2> QED
    BY <2>1, <2>2, <1>a, <1>b, <1>e DEF OutsideInv
<1>3. SkipInv'
  <2>1. (\A f \in Files : entry'[f].ids \subseteq Sent(f)') /\ Tracks(entry'["agent"], disk'["agent"], MainLines')
    BY <1>a, <1>b, <1>e DEF SkipInv
  <2>2. ASSUME NEW q \in Readers, pc'[q] = "scan" PROVE Observed(q)'
    <3>1. CASE q = r
      BY <3>1, <2>2, <1>a, <1>b, <1>e DEF Observed
    <3>2. CASE q # r
      <4>1. Observed(q) /\ from'[q] = from[q] /\ seen'[q] = seen[q]
        BY <3>2, <2>2, <1>a DEF SkipInv
      <4> QED
        BY <4>1, <1>a, <1>b, <1>e DEF Observed
    <3> QED
      BY <3>1, <3>2
  <2>3. ASSUME NEW q \in Readers, Pending(q, "agent")' PROVE Tracks(result'[q].cursor, disk'["agent"], MainLines')
    <3>1. CASE q = r
      BY <3>1, <2>3, <1>a, <1>b DEF Pending
    <3>2. CASE q # r
      BY <3>2, <2>3, <1>a, <1>b DEF Pending, SkipInv
    <3> QED
      BY <3>1, <3>2
  <2>4. ASSUME NEW q \in Readers
        PROVE  /\ pc'[q] = "store" => result'[q].cursor.ids \subseteq Sent(path[q])' \cup result'[q].kept
               /\ pc'[q] = "commit" => result'[q].cursor.ids \subseteq Sent(path[q])'
    <3>0. Sent(path[q])' = Sent(path[q])
      BY <1>a DEF Sent, Kept
    <3>1. CASE q = r
      BY <3>0, <3>1
    <3>2. CASE q # r
      BY <3>0, <3>2, <1>a DEF SkipInv
    <3> QED
      BY <3>1, <3>2
  <2> QED
    BY <2>1, <2>2, <2>3, <2>4 DEF SkipInv
<1> QED
  BY <1>1, <1>2, <1>3 DEF SInv

\* What was kept of a main file is safe.
LEMMA KeptSafe ==
  ASSUME Shape, FilesInv, NEW s, NEW j \in 1..Len(MainLines), MainLines[j].serial = s, MainLines[j].at = "in"
  PROVE  Safe(s, clock, MainLines)
<1>1. MainLines \in Seq(Lines) /\ Sorted(MainLines) /\ s <= clock
  BY DEF Shape, FilesInv, MainLines, Files, FileStates, OneFile
<1>2. ASSUME NEW i \in 1..Len(MainLines), MainLines[i].serial = s PROVE i = j
  <2>1. Len(MainLines) \in Nat /\ MainLines[i].serial \in Nat /\ MainLines[j].serial \in Nat
    BY <1>1, LineIs
  <2>2. ~(i < j) /\ ~(j < i)
    BY <2>1, <1>1, <1>2 DEF Sorted
  <2> QED
    BY <2>1, <2>2
<1> QED
  BY <1>1, <1>2 DEF Safe

\* A round that reads finds what it keeps and where it stops.
LEMMA ObserveKeeps ==
  ASSUME SInv, NEW r \in Readers, Observe(r)
  PROVE  SInv'
<1> DEFINE f == path[r]
<1>a. /\ Shape /\ FilesInv /\ OutsideInv /\ SkipInv
      /\ disk \in [Files -> FileStates] /\ entry \in [Files -> AnyCursors]
      /\ pc \in [Readers -> Stages] /\ path \in [Readers -> Files]
      /\ from \in [Readers -> AnyCursors] /\ seen \in [Readers -> Sights] /\ result \in [Readers -> Results]
      /\ f \in Files
  BY DEF SInv, Shape
<1>b. /\ pc[r] = "observe" /\ UNCHANGED <<session, entry, path, stored, shadowed>>
      /\ from' = [from EXCEPT ![r] = entry[f]]
  BY DEF Observe
<1>c. Sight(f) \in Sights
  BY <1>a, LenProperties DEF Sight, Sights, FileStates
<1>d. from' \in [Readers -> AnyCursors]
  BY <1>a, <1>b
<1>1. CASE pc' = [pc EXCEPT ![r] = "failed"] /\ UNCHANGED <<seen, result>>
  <2>1. Shape'
    BY <1>1, <1>a, <1>b, <1>d DEF Shape, session, Stages, Ends
  <2>2. Settled(r)
    BY <1>1, <1>a, <1>b DEF Settled
  <2> QED
    BY <2>1, <2>2, SettledKeeps
<1>2. CASE f = "main" /\ Consume(r, f, Sight(f), entry[f], FALSE) /\ seen' = seen
  <2>1. CASE pc' = [pc EXCEPT ![r] = "vanished"] /\ result' = result
    <3>1. Shape'
      BY <2>1, <1>2, <1>a, <1>b, <1>d DEF Shape, session, Stages
    <3>2. Settled(r)
      BY <2>1, <1>2, <1>a, <1>b DEF Settled
    <3> QED
      BY <3>1, <3>2, SettledKeeps
  <2>2. CASE ~(pc' = [pc EXCEPT ![r] = "vanished"] /\ result' = result)
    <3> DEFINE res == ReadLines(entry["main"], Sight("main"), disk["main"].lines, FALSE)
    <3>1. /\ disk["main"].exists /\ result' = [result EXCEPT ![r] = res]
          /\ pc' = [pc EXCEPT ![r] = IF res.kept = {} THEN "commit" ELSE "store"]
      BY <2>2, <1>2 DEF Consume, Goto
    <3>2. /\ res \in Results /\ Sound(res.cursor, disk["main"])
          /\ \A s \in res.kept : \E j \in 1..Len(MainLines) :
               MainLines[j].serial = s /\ MainLines[j].kind = "say" /\ MainLines[j].at = "in"
          /\ res.cursor.ids = entry[f].ids \cup res.kept
      <4>1. /\ disk["main"].inode \in Nat /\ disk["main"].inode >= 1 /\ disk["main"].lines \in Seq(Lines)
            /\ Sorted(disk["main"].lines) /\ Trail(disk["main"].lines)
            /\ entry["main"] \in AnyCursors /\ Sound(entry["main"], disk["main"])
        BY <1>a DEF FilesInv, OutsideInv, OneFile, FileStates, Files, MainLines
      <4>2. Sight("main").inode = disk["main"].inode /\ Sight("main").size = Len(disk["main"].lines)
        BY DEF Sight
      <4>3. Sight("main") \in Sights
        BY <1>2, <1>c
      <4>4. MainRead(res, entry["main"], disk["main"])
        BY <4>1, <4>2, <4>3, <3>1, ReadMain
      <4> HIDE DEF res
      <4> QED
        BY <4>4, <1>2 DEF MainRead, MainLines
    <3> HIDE DEF res
    <3>3. result' \in [Readers -> Results] /\ pc' \in [Readers -> Stages] /\ result'[r] = res
          /\ pc'[r] = (IF res.kept = {} THEN "commit" ELSE "store")
      BY <3>1, <3>2, <1>a DEF Stages
    <3>4. Shape'
      BY <3>3, <1>2, <1>a, <1>b, <1>d DEF Shape, session
    <3>5. \A s \in res.kept : Safe(s, clock, MainLines)
      BY <3>2, <1>a, KeptSafe
    <3>6. entry[f].ids \subseteq Sent(f)
      BY <1>a DEF SkipInv
    <3>7. \A q \in Readers \ {r} :
            pc'[q] = pc[q] /\ from'[q] = from[q] /\ seen'[q] = seen[q] /\ result'[q] = result[q]
      BY <3>1, <1>2, <1>a, <1>b
    <3> QED
      BY <3>2, <3>3, <3>4, <3>5, <3>6, <3>7, <1>2, <1>b, RoundKeeps
  <2> QED
    BY <2>1, <2>2
<1>3. CASE f = "agent" /\ seen' = [seen EXCEPT ![r] = Sight(f)] /\ pc' = [pc EXCEPT ![r] = "scan"] /\ result' = result
  <2>1. Shape'
    BY <1>3, <1>a, <1>b, <1>c, <1>d DEF Shape, session, Stages
  <2>2. \A q \in Readers \ {r} :
          pc'[q] = pc[q] /\ from'[q] = from[q] /\ seen'[q] = seen[q] /\ result'[q] = result[q]
    BY <1>3, <1>a, <1>b
  <2>3. pc'[r] = "scan" /\ from'[r] = entry["agent"] /\ seen'[r] = Sight("agent")
    BY <1>3, <1>a, <1>b
  <2>4. Tracks(entry["agent"], disk["agent"], MainLines) /\ entry["agent"].ids \subseteq Sent("agent")
    BY <1>3, <1>a DEF SkipInv
  <2>5. Sight("agent").inode = disk["agent"].inode
    BY DEF Sight
  <2> QED
    BY <2>1, <2>2, <2>3, <2>4, <2>5, <1>3, <1>b, RoundKeeps
<1> QED
  BY <1>1, <1>2, <1>3 DEF Observe, Goto

\* The main file is asked whether the session is outside.
LEMMA WasOutsideIs == SessionWasOutside \in BOOLEAN
  BY DEF SessionWasOutside

\* A session that never moved is not outside.
LEMMA NeverMoved ==
  ASSUME SInv, disk["main"].exists, Calm(MainLines, 1, Len(MainLines))
  PROVE  ~SessionWasOutside
<1>a. Shape /\ OutsideInv
  BY DEF SInv
<1>1. ~entry["main"].outside
  BY <1>a DEF OutsideInv, Sound, Calm, MainLines
<1>2. entry["main"].offset \in Nat
  BY <1>a DEF Shape, Files, AnyCursors
<1>3. ASSUME NEW start \in Nat, NEW i \in (start + 1)..Len(disk["main"].lines) PROVE disk["main"].lines[i].kind = "say"
  <2>1. Len(disk["main"].lines) \in Nat
    BY <1>a, LenProperties DEF Shape, FileStates, Files
  <2>2. i \in 1..Len(disk["main"].lines)
    BY <2>1
  <2> QED
    BY <2>2 DEF Calm, MainLines
<1> QED
  BY <1>1, <1>2, <1>3 DEF SessionWasOutside

LEMMA ScanKeeps ==
  ASSUME SInv, NEW r \in Readers, Scan(r)
  PROVE  SInv'
<1> DEFINE lines == AgentLines
           out   == SessionWasOutside
           res   == ReadLines(from[r], seen[r], lines, out)
<1>a. /\ Shape /\ FilesInv /\ OutsideInv /\ SkipInv
      /\ disk \in [Files -> FileStates] /\ disk["agent"] \in FileStates
      /\ pc \in [Readers -> Stages] /\ path \in [Readers -> Files]
      /\ from[r] \in AnyCursors /\ seen \in [Readers -> Sights] /\ seen[r] \in Sights
      /\ result \in [Readers -> Results]
  BY DEF SInv, Shape, Files
<1>b. /\ pc[r] = "scan" /\ UNCHANGED <<session, entry, path, from, stored, shadowed>>
      /\ seen' = [seen EXCEPT ![r] = NoSight] /\ Consume(r, path[r], seen[r], from[r], out)
  BY DEF Scan
<1>c. Observed(r) /\ path[r] = "agent"
  BY <1>a, <1>b DEF SkipInv, Observed
<1>d. seen' \in [Readers -> Sights]
  <2>1. NoSight \in Sights
    BY DEF NoSight, Sights
  <2> QED
    BY <2>1, <1>a, <1>b
<1>1. CASE pc' = [pc EXCEPT ![r] = "vanished"] /\ result' = result
  <2>1. Shape'
    BY <1>1, <1>a, <1>b, <1>d DEF Shape, session, Stages
  <2>2. Settled(r)
    BY <1>1, <1>a, <1>b DEF Settled
  <2> QED
    BY <2>1, <2>2, SettledKeeps
<1>2. CASE ~(pc' = [pc EXCEPT ![r] = "vanished"] /\ result' = result)
  <2>1. /\ seen[r].exists /\ disk["agent"].exists /\ result' = [result EXCEPT ![r] = res]
        /\ pc' = [pc EXCEPT ![r] = IF res.kept = {} THEN "commit" ELSE "store"]
    BY <1>2, <1>b, <1>c DEF Consume, Goto, AgentLines
  <2>2. /\ lines \in Seq(Lines) /\ Calm(lines, 1, Len(lines)) /\ Len(lines) \in Nat
        /\ disk["agent"].inode \in Nat /\ disk["agent"].inode >= 1 /\ disk["main"].exists
    BY <2>1, <1>a, LenProperties DEF FilesInv, AgentLines, FileStates, OneFile, Files
  <2>3. Tracks(from[r], disk["agent"], MainLines) /\ from[r].ids \subseteq Sent("agent")
        /\ seen[r].inode = disk["agent"].inode
    BY <2>1, <1>c DEF Observed
  <2>4. AgentRead(res, from[r], seen[r], lines, out)
    <3>1. out \in BOOLEAN /\ ~from[r].outside
      BY <2>3, WasOutsideIs DEF Tracks
    <3> HIDE DEF out, lines
    <3> QED
      BY <3>1, <2>2, <1>a, ReadAgent
  <2> DEFINE c == from[r]
             start == StartOf(from[r], seen[r])
             skip  == SkipOf(from[r], seen[r])
             d     == res.cursor
  <2> HIDE DEF res, out
  <2>5. /\ res \in Results /\ ~d.outside /\ d.inode = disk["agent"].inode
        /\ d.ids = c.ids \cup res.kept /\ d.before \subseteq c.ids \cup c.before
        /\ (d.offset <= Len(lines) \/ d.offset = start)
        /\ ~out => \A j \in (start + 1)..d.offset : lines[j].serial \in res.kept \cup skip
    BY <2>3, <2>4 DEF AgentRead
  <2>6. c.inode \in Nat /\ c.offset \in Nat /\ d.offset \in Nat
    BY <2>5, <1>a DEF AnyCursors, Results
  <2>7. /\ start \in Nat /\ start <= Len(lines) /\ skip \subseteq c.ids
        /\ start = 0 \/ (start = c.offset /\ c.inode = disk["agent"].inode)
    <3>1. c.inode = 0 => c.offset = 0
      BY <2>3 DEF Tracks
    <3>2. c.inode = disk["agent"].inode => c.offset <= Len(lines)
      BY <2>1, <2>3 DEF Tracks, AgentLines
    <3>3. c.before \subseteq c.ids
      BY <2>3 DEF Tracks
    <3> QED
      BY <3>1, <3>2, <3>3, <2>2, <2>3, <2>6 DEF StartOf, SkipOf, Restarts
  <2>8. Tracks(d, disk["agent"], MainLines)
    <3>1. ASSUME Calm(MainLines, 1, Len(MainLines)), NEW j \in 1..d.offset PROVE lines[j].serial \in d.ids
      <4>1. ~out
        BY <3>1, <2>2, NeverMoved DEF out
      <4>2. CASE j \in (start + 1)..d.offset
        BY <4>1, <4>2, <2>5, <2>7
      <4>3. CASE ~(j \in (start + 1)..d.offset)
        <5>1. j \in 1..start
          BY <4>3, <2>6, <2>7
        <5>2. start = c.offset /\ c.inode = disk["agent"].inode
          BY <5>1, <2>7
        <5> QED
          BY <5>1, <5>2, <3>1, <2>1, <2>3, <2>5 DEF Tracks, AgentLines
      <4> QED
        BY <4>2, <4>3
    <3>2. d.before \subseteq d.ids
      BY <2>3, <2>5 DEF Tracks
    <3>3. d.offset <= Len(lines)
      BY <2>2, <2>5, <2>6, <2>7
    <3> QED
      BY <3>1, <3>2, <3>3, <2>2, <2>5 DEF Tracks, AgentLines
  <2>9. result' \in [Readers -> Results] /\ pc' \in [Readers -> Stages] /\ result'[r] = res
        /\ pc'[r] = (IF res.kept = {} THEN "commit" ELSE "store")
    BY <2>1, <2>5, <1>a DEF Stages
  <2>10. Shape'
    BY <2>9, <1>a, <1>b, <1>d DEF Shape, session
  <2>11. \A q \in Readers \ {r} :
           pc'[q] = pc[q] /\ from'[q] = from[q] /\ seen'[q] = seen[q] /\ result'[q] = result[q]
    BY <2>1, <1>a, <1>b
  <2> QED
    BY <2>3, <2>5, <2>8, <2>9, <2>10, <2>11, <1>b, <1>c, RoundKeeps
<1> QED
  BY <1>1, <1>2

\* A record is stored, or stands for one of its id.
LEMMA StoreKeeps ==
  ASSUME SInv, NEW r \in Readers, StoreSegment(r)
  PROVE  SInv'
<1> DEFINE rec == RecordOf(r)
<1>a. /\ Shape /\ FilesInv /\ OutsideInv /\ SkipInv
      /\ pc \in [Readers -> Stages] /\ path[r] \in Files
      /\ from[r] \in AnyCursors /\ result[r] \in Results /\ stored \subseteq Records /\ shadowed \subseteq Serials
  BY DEF SInv, Shape
<1>b. /\ pc[r] = "store" /\ UNCHANGED <<session, entry, path, from, seen, result>>
      /\ pc' = [pc EXCEPT ![r] = "commit"]
  BY DEF StoreSegment, Goto
<1>c. disk' = disk /\ clock' = clock /\ MainLines' = MainLines
  BY <1>b DEF session, MainLines
<1>d. rec \in Records /\ rec.file = path[r] /\ rec.lines = result[r].kept
  BY <1>a DEF RecordOf, Records, AnyCursors, Results
<1> HIDE DEF rec
<1>1. /\ stored \subseteq stored' /\ shadowed \subseteq shadowed'
      /\ \A x \in stored' : x \in stored \/ x = rec
      /\ rec.lines \subseteq Sent(path[r])'
      /\ stored' \subseteq Records /\ shadowed' \subseteq Serials
  <2>1. CASE shadowed' = shadowed \cup (rec.lines \ UNION {x.lines : x \in SameId(rec)}) /\ stored' = stored
    <3>1. rec.lines \subseteq Serials
      BY <1>d DEF Records
    <3>2. \A x \in SameId(rec) : x \in stored' /\ x.file = path'[r]
      BY <2>1, <1>b, <1>d DEF SameId
    <3>3. rec.lines \subseteq Sent(path[r])'
      BY <2>1, <3>2 DEF Sent, Kept
    <3> QED
      BY <2>1, <3>1, <3>3, <1>a
  <2>2. CASE stored' = stored \cup {rec} /\ shadowed' = shadowed
    <3>1. rec \in stored' /\ rec.file = path'[r]
      BY <2>2, <1>b, <1>d
    <3>2. rec.lines \subseteq Sent(path[r])'
      BY <3>1 DEF Sent, Kept
    <3> QED
      BY <2>2, <3>2, <1>a, <1>d
  <2> QED
    BY <2>1, <2>2 DEF StoreSegment, rec
<1>2. \A f : Sent(f) \subseteq Sent(f)'
  BY <1>1 DEF Sent, Kept
<1>3. pc'[r] = "commit" /\ \A q \in Readers \ {r} : pc'[q] = pc[q]
  BY <1>a, <1>b
<1>4. Shape'
  BY <1>1, <1>a, <1>b DEF Shape, session, Stages
<1>5. FilesInv'
  BY <1>a, <1>b, FilesAlone
<1>6. OutsideInv'
  <2>1. \A s \in Kept("main")' : s \in Kept("main") \/ (path[r] = "main" /\ s \in result[r].kept)
    BY <1>1, <1>d DEF Kept
  <2>2. \A s \in Kept("main")' : Safe(s, clock, MainLines)
    BY <2>1, <1>a, <1>b DEF OutsideInv, Pending
  <2>3. \A q \in Readers : Pending(q, "main")' => Pending(q, "main")
    BY <1>b, <1>3 DEF Pending
  <2> QED
    BY <2>2, <2>3, <1>a, <1>b, <1>c DEF OutsideInv
<1>7. SkipInv'
  <2>1. ASSUME NEW f \in Files PROVE entry'[f].ids \subseteq Sent(f)'
    BY <1>2, <1>a, <1>b DEF SkipInv
  <2>2. ASSUME NEW q \in Readers, pc'[q] = "scan" PROVE Observed(q)'
    <3>1. Observed(q)
      BY <2>2, <1>3, <1>a DEF SkipInv
    <3> QED
      BY <3>1, <1>2, <1>b, <1>c DEF Observed
  <2>3. \A q \in Readers : Pending(q, "agent")' => Pending(q, "agent")
    BY <1>b, <1>3 DEF Pending
  <2>4. ASSUME NEW q \in Readers
        PROVE  /\ pc'[q] = "store" => result'[q].cursor.ids \subseteq Sent(path[q])' \cup result'[q].kept
               /\ pc'[q] = "commit" => result'[q].cursor.ids \subseteq Sent(path[q])'
    <3>0. Sent(path[q]) \subseteq Sent(path[q])'
      BY <1>1, <1>b DEF Sent, Kept
    <3>1. CASE q = r
      BY <3>0, <3>1, <1>1, <1>3, <1>a, <1>b, <1>d DEF SkipInv
    <3>2. CASE q # r
      BY <3>0, <3>2, <1>3, <1>a, <1>b DEF SkipInv
    <3> QED
      BY <3>1, <3>2
  <2> QED
    BY <2>1, <2>2, <2>3, <2>4, <1>a, <1>b, <1>c DEF SkipInv
<1> QED
  BY <1>4, <1>5, <1>6, <1>7 DEF SInv

\* A cursor is written.
LEMMA CommitKeeps ==
  ASSUME SInv, NEW r \in Readers, Commit(r)
  PROVE  SInv'
<1> DEFINE f == path[r]
<1>a. /\ Shape /\ FilesInv /\ OutsideInv /\ SkipInv /\ entry \in [Files -> AnyCursors]
      /\ pc \in [Readers -> Stages] /\ f \in Files /\ result[r].cursor \in AnyCursors /\ Files = {"main", "agent"}
  BY DEF SInv, Shape, Results, Files
<1>b. pc[r] = "commit" /\ UNCHANGED <<session, path, from, seen, result, stored, shadowed>>
  BY DEF Commit
<1>c. disk' = disk /\ clock' = clock /\ MainLines' = MainLines
  BY <1>b DEF session, MainLines
<1>1. CASE entry' = entry /\ pc' = [pc EXCEPT ![r] = "failed"]
  <2>1. Shape'
    BY <1>1, <1>a, <1>b DEF Shape, session, Stages, Ends
  <2>2. Settled(r)
    BY <1>1, <1>a, <1>b DEF Settled
  <2> QED
    BY <2>1, <2>2, SettledKeeps
<1>2. CASE /\ entry' = [entry EXCEPT ![f] = result[r].cursor]
           /\ pc' = [pc EXCEPT ![r] = IF result[r].more THEN "more" ELSE "ended"]
  <2>0. /\ entry'[f] = result[r].cursor /\ \A h \in Files \ {f} : entry'[h] = entry[h]
        /\ entry' \in [Files -> AnyCursors]
    BY <1>2, <1>a
  <2>1. Shape'
    BY <1>2, <2>0, <1>a, <1>b DEF Shape, session, Stages, Ends
  <2>2. FilesInv'
    BY <1>a, <1>b, FilesAlone
  <2>3. \A q \in Readers : pc'[q] \in {"scan", "store", "commit"} => pc'[q] = pc[q]
    BY <1>2, <1>a
  <2>4. \A h : Kept(h)' = Kept(h) /\ Sent(h)' = Sent(h)
    BY <1>b DEF Kept, Sent
  <2>5. OutsideInv'
    <3>1. Sound(entry'["main"], disk["main"])
      BY <2>0, <1>a, <1>b DEF OutsideInv, Pending
    <3>2. \A q \in Readers : Pending(q, "main")' => Pending(q, "main")
      BY <2>3, <1>b DEF Pending
    <3> QED
      BY <3>1, <3>2, <2>4, <1>a, <1>b, <1>c DEF OutsideInv
  <2>6. SkipInv'
    <3>1. ASSUME NEW h \in Files PROVE entry'[h].ids \subseteq Sent(h)'
      <4>1. CASE h = f
        BY <4>1, <2>0, <2>4, <1>a, <1>b DEF SkipInv
      <4>2. CASE h # f
        BY <4>2, <2>0, <2>4, <1>a DEF SkipInv
      <4> QED
        BY <4>1, <4>2
    <3>2. Tracks(entry'["agent"], disk["agent"], MainLines)
      BY <2>0, <1>a, <1>b DEF SkipInv, Pending
    <3>3. ASSUME NEW q \in Readers, pc'[q] = "scan" PROVE Observed(q)'
      <4>1. Observed(q)
        BY <3>3, <2>3, <1>a DEF SkipInv
      <4> QED
        BY <4>1, <2>4, <1>b, <1>c DEF Observed
    <3>4. \A q \in Readers : Pending(q, "agent")' => Pending(q, "agent")
      BY <2>3, <1>b DEF Pending
    <3>5. ASSUME NEW q \in Readers
          PROVE  /\ pc'[q] = "store" => result'[q].cursor.ids \subseteq Sent(path[q])' \cup result'[q].kept
                 /\ pc'[q] = "commit" => result'[q].cursor.ids \subseteq Sent(path[q])'
      <4>0. Sent(path[q])' = Sent(path[q])
        BY <1>b DEF Sent, Kept
      <4> QED
        BY <4>0, <2>3, <1>a, <1>b DEF SkipInv
    <3> QED
      BY <3>1, <3>2, <3>3, <3>4, <3>5, <1>a, <1>b, <1>c DEF SkipInv
  <2> QED
    BY <2>1, <2>2, <2>5, <2>6 DEF SInv
<1> QED
  BY <1>1, <1>2 DEF Commit, Goto

-----------------------------------------------------------------------------
(* Of every behaviour.                                                      *)

LEMMA InitSInv == Init => SInv
<1> SUFFICES ASSUME Init PROVE SInv
  OBVIOUS
<1>a. Files = {"main", "agent"} /\ MaxLines \in Nat /\ MaxLines >= 2 /\ <<>> \in Seq(Lines) /\ Len(<<>>) = 0
  BY BoundAssumption DEF Files
<1>b. NoSight \in Sights /\ NewCursor \in AnyCursors /\ NoResult \in Results
  BY DEF NoSight, Sights, NewCursor, AnyCursors, NoResult, Results
<1> DEFINE has(f) == f \in Present
           first == [kind |-> "say", serial |-> 1, at |-> "out"]
           moved == [kind |-> "in", serial |-> 2, at |-> "in"]
           begun == [f \in Files |-> [exists |-> has(f), inode |-> 1, lines |-> <<>>]]
           came  == [f \in Files |-> [exists |-> has(f), inode |-> 1, lines |->
                       IF f = "main" THEN <<first, moved>> ELSE <<>>]]
<1>c. /\ place = "in" /\ entry = [f \in Files |-> [NewCursor EXCEPT !.reg = has(f)]]
      /\ pc = [r \in Readers |-> "idle"] /\ path = [r \in Readers |-> "main"]
      /\ from = [r \in Readers |-> NewCursor] /\ seen = [r \in Readers |-> NoSight]
      /\ result = [r \in Readers |-> NoResult] /\ stored = {} /\ shadowed = {}
  BY DEF Init
<1>e. (disk = begun /\ clock = 0) \/ (disk = came /\ clock = 2)
  BY DEF Init
<1>f. has("main") /\ \A f \in Files : has(f) \in BOOLEAN
  BY PresentAssumption
<1>1. first \in Lines /\ moved \in Lines
  BY <1>a DEF Lines, Serials
<1>g. <<first, moved>> \in Seq(Lines)
  BY <1>1
<1> HIDE DEF has
<1>d. \A f \in Files : /\ entry[f] \in AnyCursors /\ entry[f].inode = 0 /\ entry[f].offset = 0
                       /\ entry[f].ids = {} /\ entry[f].before = {} /\ entry[f].outside = FALSE
  <2> SUFFICES ASSUME NEW f \in Files
               PROVE  /\ entry[f] \in AnyCursors /\ entry[f].inode = 0 /\ entry[f].offset = 0
                      /\ entry[f].ids = {} /\ entry[f].before = {} /\ entry[f].outside = FALSE
    OBVIOUS
  <2>1. entry[f] = [reg |-> has(f), inode |-> 0, offset |-> 0, next |-> 0, ids |-> {},
                    before |-> {}, outside |-> FALSE]
    BY <1>c DEF NewCursor
  <2> QED
    BY <2>1, <1>f DEF AnyCursors
<1>2. /\ disk["main"].inode = 1 /\ disk["agent"].inode = 1 /\ disk["agent"].lines = <<>>
      /\ disk["main"].exists
      /\ \/ disk["main"].lines = <<>> /\ clock = 0
         \/ disk["main"].lines = <<first, moved>> /\ clock = 2
  <2> HIDE DEF first, moved
  <2>1. CASE disk = begun /\ clock = 0
    BY <2>1, <1>a, <1>f
  <2>2. CASE disk = came /\ clock = 2
    BY <2>2, <1>a, <1>f
  <2> QED
    BY <2>1, <2>2, <1>e
<1>3. disk \in [Files -> FileStates]
  <2> HIDE DEF first, moved
  <2>1. CASE disk = begun
    BY <2>1, <1>a, <1>f DEF FileStates
  <2>2. CASE disk = came
    BY <2>2, <1>a, <1>f, <1>g DEF FileStates
  <2> QED
    BY <2>1, <2>2, <1>e
<1> HIDE DEF begun, came
<1>4. Shape
  <2>1. clock \in 0..MaxLines
    BY <1>2, <1>a
  <2>2. entry \in [Files -> AnyCursors]
    BY <1>c, <1>d
  <2> QED
    BY <2>1, <2>2, <1>3, <1>a, <1>b, <1>c DEF Shape, Stages, Records
<1>5. FilesInv
  <2>1. CASE disk["main"].lines = <<>> /\ clock = 0
    BY <2>1, <1>2, <1>a, <1>c DEF FilesInv, OneFile, Sorted, Trail, PlaceIs, Calm, MainLines, AgentLines
  <2>2. CASE disk["main"].lines = <<first, moved>> /\ clock = 2
    <3>1. /\ Len(MainLines) = 2 /\ MainLines[1].kind = "say" /\ MainLines[1].serial = 1 /\ MainLines[1].at = "out"
          /\ MainLines[2].kind = "in" /\ MainLines[2].serial = 2 /\ MainLines[2].at = "in"
      BY <2>2 DEF MainLines
    <3>2. \A i \in 1..2 : i = 1 \/ i = 2
      OBVIOUS
    <3>3. Sorted(MainLines) /\ \A i \in 1..Len(MainLines) : MainLines[i].serial <= clock
      BY <3>1, <3>2, <2>2 DEF Sorted
    <3>4. ~Calm(MainLines, 1, 2) /\ ~Calm(MainLines, 2, 2)
      BY <3>1 DEF Calm
    <3>5. Trail(MainLines)
      <4>1. \A i, j \in 1..2 : i < j => i = 1 /\ j = 2
        BY <3>2
      <4>2. 1 + 1 = 2
        OBVIOUS
      <4>3. \A i, j \in 1..Len(MainLines) : i < j /\ Calm(MainLines, i + 1, j) => MainLines[i].at = MainLines[j].at
        BY <4>1, <4>2, <3>1, <3>4
      <4>4. \A i, j \in 1..Len(MainLines) :
              i < j /\ Calm(MainLines, i + 1, j - 1) /\ MainLines[j].kind # "say" => MainLines[i].at # MainLines[j].kind
        BY <4>1, <3>1
      <4>5. \A i \in 1..Len(MainLines) : MainLines[i].kind # "say" => MainLines[i].at = MainLines[i].kind
        BY <3>1, <3>2
      <4> QED
        BY <4>3, <4>4, <4>5, <3>1, <3>4 DEF Trail
    <3>6. PlaceIs(MainLines, place)
      <4>1. ASSUME NEW i \in 1..2, Calm(MainLines, i + 1, 2) PROVE MainLines[i].at = "in"
        BY <4>1, <3>1, <3>2, <3>4
      <4> QED
        BY <4>1, <3>1, <3>4, <1>c DEF PlaceIs
    <3> QED
      BY <3>3, <3>5, <3>6, <1>2, <1>a DEF FilesInv, OneFile, Sorted, Calm, MainLines, AgentLines
  <2> QED
    BY <2>1, <2>2, <1>2
<1>6. \A r \in Readers : pc[r] = "idle"
  BY <1>c
<1>7. OutsideInv
  <2>1. Kept("main") = {}
    BY <1>c DEF Kept
  <2>2. Sound(entry["main"], disk["main"])
    BY <1>2, <1>d, <1>a DEF Sound
  <2> QED
    BY <2>1, <2>2, <1>6 DEF OutsideInv, Pending
<1>8. SkipInv
  <2>1. Tracks(entry["agent"], disk["agent"], MainLines)
    BY <1>2, <1>d, <1>a DEF Tracks
  <2> QED
    BY <2>1, <1>6, <1>d DEF SkipInv, Pending
<1> QED
  BY <1>4, <1>5, <1>7, <1>8 DEF SInv

\* Every step keeps the invariant.
LEMMA NextSInv == SInv /\ [Next]_vars => SInv'
<1> SUFFICES ASSUME SInv, [Next]_vars PROVE SInv'
  OBVIOUS
<1>1. CASE Write
  BY <1>1, WriteKeeps
<1>2. ASSUME NEW r \in Readers, Step(r) PROVE SInv'
  BY <1>2, ComeKeeps, StopKeeps, LeaveKeeps, ObserveKeeps, ScanKeeps, StoreKeeps, CommitKeeps DEF Step
<1>3. ASSUME NEW r \in Readers, Crash(ProcessOf[r]) PROVE SInv'
  BY <1>3, LeaveKeeps
<1>4. CASE UNCHANGED vars
  BY <1>4 DEF vars, session, reading, round, SInv, Shape, FilesInv, OneFile, OutsideInv, SkipInv, Observed,
              Pending, Kept, Sent, MainLines, AgentLines
<1> QED
  BY <1>1, <1>2, <1>3, <1>4 DEF Next

THEOREM SessionInvariant == Spec => []SInv
  BY InitSInv, NextSInv, PTL DEF Spec

\* NothingFromOutside, of any readers, processes and files, however locks are
\* lost: what the session wrote into its main file outside is never stored.
THEOREM OutsideStaysOut == Spec => []NothingFromOutside
<1>1. SInv => NothingFromOutside
  <2> SUFFICES ASSUME SInv, NEW s \in Kept("main"), s \in WrittenOutside("main") PROVE FALSE
    BY DEF NothingFromOutside
  <2>1. Safe(s, clock, MainLines)
    BY DEF SInv, OutsideInv
  <2>2. PICK i \in 1..Len(MainLines) : MainLines[i].serial = s /\ MainLines[i].at = "out"
    BY DEF WrittenOutside, MainLines
  <2> QED
    BY <2>1, <2>2 DEF Safe
<1> QED
  BY <1>1, SessionInvariant, PTL

\* NothingSkipped, of any readers, processes and files: what was said inside
\* and passed was sent.
THEOREM PassedIsSent == Spec => []NothingSkipped
<1>1. SInv => NothingSkipped
  <2> SUFFICES ASSUME SInv, NEW f \in Files, disk[f].exists, entry[f].inode = disk[f].inode,
                      NEW i \in 1..entry[f].offset, i <= Len(disk[f].lines),
                      disk[f].lines[i].kind = "say", disk[f].lines[i].at = "in"
               PROVE  \/ disk[f].lines[i].serial \in Kept(f) \cup shadowed
                      \/ f = "agent" /\ Moves("main")
    BY DEF NothingSkipped
  <2>a. entry[f].ids \subseteq Kept(f) \cup shadowed
    BY DEF SInv, SkipInv, Sent
  <2>1. CASE f = "main"
    <3>1. disk[f].lines[i].serial \in entry[f].ids
      BY <2>1 DEF SInv, OutsideInv, Sound, Covers, Ours
    <3> QED
      BY <3>1, <2>a
  <2>2. CASE f = "agent" /\ ~Moves("main")
    <3>1. Calm(MainLines, 1, Len(MainLines))
      BY <2>2 DEF Moves, Calm, MainLines
    <3>2. disk[f].lines[i].serial \in entry[f].ids
      BY <3>1, <2>2 DEF SInv, SkipInv, Tracks, AgentLines
    <3> QED
      BY <3>2, <2>a
  <2> QED
    BY <2>1, <2>2 DEF Files
<1> QED
  BY <1>1, SessionInvariant, PTL

-----------------------------------------------------------------------------
(* Where no holder outlives the bound a lock is stale after, rounds on a    *)
(* file are one after the other, and what is kept of the agent file waits   *)
(* for the main file.                                                       *)

Under == {"observe", "scan", "store", "commit", "vanished"} \cup Ends

\* Who is in a round on a file holds its lock, and the cursor its round
\* started from is the one written.
Alone ==
  /\ holder \in [Files -> Readers \cup {NoReader}]
  /\ \A r \in Readers :
       /\ pc[r] \in Under => holder[path[r]] = r
       /\ pc[r] \in {"scan", "store", "commit"} => from[r] = entry[path[r]]

\* The main file's cursor, and any about to be written, is past a move in
\* that came after s.
Returned(s) ==
  \E i \in 1..Len(MainLines) :
    /\ MainLines[i].kind = "in" /\ MainLines[i].serial > s /\ PastMove(entry["main"], MainLines, i)
    /\ \A r \in Readers : Pending(r, "main") => PastMove(result[r].cursor, MainLines, i)

\* What is kept of the agent file, or about to be, was written; and if
\* outside, the session has returned since.
Waited(kept) ==
  /\ \A s \in kept : s <= clock
  /\ \A s \in kept \cap WrittenOutside("agent") : Returned(s)

HeldInv ==
  /\ ~entry["main"].reg => ~disk["main"].exists
  /\ \A r \in Readers :
       /\ pc[r] = "vanished" /\ path[r] = "main" => ~disk["main"].exists
       /\ Pending(r, "main") => Follows(from[r], result[r].cursor) /\ result[r].cursor.reg
       /\ pc[r] = "store" /\ path[r] = "agent" => Waited(result[r].kept)
  /\ Waited(Kept("agent"))

\* A step of a round leaves other rounds alone.
LEMMA RoundAlone ==
  ASSUME Shape, Alone, NEW r \in Readers, pc[r] \in Under, path' = path, holder' = holder,
         \A q \in Readers \ {r} : pc'[q] = pc[q] /\ from'[q] = from[q],
         pc'[r] \in {"scan", "store", "commit"} => from'[r] = entry'[path[r]],
         \A f \in Files \ {path[r]} : entry'[f] = entry[f]
  PROVE  Alone'
<1>a. /\ holder \in [Files -> Readers \cup {NoReader}] /\ holder[path[r]] = r
      /\ \A q \in Readers : pc[q] \in Under => holder[path[q]] = q
      /\ \A q \in Readers : pc[q] \in {"scan", "store", "commit"} => from[q] = entry[path[q]]
      /\ \A q \in Readers : path[q] \in Files
  BY DEF Alone, Shape
<1>1. ASSUME NEW q \in Readers, pc'[q] \in Under PROVE holder'[path'[q]] = q
  BY <1>1, <1>a
<1>2. ASSUME NEW q \in Readers, pc'[q] \in {"scan", "store", "commit"} PROVE from'[q] = entry'[path'[q]]
  <2>1. CASE q = r
    BY <2>1, <1>2
  <2>2. CASE q # r
    <3>1. pc[q] = pc'[q] /\ from'[q] = from[q] /\ pc[q] \in Under
      BY <2>2, <1>2 DEF Under
    <3>2. path[q] # path[r]
      BY <3>1, <2>2, <1>a
    <3> QED
      BY <3>1, <3>2, <1>2, <1>a
  <2> QED
    BY <2>1, <2>2
<1> QED
  BY <1>1, <1>2, <1>a DEF Alone

\* Locks are kept, and let go by those who had them.
LEMMA AloneKept ==
  ASSUME ~Suspends, SInv, Alone, Next
  PROVE  Alone'
<1>a. /\ Shape /\ pc \in [Readers -> Stages] /\ path \in [Readers -> Files]
      /\ holder \in [Files -> Readers \cup {NoReader}] /\ NoReader \notin Readers
      /\ entry \in [Files -> AnyCursors] /\ from \in [Readers -> AnyCursors]
      /\ \A q \in Readers : pc[q] \in Under => holder[path[q]] = q
      /\ \A q \in Readers : pc[q] \in {"scan", "store", "commit"} => from[q] = entry[path[q]]
  BY ReaderAssumption DEF SInv, Shape, Alone
<1>1. CASE Write
  <2>1. UNCHANGED reading
    BY <1>1, <1>a, WriteIs
  <2> QED
    BY <2>1 DEF reading, round, Alone
<1>2. ASSUME NEW r \in Readers, NEW f \in Files, Come(r, f) PROVE Alone'
  <2>1. /\ holder[f] = NoReader /\ holder' = [holder EXCEPT ![f] = r] /\ path' = [path EXCEPT ![r] = f]
        /\ pc' = [pc EXCEPT ![r] = "observe"] /\ entry' = entry /\ from' = from
    BY <1>2 DEF Come, Goto
  <2>2. ASSUME NEW q \in Readers, q # r, pc'[q] \in Under PROVE holder'[path'[q]] = q
    <3>1. pc[q] \in Under /\ path'[q] = path[q] /\ path[q] \in Files
      BY <2>1, <2>2, <1>a
    <3>2. path[q] # f
      BY <3>1, <2>1, <1>a
    <3> QED
      BY <3>1, <3>2, <2>1, <1>a
  <2>3. holder'[path'[r]] = r
    BY <2>1, <1>a
  <2>4. \A q \in Readers : pc'[q] \in {"scan", "store", "commit"} => pc'[q] = pc[q] /\ path'[q] = path[q]
    BY <2>1, <1>a
  <2>5. holder' \in [Files -> Readers \cup {NoReader}]
    BY <2>1, <1>a
  <2> QED
    BY <2>1, <2>2, <2>3, <2>4, <2>5, <1>a DEF Alone
<1>3. ASSUME NEW r \in Readers, NEW f \in Files, GiveUp(r, f) PROVE Alone'
  <2>1. /\ holder' = holder /\ path' = [path EXCEPT ![r] = "main"]
        /\ pc' = [pc EXCEPT ![r] = "idle"] /\ entry' = entry /\ from' = from
    BY <1>3 DEF GiveUp, Goto
  <2>2. \A q \in Readers : pc'[q] \in Under => pc'[q] = pc[q] /\ path'[q] = path[q]
    BY <2>1, <1>a DEF Under, Ends
  <2> QED
    BY <2>1, <2>2, <1>a DEF Alone, Under
<1>4. ASSUME NEW r \in Readers, Observe(r) PROVE Alone'
  <2>1. /\ pc[r] = "observe" /\ from' = [from EXCEPT ![r] = entry[path[r]]]
        /\ holder' = holder /\ path' = path /\ entry' = entry
        /\ \E at \in Stages : pc' = [pc EXCEPT ![r] = at]
    BY <1>4 DEF Observe, Goto, Consume, Stages, Ends
  <2> QED
    BY <2>1, <1>a, RoundAlone DEF Alone, Under
<1>5. ASSUME NEW r \in Readers, Scan(r) \/ StoreSegment(r) \/ Refused(r) \/ Fail(r) PROVE Alone'
  <2>1. /\ pc[r] \in Under /\ from' = from /\ holder' = holder /\ path' = path /\ entry' = entry
        /\ \E at : /\ pc' = [pc EXCEPT ![r] = at]
                   /\ at \in {"store", "commit"} => pc[r] \in {"scan", "store"}
                   /\ at # "scan"
    BY <1>5 DEF Scan, Consume, StoreSegment, Refused, Fail, Goto, Under
  <2>2. pc'[r] \in {"scan", "store", "commit"} => pc[r] \in {"scan", "store"}
    BY <2>1, <1>a
  <2>3. pc'[r] \in {"scan", "store", "commit"} => from'[r] = entry'[path[r]]
    BY <2>1, <2>2, <1>a
  <2>4. \A q \in Readers \ {r} : pc'[q] = pc[q] /\ from'[q] = from[q]
    BY <2>1, <1>a
  <2> QED
    BY <2>1, <2>3, <2>4, <1>a, RoundAlone
<1>6. ASSUME NEW r \in Readers, Commit(r) \/ DropEntry(r) PROVE Alone'
  <2>1. /\ pc[r] \in Under /\ from' = from /\ holder' = holder /\ path' = path
        /\ \A f \in Files \ {path[r]} : entry'[f] = entry[f]
        /\ \E at : pc' = [pc EXCEPT ![r] = at] /\ at \notin {"scan", "store", "commit"}
    BY <1>6, <1>a DEF Commit, DropEntry, Goto, Under
  <2>2. pc'[r] \notin {"scan", "store", "commit"} /\ \A q \in Readers \ {r} : pc'[q] = pc[q] /\ from'[q] = from[q]
    BY <2>1, <1>a
  <2> QED
    BY <2>1, <2>2, <1>a, RoundAlone
<1>7. ASSUME NEW rs \in SUBSET Readers, Forgotten(rs), entry' = entry,
             \A q \in Readers \ rs : pc'[q] = pc[q] /\ path'[q] = path[q],
             \A q \in rs : pc'[q] \notin Under,
             \A f \in Files : holder'[f] = holder[f] \/ (holder[f] \in rs /\ holder'[f] = NoReader),
             holder' \in [Files -> Readers \cup {NoReader}]
      PROVE  Alone'
  <2>1. \A q \in Readers \ rs : from'[q] = from[q]
    BY <1>7 DEF Forgotten
  <2>2. ASSUME NEW q \in Readers, pc'[q] \in Under PROVE q \notin rs /\ holder'[path'[q]] = q
    <3>1. q \notin rs /\ pc[q] \in Under /\ path'[q] = path[q] /\ path[q] \in Files
      BY <2>2, <1>7, <1>a
    <3>2. holder[path[q]] = q
      BY <3>1, <1>a
    <3> QED
      BY <3>1, <3>2, <1>7
  <2>3. ASSUME NEW q \in Readers, pc'[q] \in {"scan", "store", "commit"} PROVE from'[q] = entry'[path'[q]]
    <3>1. q \notin rs
      BY <2>2, <2>3 DEF Under
    <3> QED
      BY <3>1, <2>1, <2>3, <1>7, <1>a
  <2> QED
    BY <2>2, <2>3, <1>7 DEF Alone
<1>8. ASSUME NEW r \in Readers, Unlock(r) PROVE Alone'
  <2>1. /\ Forgotten({r}) /\ entry' = entry
        /\ holder' = [f \in Files |-> IF holder[f] = r THEN NoReader ELSE holder[f]]
        /\ \/ pc' = [pc EXCEPT ![r] = "again"] /\ path' = path
           \/ pc' = [pc EXCEPT ![r] = "idle"] /\ path' = [path EXCEPT ![r] = "main"]
    BY <1>8 DEF Unlock, LockFreed, Freed, Goto
  <2>2. pc'[r] \notin Under /\ \A q \in Readers \ {r} : pc'[q] = pc[q] /\ path'[q] = path[q]
    BY <2>1, <1>a DEF Under, Ends
  <2>3. \A f \in Files : holder'[f] = holder[f] \/ (holder[f] \in {r} /\ holder'[f] = NoReader)
    BY <2>1
  <2>4. holder' \in [Files -> Readers \cup {NoReader}]
    BY <2>1, <1>a
  <2> QED
    BY <2>1, <2>2, <2>3, <2>4, <1>7
<1>9. ASSUME NEW r \in Readers, Crash(ProcessOf[r]) PROVE Alone'
  <2> DEFINE dead == {q \in Readers : ProcessOf[q] = ProcessOf[r]}
  <2>1. /\ Forgotten(dead) /\ entry' = entry
        /\ pc' = [q \in Readers |-> IF q \in dead THEN "idle" ELSE pc[q]]
        /\ path' = [q \in Readers |-> IF q \in dead THEN "main" ELSE path[q]]
        /\ holder' = [f \in Files |-> IF holder[f] \in dead THEN NoReader ELSE holder[f]]
    BY <1>9 DEF Crash
  <2>2. dead \in SUBSET Readers
    OBVIOUS
  <2> HIDE DEF dead
  <2>3. /\ \A q \in dead : pc'[q] \notin Under
        /\ \A q \in Readers \ dead : pc'[q] = pc[q] /\ path'[q] = path[q]
    BY <2>1, <2>2 DEF Under, Ends
  <2>4. \A f \in Files : holder'[f] = holder[f] \/ (holder[f] \in dead /\ holder'[f] = NoReader)
    BY <2>1
  <2>5. holder' \in [Files -> Readers \cup {NoReader}]
    BY <2>1, <1>a
  <2> QED
    BY <2>1, <2>2, <2>3, <2>4, <2>5, <1>7
<1> QED
  BY <1>1, <1>2, <1>3, <1>4, <1>5, <1>6, <1>8, <1>9 DEF Next, Step

\* A move that is not gone from a file that changes is no later in it, and no
\* more than what was before it is.
LEMMA MoveKept ==
  ASSUME NEW main \in FileStates, NEW main2, Changed(main, main2), main2.exists,
         NEW i \in 1..Len(main.lines), main.lines[i].kind # "say"
  PROVE  \E k \in 1..Len(main2.lines) :
           /\ main2.lines[k] = main.lines[i]
           /\ \A c \in AnyCursors : PastMove(c, main.lines, i) => PastMove(c, main2.lines, k)
<1>a. main.lines \in Seq(Lines) /\ Len(main.lines) \in Nat
  BY LenProperties DEF FileStates
<1>1. ASSUME NEW l \in Lines, Grown(main, main2, l)
      PROVE  \E k \in 1..Len(main2.lines) :
           /\ main2.lines[k] = main.lines[i]
           /\ \A c \in AnyCursors : PastMove(c, main.lines, i) => PastMove(c, main2.lines, k)
  <2>1. /\ Len(main2.lines) = Len(main.lines) + 1
        /\ \A j \in 1..Len(main.lines) : main2.lines[j] = main.lines[j]
    BY <1>1, GrownIs
  <2>2. \A j \in 1..(i - 1) : j \in 1..Len(main.lines)
    BY <1>a
  <2>3. \A c \in AnyCursors : PastMove(c, main.lines, i) => PastMove(c, main2.lines, i)
    BY <2>1, <2>2 DEF PastMove, Covers
  <2> QED
    BY <2>1, <2>3, <1>a
<1>2. CASE Replaced(main, main2)
  <2>1. PICK m, g : Lost(main.lines, main2.lines, m, g)
    BY <1>2, ReplacedIs
  <2>2. /\ m \in Nat /\ Len(main2.lines) = m
        /\ \A j \in 1..m : main2.lines[j] = main.lines[g[j]] /\ g[j] \in 1..Len(main.lines)
        /\ \A j, k \in 1..m : g[j] < g[k] <=> j < k
    BY <2>1, <1>a, ThinnedIs DEF Lost
  <2>3. PICK k \in 1..m : g[k] = i
    BY <2>1 DEF Lost
  <2>4. k <= i
    <3> DEFINE B == {j \in 0..m : j > 0 /\ g[j] < j}
    <3>1. CASE B = {}
      BY <3>1, <2>2, <2>3, <1>a
    <3>2. CASE B # {}
      <4>1. PICK j \in B : \A h \in B : j <= h
        <5>1. B \in SUBSET (0..m)
          OBVIOUS
        <5> HIDE DEF B
        <5> QED
          BY <5>1, <3>2, <2>2, LeastOf
      <4>2. j \in 1..m /\ g[j] < j /\ g[j] >= 1
        BY <4>1, <2>2
      <4>3. j - 1 \in 1..m /\ j - 1 \notin B
        BY <4>1, <4>2, <2>2
      <4>4. g[j - 1] \in Nat /\ g[j] \in Nat /\ g[j - 1] >= j - 1
        BY <4>2, <4>3, <2>2, <1>a
      <4>5. g[j - 1] < g[j]
        BY <4>2, <4>3, <2>2
      <4> QED
        BY <4>2, <4>4, <4>5
    <3> QED
      BY <3>1, <3>2
  <2>5. ASSUME NEW c \in AnyCursors, PastMove(c, main.lines, i) PROVE PastMove(c, main2.lines, k)
    <3>1. k <= c.offset
      BY <2>4, <2>5, <1>a DEF PastMove, AnyCursors
    <3>2. \A j \in 1..(k - 1) : j \in 1..m /\ g[j] \in 1..(i - 1) /\ main2.lines[j] = main.lines[g[j]]
      BY <2>2, <2>3, <1>a
    <3> QED
      BY <3>1, <3>2, <2>5 DEF PastMove, Covers
  <2> QED
    BY <2>2, <2>3, <2>5
<1>3. ~Gone(main, main2)
  BY GoneIs
<1> QED
  BY <1>1, <1>2, <1>3 DEF Changed

\* A write changes nothing of what waits.
LEMMA HeldWrite ==
  ASSUME SInv, HeldInv, Write
  PROVE  HeldInv'
<1>a. Shape /\ FilesInv
  BY DEF SInv
<1>b. Written /\ UNCHANGED reading
  BY <1>a, WriteIs
<1>c. entry' = entry /\ pc' = pc /\ path' = path /\ from' = from /\ result' = result /\ stored' = stored
  BY <1>b DEF reading, round
<1>d. /\ Changed(disk["main"], disk'["main"]) /\ Changed(disk["agent"], disk'["agent"])
      /\ (clock' = clock \/ clock' = clock + 1) /\ (disk'["agent"].exists => disk'["main"].exists)
  BY <1>a, <1>b, WriteChanges
<1>e. /\ disk["main"] \in FileStates /\ disk["agent"] \in FileStates /\ clock \in Int
      /\ entry["main"] \in AnyCursors /\ \A r \in Readers : result[r].cursor \in AnyCursors /\ result[r].kept \subseteq Int
      /\ Kept("agent") \subseteq Int
  BY <1>a, BoundAssumption DEF Shape, Files, Results, Serials, Kept, Records
<1>1. ASSUME ~disk["main"].exists PROVE ~disk'["main"].exists
  BY <1>1, <1>d, <1>e, GrownIs, ReplacedIs, GoneIs DEF Changed
<1>2. ASSUME NEW s \in Int, s <= clock, s \in WrittenOutside("agent")'
      PROVE  disk'["main"].exists /\ s \in WrittenOutside("agent")
  <2>1. PICK j \in 1..Len(AgentLines') :
          AgentLines'[j].serial = s /\ AgentLines'[j].kind = "say" /\ AgentLines'[j].at = "out"
    BY <1>2 DEF WrittenOutside, AgentLines
  <2>2. ~Gone(disk["agent"], disk'["agent"])
    BY <2>1, <1>e, GoneIs DEF AgentLines
  <2>3. \E k \in 1..Len(AgentLines) : AgentLines[k] = AgentLines'[j]
    <3>1. ASSUME NEW l \in Lines, Grown(disk["agent"], disk'["agent"], l)
          PROVE  \E k \in 1..Len(AgentLines) : AgentLines[k] = AgentLines'[j]
      <4>1. /\ l.serial = clock + 1 /\ Len(AgentLines) \in Nat /\ Len(AgentLines') = Len(AgentLines) + 1
            /\ AgentLines'[Len(AgentLines) + 1] = l
            /\ \A i \in 1..Len(AgentLines) : AgentLines'[i] = AgentLines[i]
        <5>1. disk["agent"] \in FileStates
          BY <1>e
        <5>2. /\ l.serial = clock + 1 /\ Len(disk["agent"].lines) \in Nat
              /\ Len(disk'["agent"].lines) = Len(disk["agent"].lines) + 1
              /\ disk'["agent"].lines[Len(disk["agent"].lines) + 1] = l
              /\ \A i \in 1..Len(disk["agent"].lines) : disk'["agent"].lines[i] = disk["agent"].lines[i]
          BY <3>1, <5>1, GrownIs
        <5> QED
          BY <5>2 DEF AgentLines
      <4>2. j # Len(AgentLines) + 1
        BY <4>1, <2>1, <1>2, <1>e
      <4> QED
        BY <4>1, <4>2
    <3>2. CASE Replaced(disk["agent"], disk'["agent"])
      <4>1. PICK m, g : Lost(AgentLines, AgentLines', m, g)
        BY <3>2, <1>e, ReplacedIs DEF AgentLines
      <4>2. AgentLines \in Seq(Lines)
        BY <1>e DEF FileStates, AgentLines
      <4>3. Len(AgentLines') = m /\ \A i \in 1..m : AgentLines'[i] = AgentLines[g[i]] /\ g[i] \in 1..Len(AgentLines)
        BY <4>1, <4>2, ThinnedIs DEF Lost
      <4> QED
        BY <4>3
    <3> QED
      BY <3>1, <3>2, <2>2, <1>d DEF Changed, AgentLines
  <2>4. disk'["agent"].exists
    BY <2>2, <2>3, <1>a, <1>d, <1>e, GrownIs, ReplacedIs DEF Changed, FilesInv, OneFile, Files, AgentLines
  <2> QED
    BY <2>1, <2>3, <2>4, <1>d DEF WrittenOutside, AgentLines
<1>3. ASSUME NEW s, Returned(s), disk'["main"].exists PROVE Returned(s)'
  <2>1. PICK i \in 1..Len(MainLines) :
          /\ MainLines[i].kind = "in" /\ MainLines[i].serial > s /\ PastMove(entry["main"], MainLines, i)
          /\ \A r \in Readers : Pending(r, "main") => PastMove(result[r].cursor, MainLines, i)
    BY <1>3 DEF Returned
  <2>2. PICK k \in 1..Len(MainLines') :
          /\ MainLines'[k] = MainLines[i]
          /\ \A c \in AnyCursors : PastMove(c, MainLines, i) => PastMove(c, MainLines', k)
    <3> DEFINE main  == disk["main"]
               main2 == disk'["main"]
    <3>1. /\ main \in FileStates /\ Changed(main, main2) /\ main2.exists
          /\ i \in 1..Len(main.lines) /\ main.lines[i].kind # "say"
      BY <2>1, <1>3, <1>d, <1>e DEF MainLines
    <3> HIDE DEF main, main2
    <3>2. \E k \in 1..Len(main2.lines) :
            /\ main2.lines[k] = main.lines[i]
            /\ \A c \in AnyCursors : PastMove(c, main.lines, i) => PastMove(c, main2.lines, k)
      BY <3>1, MoveKept
    <3> QED
      BY <3>2 DEF main, main2, MainLines
  <2>3. PastMove(entry'["main"], MainLines', k)
    BY <2>1, <2>2, <1>c, <1>e
  <2>4. \A r \in Readers : Pending(r, "main")' => PastMove(result'[r].cursor, MainLines', k)
    BY <2>1, <2>2, <1>c, <1>e DEF Pending
  <2> QED
    BY <2>1, <2>2, <2>3, <2>4 DEF Returned
<1>4. ASSUME NEW K \in SUBSET Int, Waited(K) PROVE Waited(K)'
  <2>1. \A s \in K : s \in Int /\ s <= clock /\ s <= clock'
    BY <1>4, <1>d, <1>e DEF Waited
  <2>2. ASSUME NEW s \in K, s \in WrittenOutside("agent")' PROVE Returned(s)'
    BY <2>1, <2>2, <1>2, <1>3, <1>4 DEF Waited
  <2> QED
    BY <2>1, <2>2 DEF Waited
<1>5. Waited(Kept("agent"))'
  <2>1. Waited(Kept("agent")) /\ Kept("agent")' = Kept("agent")
    BY <1>c DEF HeldInv, Kept
  <2> QED
    BY <2>1, <1>4, <1>e
<1>6. ASSUME NEW r \in Readers, pc'[r] = "store" /\ path'[r] = "agent" PROVE Waited(result[r].kept)'
  <2>1. Waited(result[r].kept) /\ result'[r].kept = result[r].kept
    BY <1>6, <1>c DEF HeldInv
  <2> QED
    BY <2>1, <1>4, <1>e
<1> QED
  BY <1>1, <1>5, <1>6, <1>c DEF HeldInv, Pending

\* A step of a reader after which every cursor is past what it was past, and
\* what is kept has waited.
LEMMA HeldSame ==
  ASSUME HeldInv, UNCHANGED session,
         \A i \in 1..Len(MainLines) :
           /\ MainLines[i].kind = "in" /\ PastMove(entry["main"], MainLines, i)
           /\ \A r \in Readers : Pending(r, "main") => PastMove(result[r].cursor, MainLines, i)
           => /\ PastMove(entry'["main"], MainLines, i)
              /\ \A r \in Readers : Pending(r, "main")' => PastMove(result'[r].cursor, MainLines, i),
         entry'["main"].reg \/ ~disk["main"].exists,
         \A r \in Readers :
           /\ pc'[r] = "vanished" /\ path'[r] = "main" => ~disk["main"].exists
           /\ Pending(r, "main")' => Follows(from'[r], result'[r].cursor) /\ result'[r].cursor.reg
           /\ pc'[r] = "store" /\ path'[r] = "agent" => Waited(result'[r].kept),
         Waited(Kept("agent")')
  PROVE  HeldInv'
<1>a. disk' = disk /\ clock' = clock /\ MainLines' = MainLines
  BY DEF session, MainLines
<1>1. ASSUME NEW s, Returned(s) PROVE Returned(s)'
  BY <1>1, <1>a DEF Returned
<1>2. WrittenOutside("agent")' = WrittenOutside("agent")
  BY <1>a DEF WrittenOutside
<1>3. ASSUME NEW K, Waited(K) PROVE Waited(K)'
  BY <1>1, <1>2, <1>3, <1>a DEF Waited
<1>4. Waited(Kept("agent"))'
  BY <1>3
<1>5. ASSUME NEW r \in Readers, pc'[r] = "store" /\ path'[r] = "agent" PROVE Waited(result[r].kept)'
  BY <1>3, <1>5
<1> QED
  BY <1>4, <1>5, <1>a DEF HeldInv

\* A step that takes no round on.
LEMMA HeldSettled ==
  ASSUME SInv, HeldInv, NEW r, Settled(r),
         entry'["main"] = entry["main"] \/ ~disk["main"].exists,
         \A q \in Readers : pc'[q] = "vanished" => pc[q] = "vanished" /\ path'[q] = path[q]
  PROVE  HeldInv'
<1>a. entry["main"] \in AnyCursors /\ Files = {"main", "agent"}
  BY DEF SInv, Shape, Files
<1>b. /\ UNCHANGED <<session, stored, shadowed>>
      /\ entry'["main"] = entry["main"] \/ entry'["main"] = [entry["main"] EXCEPT !.reg = FALSE]
      /\ \A q \in Readers : pc'[q] \in {"store", "commit"} =>
           pc'[q] = pc[q] /\ path'[q] = path[q] /\ from'[q] = from[q] /\ result'[q] = result[q]
  BY <1>a DEF Settled
<1>c. entry'["main"].offset = entry["main"].offset /\ entry'["main"].ids = entry["main"].ids
  BY <1>a, <1>b DEF AnyCursors
<1>1. \A i : PastMove(entry["main"], MainLines, i) => PastMove(entry'["main"], MainLines, i)
  BY <1>c DEF PastMove
<1>2. \A q \in Readers : Pending(q, "main")' =>
        Pending(q, "main") /\ from'[q] = from[q] /\ result'[q] = result[q]
  BY <1>b DEF Pending
<1>3. Kept("agent")' = Kept("agent")
  BY <1>b DEF Kept
<1>4. entry'["main"].reg \/ ~disk["main"].exists
  BY DEF HeldInv
<1>5. \A q \in Readers :
        /\ pc'[q] = "vanished" /\ path'[q] = "main" => ~disk["main"].exists
        /\ pc'[q] = "store" /\ path'[q] = "agent" => Waited(result'[q].kept)
  BY <1>b DEF HeldInv
<1>6. \A q \in Readers : Pending(q, "main")' => Follows(from'[q], result'[q].cursor) /\ result'[q].cursor.reg
  BY <1>2 DEF HeldInv
<1>7. Waited(Kept("agent")')
  BY <1>3 DEF HeldInv
<1> QED
  BY <1>1, <1>2, <1>4, <1>5, <1>6, <1>7, <1>b, HeldSame

\* What the agent file was written outside has been returned from, once the
\* main file does not say otherwise.
LEMMA ScanReturns ==
  ASSUME SInv, Alone, HeldInv, disk["agent"].exists, ~SessionWasOutside,
         NEW s \in WrittenOutside("agent")
  PROVE  Returned(s)
<1> DEFINE c == entry["main"]
           n == Len(MainLines)
<1>a. Shape /\ FilesInv /\ OutsideInv
  BY DEF SInv
<1>b. /\ MainLines \in Seq(Lines) /\ n \in Nat /\ c \in AnyCursors /\ c.offset \in Nat /\ c.inode \in Nat
      /\ disk["main"].inode \in Nat /\ disk["main"].inode >= 1 /\ Sorted(MainLines) /\ Trail(MainLines)
  BY <1>a, LenProperties DEF Shape, FilesInv, OneFile, Files, FileStates, MainLines, AnyCursors
<1>c. disk["main"].exists /\ c.reg
  BY <1>a DEF FilesInv, HeldInv
<1>d. \A i \in 1..n : MainLines[i].kind \in {"say", "out", "in"} /\ MainLines[i].at \in {"in", "out"}
  <2>1. \A i \in 1..n : MainLines[i] \in Lines
    BY <1>b, ElementOfSeq
  <2> QED
    BY <2>1 DEF Lines
<1>1. PICK k \in 1..n :
        /\ MainLines[k].kind = "out" /\ MainLines[k].serial < s
        /\ \A j \in (k + 1)..n : MainLines[j].kind # "say" => MainLines[j].serial > s
  BY <1>a DEF WrittenOutside, FilesInv, OutBefore, AgentLines
<1>2. /\ ~c.outside /\ c.inode = disk["main"].inode /\ k <= c.offset
  <2> DEFINE start == IF Restarts(c, Sight("main")) THEN 0 ELSE c.offset
  <2>1. ~c.outside /\ \A i \in (start + 1)..n : MainLines[i].kind # "out"
    BY <1>c DEF SessionWasOutside, MainLines
  <2>2. start \in Nat
    BY <1>b
  <2> HIDE DEF start
  <2>3. start >= k
    BY <1>1, <2>1, <2>2, <1>b
  <2>4. ~Restarts(c, Sight("main")) /\ start = c.offset /\ c.offset > 0
    BY <2>3, <1>b DEF start
  <2>5. c.inode # 0
    BY <2>4, <1>a DEF OutsideInv, Sound
  <2> QED
    BY <2>1, <2>3, <2>4, <2>5 DEF Restarts, Sight
<1>3. c.offset <= n /\ MainLines[c.offset].at = "in" /\ Covers(c.ids, MainLines, c.offset)
  <2>1. /\ c.offset <= n /\ Covers(c.ids, MainLines, c.offset)
        /\ c.offset > 0 => (c.outside <=> MainLines[c.offset].at = "out")
    BY <1>2, <1>a, <1>c DEF OutsideInv, Sound, MainLines
  <2>2. c.offset \in 1..n /\ c.offset > 0
    BY <2>1, <1>2, <1>b
  <2> QED
    BY <2>1, <2>2, <1>2, <1>d
<1>4. PICK i \in (k + 1)..c.offset : MainLines[i].kind = "in"
  <2> DEFINE B == {j \in (k + 1)..c.offset : MainLines[j].kind # "say"}
  <2>1. MainLines[k].at = "out"
    BY <1>1, <1>b DEF Trail
  <2>2. k < c.offset /\ c.offset \in 1..n
    BY <2>1, <1>2, <1>3, <1>b
  <2>3. B # {}
    <3>1. CASE B = {}
      <4>1. Calm(MainLines, k + 1, c.offset)
        BY <3>1 DEF Calm
      <4>2. MainLines[k].at = MainLines[c.offset].at
        BY <4>1, <2>2, <1>b DEF Trail
      <4> QED
        BY <4>2, <2>1, <1>3
    <3> QED
      BY <3>1
  <2>4. PICK j \in B : \A h \in B : j <= h
    <3>1. B \in SUBSET (0..c.offset)
      BY <1>b
    <3> HIDE DEF B
    <3> QED
      BY <3>1, <2>3, <1>b, LeastOf
  <2>5. j \in (k + 1)..c.offset /\ MainLines[j].kind # "say" /\ j \in 1..n /\ k < j
    BY <2>2, <2>4, <1>b
  <2>6. Calm(MainLines, k + 1, j - 1)
    BY <2>4, <2>5, <1>b DEF Calm
  <2>7. MainLines[j].kind # "out"
    BY <2>1, <2>5, <2>6, <1>b DEF Trail
  <2> QED
    BY <2>5, <2>7, <1>d
<1>5. i \in 1..n /\ i \in (k + 1)..n /\ MainLines[i].serial > s
  BY <1>1, <1>3, <1>4, <1>b
<1>6. PastMove(c, MainLines, i)
  <2>1. i <= c.offset /\ \A j \in 1..(i - 1) : j \in 1..c.offset
    BY <1>4, <1>5, <1>b
  <2> QED
    BY <2>1, <1>3 DEF PastMove, Covers
<1>7. ASSUME NEW r \in Readers, Pending(r, "main") PROVE PastMove(result[r].cursor, MainLines, i)
  <2> DEFINE d == result[r].cursor
  <2>1. from[r] = c /\ Follows(from[r], d) /\ Sound(d, disk["main"]) /\ d \in AnyCursors
    BY <1>7, <1>a DEF Pending, Alone, HeldInv, OutsideInv, Shape, Results
  <2>2. d.inode \in Nat /\ d.offset \in Nat /\ d.inode <= disk["main"].inode
    BY <2>1 DEF AnyCursors, Sound
  <2>3. c.offset <= d.offset /\ c.ids \subseteq d.ids
    BY <2>1, <2>2, <1>2, <1>b DEF Follows
  <2>4. i <= d.offset
    <3>1. i <= c.offset
      BY <1>6 DEF PastMove
    <3>2. i \in Nat /\ c.offset \in Nat
      BY <1>4, <1>b
    <3> QED
      BY <3>1, <3>2, <2>2, <2>3
  <2>5. Covers(d.ids, MainLines, i - 1)
    BY <2>3, <1>6 DEF PastMove, Covers
  <2> QED
    BY <2>4, <2>5 DEF PastMove
<1> QED
  BY <1>4, <1>5, <1>6, <1>7 DEF Returned

\* The steps that take no round on.
LEMMA HeldStop ==
  ASSUME SInv, HeldInv, NEW r \in Readers,
         \/ \E f \in Files : Come(r, f) \/ GiveUp(r, f)
         \/ Refused(r) \/ DropEntry(r) \/ Fail(r) \/ Unlock(r) \/ Crash(ProcessOf[r])
  PROVE  HeldInv'
<1>a. pc \in [Readers -> Stages] /\ path \in [Readers -> Files] /\ entry \in [Files -> AnyCursors]
  BY DEF SInv, Shape
<1>1. Settled(r)
  BY ComeKeeps, StopKeeps, LeaveKeeps
<1>2. entry'["main"] = entry["main"] \/ ~disk["main"].exists
  <2>1. CASE DropEntry(r)
    <3>1. pc[r] = "vanished" /\ entry' = [entry EXCEPT ![path[r]].reg = FALSE]
      BY <2>1 DEF DropEntry
    <3> QED
      BY <3>1, <1>a DEF HeldInv, Files
  <2>2. CASE ~DropEntry(r)
    BY <2>2 DEF Come, GiveUp, Refused, Fail, Unlock, Crash
  <2> QED
    BY <2>1, <2>2
<1>3. ASSUME NEW q \in Readers, pc'[q] = "vanished" PROVE pc[q] = "vanished" /\ path'[q] = path[q]
  BY <1>3, <1>a DEF Come, GiveUp, Refused, DropEntry, Fail, Unlock, Crash, Goto
<1> QED
  BY <1>1, <1>2, <1>3, HeldSettled

\* Reading the main file passes no move back over.
LEMMA HeldObserve ==
  ASSUME SInv, HeldInv, NEW r \in Readers, Observe(r)
  PROVE  HeldInv'
<1> DEFINE f == path[r]
           c == entry["main"]
           res == ReadLines(c, Sight("main"), disk["main"].lines, FALSE)
<1>a. /\ Shape /\ pc \in [Readers -> Stages] /\ f \in Files /\ result \in [Readers -> Results]
      /\ from \in [Readers -> AnyCursors]
  BY DEF SInv, Shape
<1>b. /\ pc[r] = "observe" /\ UNCHANGED <<session, entry, path, stored, shadowed>>
      /\ from' = [from EXCEPT ![r] = entry[f]] /\ Kept("agent")' = Kept("agent")
  BY DEF Observe, Kept
<1>c. /\ \A q \in Readers \ {r} : pc'[q] = pc[q] /\ from'[q] = from[q] /\ result'[q] = result[q]
      /\ from'[r] = entry[f]
  BY <1>a, <1>b DEF Observe, Consume, Goto
<1>d. \/ pc'[r] \in {"failed", "scan"}
      \/ pc'[r] = "vanished" /\ ~disk[f].exists
      \/ /\ f = "main" /\ c.reg /\ disk["main"].exists /\ result'[r] = res
         /\ pc'[r] \in {"store", "commit"}
  BY <1>a DEF Observe, Consume, Goto, Sight
<1>1. CASE pc'[r] \notin {"store", "commit"}
  <2>1. \A q \in Readers : Pending(q, "main")' =>
          Pending(q, "main") /\ from'[q] = from[q] /\ result'[q] = result[q]
    BY <1>1, <1>b, <1>c DEF Pending
  <2>2. \A q \in Readers :
          /\ pc'[q] = "vanished" /\ path'[q] = "main" => ~disk["main"].exists
          /\ pc'[q] = "store" /\ path'[q] = "agent" => Waited(result'[q].kept)
    BY <1>1, <1>b, <1>c, <1>d DEF HeldInv
  <2>3. \A q \in Readers : Pending(q, "main")' => Follows(from'[q], result'[q].cursor) /\ result'[q].cursor.reg
    BY <2>1 DEF HeldInv
  <2>4. (entry'["main"].reg \/ ~disk["main"].exists) /\ Waited(Kept("agent")')
    BY <1>b DEF HeldInv
  <2> QED
    BY <2>1, <2>2, <2>3, <2>4, <1>b, HeldSame
<1>2. CASE /\ f = "main" /\ c.reg /\ disk["main"].exists /\ result'[r] = res
           /\ pc'[r] \in {"store", "commit"}
  <2>1. MainRead(res, c, disk["main"])
    <3>1. /\ disk["main"].inode \in Nat /\ disk["main"].inode >= 1 /\ disk["main"].lines \in Seq(Lines)
          /\ Sorted(disk["main"].lines) /\ Trail(disk["main"].lines)
          /\ c \in AnyCursors /\ Sound(c, disk["main"])
      BY DEF SInv, Shape, FilesInv, OutsideInv, OneFile, FileStates, Files, MainLines
    <3>2. Sight("main").inode = disk["main"].inode /\ Sight("main").size = Len(disk["main"].lines)
      BY DEF Sight
    <3>3. Sight("main") \in Sights
      BY <3>1, <1>2, LenProperties DEF Sight, Sights
    <3> QED
      BY <3>1, <3>2, <3>3, <1>2, ReadMain
  <2> HIDE DEF res
  <2>2. /\ Follows(c, res.cursor) /\ res.cursor.reg
        /\ \A i \in 1..Len(MainLines) : MainLines[i].kind = "in" /\ PastMove(c, MainLines, i) => PastMove(res.cursor, MainLines, i)
    BY <2>1, <1>2 DEF MainRead, Follows, MainLines
  <2>3. \A q \in Readers \ {r} : Pending(q, "main")' => Pending(q, "main")
    BY <1>b, <1>c DEF Pending
  <2>4. \A i \in 1..Len(MainLines) :
           /\ MainLines[i].kind = "in" /\ PastMove(entry["main"], MainLines, i)
           /\ \A q \in Readers : Pending(q, "main") => PastMove(result[q].cursor, MainLines, i)
           => \A q \in Readers : Pending(q, "main")' => PastMove(result'[q].cursor, MainLines, i)
    BY <2>2, <2>3, <1>2, <1>c
  <2>5. ASSUME NEW q \in Readers
        PROVE  /\ pc'[q] = "vanished" /\ path'[q] = "main" => ~disk["main"].exists
               /\ Pending(q, "main")' => Follows(from'[q], result'[q].cursor) /\ result'[q].cursor.reg
               /\ pc'[q] = "store" /\ path'[q] = "agent" => Waited(result'[q].kept)
    <3>1. CASE q = r
      BY <3>1, <2>2, <1>2, <1>b, <1>c
    <3>2. CASE q # r
      BY <3>2, <2>3, <1>b, <1>c DEF HeldInv
    <3> QED
      BY <3>1, <3>2
  <2>6. (entry'["main"].reg \/ ~disk["main"].exists) /\ Waited(Kept("agent")')
    BY <1>b DEF HeldInv
  <2> QED
    BY <2>4, <2>5, <2>6, <1>b, HeldSame
<1> QED
  BY <1>1, <1>2, <1>d

\* Of the agent file nothing is read that has not waited.
LEMMA HeldScan ==
  ASSUME SInv, Alone, HeldInv, NEW r \in Readers, Scan(r)
  PROVE  HeldInv'
<1> DEFINE out == SessionWasOutside
           res == ReadLines(from[r], seen[r], AgentLines, out)
<1>a. /\ Shape /\ pc \in [Readers -> Stages] /\ result \in [Readers -> Results]
      /\ from[r] \in AnyCursors /\ seen[r] \in Sights /\ AgentLines \in Seq(Lines)
      /\ Calm(AgentLines, 1, Len(AgentLines)) /\ OneFile(disk["agent"], clock)
  BY DEF SInv, Shape, FilesInv, AgentLines, FileStates, Files
<1>b. /\ pc[r] = "scan" /\ UNCHANGED <<session, entry, path, from, stored, shadowed>>
      /\ Kept("agent")' = Kept("agent")
  BY DEF Scan, Kept
<1>c. path[r] = "agent" /\ ~from[r].outside
  BY <1>b DEF SInv, SkipInv, Observed, Tracks
<1>d. \A q \in Readers \ {r} : pc'[q] = pc[q] /\ result'[q] = result[q]
  BY <1>a DEF Scan, Consume, Goto
<1>e. \/ pc'[r] \in {"vanished", "commit"}
      \/ pc'[r] = "store" /\ result'[r] = res /\ disk["agent"].exists /\ res.kept # {}
  BY <1>a, <1>c DEF Scan, Consume, Goto, AgentLines
<1>1. ASSUME pc'[r] = "store" PROVE Waited(result'[r].kept)
  <2>1. AgentRead(res, from[r], seen[r], AgentLines, out)
    <3>1. out \in BOOLEAN
      BY WasOutsideIs
    <3> HIDE DEF out
    <3> QED
      BY <3>1, <1>a, <1>c, ReadAgent
  <2> HIDE DEF res
  <2>2. ~out /\ \A s \in res.kept : \E j \in 1..Len(AgentLines) : AgentLines[j].serial = s
    BY <2>1, <1>1, <1>e DEF AgentRead
  <2>3. \A s \in res.kept : s <= clock
    BY <2>2, <1>a DEF OneFile, AgentLines
  <2>4. \A s \in res.kept \cap WrittenOutside("agent") : Returned(s)
    BY <2>2, <1>1, <1>e, ScanReturns
  <2> QED
    BY <2>3, <2>4, <1>1, <1>e DEF Waited
<1>2. \A q \in Readers : Pending(q, "main")' =>
        Pending(q, "main") /\ from'[q] = from[q] /\ result'[q] = result[q]
  BY <1>b, <1>c, <1>d DEF Pending
<1>3. ASSUME NEW q \in Readers
      PROVE  /\ pc'[q] = "vanished" /\ path'[q] = "main" => ~disk["main"].exists
             /\ Pending(q, "main")' => Follows(from'[q], result'[q].cursor) /\ result'[q].cursor.reg
             /\ pc'[q] = "store" /\ path'[q] = "agent" => Waited(result'[q].kept)
  <2>1. CASE q = r
    BY <2>1, <1>1, <1>b, <1>c DEF Pending
  <2>2. CASE q # r
    BY <2>2, <1>2, <1>b, <1>d DEF HeldInv
  <2> QED
    BY <2>1, <2>2
<1>4. (entry'["main"].reg \/ ~disk["main"].exists) /\ Waited(Kept("agent")')
  BY <1>b DEF HeldInv
<1> QED
  BY <1>2, <1>3, <1>4, <1>b, HeldSame

\* What is stored had waited.
LEMMA HeldStore ==
  ASSUME SInv, HeldInv, NEW r \in Readers, StoreSegment(r)
  PROVE  HeldInv'
<1>a. Shape /\ pc \in [Readers -> Stages]
  BY DEF SInv, Shape
<1>b. /\ pc[r] = "store" /\ UNCHANGED <<session, entry, path, from, result>>
      /\ pc' = [pc EXCEPT ![r] = "commit"]
  BY DEF StoreSegment, Goto
<1>1. \A s \in Kept("agent")' : s \in Kept("agent") \/ (path[r] = "agent" /\ s \in result[r].kept)
  <2>1. \A x \in stored' : x \in stored \/ x = RecordOf(r)
    BY DEF StoreSegment
  <2>2. RecordOf(r).file = path[r] /\ RecordOf(r).lines = result[r].kept
    BY DEF RecordOf
  <2> QED
    BY <2>1, <2>2 DEF Kept
<1>2. Waited(Kept("agent")')
  <2>1. Waited(Kept("agent")) /\ (path[r] = "agent" => Waited(result[r].kept))
    BY <1>b DEF HeldInv
  <2> QED
    BY <1>1, <2>1 DEF Waited
<1>3. \A q \in Readers : Pending(q, "main")' => Pending(q, "main")
  BY <1>a, <1>b DEF Pending
<1>4. ASSUME NEW q \in Readers
      PROVE  /\ pc'[q] = "vanished" /\ path'[q] = "main" => ~disk["main"].exists
             /\ Pending(q, "main")' => Follows(from'[q], result'[q].cursor) /\ result'[q].cursor.reg
             /\ pc'[q] = "store" /\ path'[q] = "agent" => Waited(result'[q].kept)
  BY <1>3, <1>a, <1>b DEF HeldInv
<1>5. entry'["main"].reg \/ ~disk["main"].exists
  BY <1>b DEF HeldInv
<1> QED
  BY <1>2, <1>3, <1>4, <1>5, <1>b, HeldSame

\* A cursor that is written is past what it was past before.
LEMMA HeldCommit ==
  ASSUME SInv, HeldInv, NEW r \in Readers, Commit(r)
  PROVE  HeldInv'
<1>a. Shape /\ pc \in [Readers -> Stages] /\ entry \in [Files -> AnyCursors] /\ "main" \in Files
  BY DEF SInv, Shape, Files
<1>b. /\ pc[r] = "commit" /\ UNCHANGED <<session, path, from, result, stored>>
      /\ Kept("agent")' = Kept("agent")
  BY DEF Commit, Kept
<1>c. \E at : pc' = [pc EXCEPT ![r] = at] /\ at \notin {"vanished", "store", "commit"}
  BY DEF Commit, Goto
<1>d. entry'["main"] = entry["main"] \/ (path[r] = "main" /\ entry'["main"] = result[r].cursor)
  BY <1>a DEF Commit
<1>1. \A q \in Readers : /\ Pending(q, "main")' => Pending(q, "main")
                         /\ pc'[q] \in {"vanished", "store"} => pc'[q] = pc[q]
  BY <1>a, <1>b, <1>c DEF Pending
<1>2. ASSUME NEW q \in Readers
      PROVE  /\ pc'[q] = "vanished" /\ path'[q] = "main" => ~disk["main"].exists
             /\ Pending(q, "main")' => Follows(from'[q], result'[q].cursor) /\ result'[q].cursor.reg
             /\ pc'[q] = "store" /\ path'[q] = "agent" => Waited(result'[q].kept)
  BY <1>1, <1>b DEF HeldInv
<1>3. path[r] = "main" => Pending(r, "main") /\ result[r].cursor.reg
  BY <1>b DEF Pending, HeldInv
<1>4. entry'["main"].reg \/ ~disk["main"].exists
  BY <1>d, <1>3 DEF HeldInv
<1>5. \A i \in 1..Len(MainLines) :
        /\ MainLines[i].kind = "in" /\ PastMove(entry["main"], MainLines, i)
        /\ \A q \in Readers : Pending(q, "main") => PastMove(result[q].cursor, MainLines, i)
        => /\ PastMove(entry'["main"], MainLines, i)
           /\ \A q \in Readers : Pending(q, "main")' => PastMove(result'[q].cursor, MainLines, i)
  BY <1>1, <1>3, <1>b, <1>d
<1>6. Waited(Kept("agent")')
  BY <1>b DEF HeldInv
<1> QED
  BY <1>2, <1>4, <1>5, <1>6, <1>b, HeldSame

HeldBack == SInv /\ Alone /\ HeldInv

LEMMA InitHeldBack == Init => HeldBack
<1> SUFFICES ASSUME Init PROVE HeldBack
  OBVIOUS
<1>1. SInv
  BY InitSInv
<1>2. /\ holder = [f \in Files |-> NoReader] /\ pc = [r \in Readers |-> "idle"] /\ stored = {}
      /\ entry["main"] = [NewCursor EXCEPT !.reg = "main" \in Present]
  BY DEF Init, Files
<1>3. Alone
  BY <1>2 DEF Alone, Under, Ends
<1>4. entry["main"].reg
  BY <1>2, PresentAssumption DEF NewCursor
<1>5. Kept("agent") = {}
  BY <1>2 DEF Kept
<1>6. HeldInv
  BY <1>2, <1>4, <1>5 DEF HeldInv, Waited, Pending
<1> QED
  BY <1>1, <1>3, <1>6 DEF HeldBack

LEMMA NextHeldBack ==
  ASSUME ~Suspends, HeldBack, [Next]_vars
  PROVE  HeldBack'
<1>a. SInv /\ Alone /\ HeldInv
  BY DEF HeldBack
<1>1. SInv'
  BY <1>a, NextSInv
<1>2. CASE Next
  <2>1. Alone'
    BY <1>a, <1>2, AloneKept
  <2>2. HeldInv'
    BY <1>a, <1>2, HeldWrite, HeldStop, HeldObserve, HeldScan, HeldStore, HeldCommit DEF Next, Step
  <2> QED
    BY <1>1, <2>1, <2>2 DEF HeldBack
<1>3. CASE UNCHANGED vars
  <2>1. Alone'
    BY <1>a, <1>3 DEF vars, session, reading, round, Alone
  <2>2. HeldInv'
    <3>1. UNCHANGED session /\ entry' = entry /\ pc' = pc /\ path' = path /\ from' = from /\ result' = result
          /\ Kept("agent")' = Kept("agent")
      BY <1>3 DEF vars, reading, round, Kept
    <3>2. (entry'["main"].reg \/ ~disk["main"].exists) /\ Waited(Kept("agent")')
      BY <3>1, <1>a DEF HeldInv
    <3>3. \A r \in Readers :
            /\ pc'[r] = "vanished" /\ path'[r] = "main" => ~disk["main"].exists
            /\ Pending(r, "main")' => Follows(from'[r], result'[r].cursor) /\ result'[r].cursor.reg
            /\ pc'[r] = "store" /\ path'[r] = "agent" => Waited(result'[r].kept)
      BY <3>1, <1>a DEF HeldInv, Pending
    <3>4. \A r \in Readers : Pending(r, "main")' => Pending(r, "main")
      BY <3>1 DEF Pending
    <3> QED
      BY <3>1, <3>2, <3>3, <3>4, <1>a, HeldSame
  <2> QED
    BY <1>1, <2>1, <2>2 DEF HeldBack
<1> QED
  BY <1>2, <1>3

\* AgentHeldBack, of any readers, processes and files, where no holder
\* outlives the bound a lock is stale after: an agent file's lines written
\* outside are not stored before the main file's cursor has passed the
\* return.
THEOREM AgentIsHeldBack == ASSUME ~Suspends PROVE Spec => []AgentHeldBack
<1>1. HeldBack => AgentHeldBack
  <2> SUFFICES ASSUME HeldBack, NEW s \in Kept("agent") \cap WrittenOutside("agent")
               PROVE  \E i \in 1..entry["main"].offset :
                        /\ i <= Len(disk["main"].lines)
                        /\ disk["main"].lines[i].kind = "in" /\ disk["main"].lines[i].serial > s
    BY DEF AgentHeldBack
  <2>1. PICK i \in 1..Len(MainLines) :
          MainLines[i].kind = "in" /\ MainLines[i].serial > s /\ PastMove(entry["main"], MainLines, i)
    BY DEF HeldBack, HeldInv, Waited, Returned
  <2>2. entry["main"].offset \in Nat
    BY DEF HeldBack, SInv, Shape, Files, AnyCursors
  <2>3. Len(MainLines) \in Nat
    BY LenProperties DEF HeldBack, SInv, Shape, Files, FileStates, MainLines
  <2>4. i \in 1..entry["main"].offset /\ i <= Len(MainLines)
    BY <2>1, <2>2, <2>3 DEF PastMove
  <2> QED
    BY <2>1, <2>4 DEF MainLines
<1> QED
  BY <1>1, InitHeldBack, NextHeldBack, PTL DEF Spec

-----------------------------------------------------------------------------
(* A line is in one record: what a file and a cursor have to do with the     *)
(* records.  K is what one of them holds.                                   *)

\* What the file still has of K is known.
Known(K, ids, lines) == \A j \in 1..Len(lines) : lines[j].serial \in K => lines[j].serial \in ids

\* What the file still has of K are the first of our lines not known.
Foremost(K, ids, lines) ==
  /\ \A j \in 1..Len(lines) : lines[j].serial \in K => Ours(lines[j]) /\ lines[j].serial \notin ids
  /\ \A i, j \in 1..Len(lines) :
       i < j /\ lines[j].serial \in K /\ Ours(lines[i]) /\ lines[i].serial \notin ids => lines[i].serial \in K

\* The lines ahead of the cursor c that it knows are those it is to skip.
Fresh(c, file, now) ==
  /\ c.inode = 0 => c.ids = {}
  /\ \A s \in c.ids : s <= now
  /\ file.exists /\ c.inode = file.inode =>
       \A j \in 1..Len(file.lines) :
         j > c.offset /\ file.lines[j].serial \in c.ids => file.lines[j].serial \in c.before

\* All that the cursor's file has of K is on one side of the cursor.
Ahead(K, c, file) ==
  c.inode = file.inode => \A j \in 1..Len(file.lines) : file.lines[j].serial \in K => j > c.offset
Behind(K, c, file) ==
  c.inode = file.inode => \A j \in 1..Len(file.lines) : file.lines[j].serial \in K => j <= c.offset

\* What one segment may hold.
Small(K, now) == (\A s \in K : s <= now) /\ Cardinality(K) <= MaxKept

\* The lines of file2 are lines of file, in their places unless the file was
\* replaced, or were written since.
Stems(file2, file, now) ==
  /\ file2.exists => file.exists
  /\ file.inode <= file2.inode
  /\ \A j \in 1..Len(file2.lines) :
       \/ file2.lines[j].serial > now
       \/ \E i \in 1..Len(file.lines) :
            file.lines[i] = file2.lines[j] /\ (file.inode = file2.inode => i = j)

LEMMA ChangedStems ==
  ASSUME NEW file \in FileStates, NEW file2, clock \in Int, Changed(file, file2)
  PROVE  Stems(file2, file, clock)
<1>a. file.lines \in Seq(Lines) /\ Len(file.lines) \in Nat /\ file.inode \in Nat
  BY LenProperties DEF FileStates
<1>1. CASE file2 = file
  BY <1>1, <1>a DEF Stems
<1>2. ASSUME NEW l \in Lines, Grown(file, file2, l) PROVE Stems(file2, file, clock)
  <2>1. /\ file.exists /\ file2.inode = file.inode /\ l.serial = clock + 1
        /\ Len(file2.lines) = Len(file.lines) + 1 /\ file2.lines[Len(file.lines) + 1] = l
        /\ \A i \in 1..Len(file.lines) : file2.lines[i] = file.lines[i]
    BY <1>2, GrownIs
  <2>2. \A j \in 1..Len(file2.lines) : j = Len(file.lines) + 1 \/ j \in 1..Len(file.lines)
    BY <2>1, <1>a
  <2>3. ASSUME NEW j \in 1..Len(file2.lines)
        PROVE  file2.lines[j].serial > clock \/ \E i \in 1..Len(file.lines) : file.lines[i] = file2.lines[j] /\ i = j
    <3>1. CASE j = Len(file.lines) + 1
      BY <3>1, <2>1
    <3>2. CASE j \in 1..Len(file.lines)
      BY <3>2, <2>1
    <3> QED
      BY <3>1, <3>2, <2>2
  <2> QED
    BY <2>1, <2>3, <1>a DEF Stems
<1>3. CASE Replaced(file, file2)
  <2>1. PICK m, g : Lost(file.lines, file2.lines, m, g)
    BY <1>3, ReplacedIs
  <2>2. file.exists /\ file2.inode = file.inode + 1
    BY <1>3, ReplacedIs
  <2>3. /\ Len(file2.lines) = m
        /\ \A i \in 1..m : file2.lines[i] = file.lines[g[i]] /\ g[i] \in 1..Len(file.lines)
    BY <2>1, <1>a, ThinnedIs DEF Lost
  <2> QED
    BY <2>2, <2>3, <1>a DEF Stems
<1>4. CASE Gone(file, file2)
  <2>1. ~file2.exists /\ file2.inode = file.inode /\ Len(file2.lines) = 0
    BY <1>4, GoneIs
  <2> QED
    BY <2>1, <1>a DEF Stems
<1> QED
  BY <1>1, <1>2, <1>3, <1>4 DEF Changed

\* None of this is undone by a change of the file.
LEMMA KnownKept ==
  ASSUME NEW file, NEW file2, NEW now \in Int, Stems(file2, file, now),
         NEW K \in SUBSET Int, \A s \in K : s <= now, NEW ids, Known(K, ids, file.lines)
  PROVE  Known(K, ids, file2.lines)
<1> SUFFICES ASSUME NEW j \in 1..Len(file2.lines), file2.lines[j].serial \in K
             PROVE  file2.lines[j].serial \in ids
  BY DEF Known
<1>a. file2.lines[j].serial \in Int /\ file2.lines[j].serial <= now
  OBVIOUS
<1>1. PICK i \in 1..Len(file.lines) : file.lines[i] = file2.lines[j]
  BY <1>a DEF Stems
<1> QED
  BY <1>1 DEF Known

LEMMA ForemostKept ==
  ASSUME NEW file \in FileStates, NEW file2 \in FileStates, NEW now \in Int, Stems(file2, file, now),
         Sorted(file.lines), Sorted(file2.lines),
         NEW K \in SUBSET Int, \A s \in K : s <= now, NEW ids, Foremost(K, ids, file.lines)
  PROVE  Foremost(K, ids, file2.lines)
<1>a. /\ file.lines \in Seq(Lines) /\ file2.lines \in Seq(Lines)
      /\ Len(file.lines) \in Nat /\ Len(file2.lines) \in Nat
  BY LenProperties DEF FileStates
<1>b. /\ \A i \in 1..Len(file.lines) : file.lines[i].serial \in Int
      /\ \A i \in 1..Len(file2.lines) : file2.lines[i].serial \in Int
  BY <1>a, LineIs
<1>1. ASSUME NEW j \in 1..Len(file2.lines), file2.lines[j].serial <= now
      PROVE  \E i \in 1..Len(file.lines) : file.lines[i] = file2.lines[j]
  BY <1>1, <1>b DEF Stems
<1>2. ASSUME NEW j \in 1..Len(file2.lines), file2.lines[j].serial \in K
      PROVE  Ours(file2.lines[j]) /\ file2.lines[j].serial \notin ids
  <2>1. PICK i \in 1..Len(file.lines) : file.lines[i] = file2.lines[j]
    BY <1>1, <1>2
  <2> QED
    BY <2>1, <1>2 DEF Foremost
<1>3. ASSUME NEW i \in 1..Len(file2.lines), NEW j \in 1..Len(file2.lines), i < j, file2.lines[j].serial \in K,
             Ours(file2.lines[i]), file2.lines[i].serial \notin ids
      PROVE  file2.lines[i].serial \in K
  <2>1. file2.lines[i].serial < file2.lines[j].serial /\ file2.lines[j].serial <= now
    BY <1>3 DEF Sorted
  <2>2. PICK j0 \in 1..Len(file.lines) : file.lines[j0] = file2.lines[j]
    BY <1>1, <2>1
  <2>3. file2.lines[i].serial <= now
    BY <2>1, <1>b
  <2>4. PICK i0 \in 1..Len(file.lines) : file.lines[i0] = file2.lines[i]
    BY <1>1, <2>3
  <2>5. i0 < j0
    <3>1. CASE j0 < i0
      <4>1. file.lines[j0].serial < file.lines[i0].serial
        BY <3>1 DEF Sorted
      <4> QED
        BY <4>1, <2>1, <2>2, <2>4, <1>b
    <3>2. CASE j0 = i0
      BY <3>2, <2>1, <2>2, <2>4, <1>b
    <3> QED
      BY <3>1, <3>2
  <2> QED
    BY <2>2, <2>4, <2>5, <1>3 DEF Foremost
<1> QED
  BY <1>2, <1>3 DEF Foremost

LEMMA FreshKept ==
  ASSUME NEW file \in FileStates, NEW file2 \in FileStates, NEW now \in Int, Stems(file2, file, now),
         NEW later \in Int, now <= later,
         NEW c \in AnyCursors, c.inode <= file.inode, Fresh(c, file, now)
  PROVE  Fresh(c, file2, later)
<1>a. /\ c.ids \subseteq Int /\ c.inode \in Nat /\ file.inode \in Nat /\ file2.inode \in Nat
  BY BoundAssumption DEF AnyCursors, Serials, FileStates
<1>1. \A s \in c.ids : s <= later
  BY <1>a DEF Fresh
<1>2. ASSUME file2.exists, c.inode = file2.inode, NEW j \in 1..Len(file2.lines),
             j > c.offset, file2.lines[j].serial \in c.ids
      PROVE  file2.lines[j].serial \in c.before
  <2>1. file.exists /\ c.inode = file.inode /\ file.inode = file2.inode
    BY <1>2, <1>a DEF Stems
  <2>2. ~(file2.lines[j].serial > now)
    BY <1>2, <1>a DEF Fresh
  <2>3. j \in 1..Len(file.lines) /\ file.lines[j] = file2.lines[j]
    BY <2>1, <2>2 DEF Stems
  <2> QED
    BY <2>1, <2>3, <1>2 DEF Fresh
<1> QED
  BY <1>1, <1>2 DEF Fresh

LEMMA SideKept ==
  ASSUME NEW file \in FileStates, NEW file2 \in FileStates, NEW now \in Int, Stems(file2, file, now),
         NEW c \in AnyCursors, c.inode <= file.inode, NEW K \in SUBSET Int, \A s \in K : s <= now
  PROVE  /\ Ahead(K, c, file) => Ahead(K, c, file2)
         /\ Behind(K, c, file) => Behind(K, c, file2)
<1>a. c.inode \in Nat /\ file.inode \in Nat /\ file2.inode \in Nat
  BY DEF AnyCursors, FileStates
<1>1. ASSUME c.inode = file2.inode, NEW j \in 1..Len(file2.lines), file2.lines[j].serial \in K
      PROVE  c.inode = file.inode /\ j \in 1..Len(file.lines) /\ file.lines[j] = file2.lines[j]
  <2>1. c.inode = file.inode /\ file.inode = file2.inode
    BY <1>1, <1>a DEF Stems
  <2>2. ~(file2.lines[j].serial > now)
    <3>1. file2.lines[j].serial \in Int /\ file2.lines[j].serial <= now
      BY <1>1
    <3> QED
      BY <3>1
  <2> QED
    BY <2>1, <2>2 DEF Stems
<1> QED
  BY <1>1 DEF Ahead, Behind

\* A segment that is part of a record but not all of it is not full.
LEMMA Fits ==
  ASSUME NEW K \in SUBSET Serials, NEW X \in SUBSET Serials, K \subseteq X, K # X, Cardinality(X) <= MaxKept
  PROVE  Cardinality(K) < MaxKept
<1>1. IsFiniteSet(Serials)
  BY FS_Interval, BoundAssumption DEF Serials
<1>2. IsFiniteSet(X)
  BY <1>1, FS_Subset
<1>3. Cardinality(K) <= Cardinality(X) /\ (Cardinality(K) = Cardinality(X) => X = K) /\ IsFiniteSet(K)
  BY <1>2, FS_Subset
<1>4. Cardinality(K) \in Nat /\ Cardinality(X) \in Nat
  BY <1>2, <1>3, FS_CardinalityType
<1> QED
  BY <1>3, <1>4, BoundAssumption


\* Nothing more of ours could be taken.
Full(K, ids, lines) ==
  \/ Cardinality(K) = MaxKept
  \/ \A j \in 1..Len(lines) : Ours(lines[j]) => lines[j].serial \in K \cup ids

\* What one reading comes to, of what the cursor did not know.
Takes(res, c, file, now) ==
  LET d == res.cursor  K == res.kept IN
  /\ d.ids = c.ids \cup K /\ d.next = (IF K = {} THEN c.next ELSE c.next + 1)
  /\ Small(K, now) /\ Fresh(d, file, now)
  /\ K \cap c.ids = {}

\* The file has all of K.
Has(lines, K) == \A s \in K : \E j \in 1..Len(lines) : lines[j].serial = s

\* In a file no line stands twice.
LEMMA OncePlaced ==
  ASSUME NEW lines \in Seq(Lines), Sorted(lines), NEW i \in 1..Len(lines), NEW j \in 1..Len(lines),
         lines[i].serial = lines[j].serial
  PROVE  i = j
<1>1. lines[i].serial \in Int /\ lines[j].serial \in Int /\ Len(lines) \in Nat
  BY LineIs
<1>2. CASE i < j
  BY <1>1, <1>2 DEF Sorted
<1>3. CASE j < i
  BY <1>1, <1>3 DEF Sorted
<1> QED
  BY <1>1, <1>2, <1>3

\* What a reading of the file from the cursor c keeps lies between c and the
\* cursor d it leaves, which goes on to skip, or has nothing ahead to skip.
ReadFrom(K, d, c, sight, file) ==
  LET start == StartOf(c, sight)  skip == SkipOf(c, sight)  n == Len(file.lines) IN
  /\ K \in SUBSET Serials /\ d \in AnyCursors
  /\ d.inode = file.inode /\ d.ids = c.ids \cup K /\ start <= d.offset
  /\ \A s \in K : /\ s \notin skip
                  /\ \E j \in (start + 1)..d.offset : j <= n /\ file.lines[j].serial = s
  /\ \/ d.before = skip
     \/ \A j \in 1..n : j > d.offset => file.lines[j].serial \notin c.ids

\* The cursor that results skips ahead what it knows, if the lines taken are
\* behind it.
LEMMA FreshAgain ==
  ASSUME NEW file, file.exists, file.inode \in Nat, file.lines \in Seq(Lines), Sorted(file.lines),
         NEW now \in Int, \A j \in 1..Len(file.lines) : file.lines[j].serial <= now,
         NEW c \in AnyCursors, c.before \subseteq c.ids, Fresh(c, file, now),
         NEW sight \in Sights, sight.inode = file.inode, file.inode >= 1,
         NEW K, NEW d, ReadFrom(K, d, c, sight, file)
  PROVE  /\ Fresh(d, file, now)
         /\ \A s \in K : s \notin c.ids /\ \E j \in 1..Len(file.lines) : file.lines[j].serial = s
<1> DEFINE start == StartOf(c, sight)
           skip  == SkipOf(c, sight)
           L     == file.lines
<1>0. /\ K \in SUBSET Serials /\ d \in AnyCursors
      /\ d.inode = file.inode /\ d.ids = c.ids \cup K /\ start <= d.offset
      /\ \A s \in K : /\ s \notin skip
                      /\ \E j \in (start + 1)..d.offset : j <= Len(L) /\ L[j].serial = s
      /\ \/ d.before = skip
         \/ \A j \in 1..Len(L) : j > d.offset => L[j].serial \notin c.ids
  BY DEF ReadFrom
<1>a. /\ Len(L) \in Nat /\ c.offset \in Nat /\ d.offset \in Nat /\ c.inode \in Nat /\ d.inode \in Nat
  BY <1>0, LenProperties DEF AnyCursors
<1>1. \/ c.inode # 0 /\ c.inode # file.inode /\ start = 0 /\ skip = c.ids
      \/ c.inode = 0 /\ start = c.offset /\ skip = c.before /\ c.ids = {}
      \/ c.inode = file.inode /\ start = c.offset /\ skip = c.before
  BY DEF Restarts, StartOf, SkipOf, Fresh
<1>2. start \in Nat
  BY <1>1, <1>a
<1> HIDE DEF start, skip
<1>3. ASSUME NEW s \in K
      PROVE  /\ s \notin c.ids
             /\ \E j \in 1..Len(L) : L[j].serial = s /\ j > start /\ j <= d.offset
  <2>1. s \notin skip
    BY <1>0
  <2>2. PICK j \in (start + 1)..d.offset : j <= Len(L) /\ L[j].serial = s
    BY <1>0
  <2>3. j \in 1..Len(L) /\ j > start /\ j <= d.offset
    BY <2>2, <1>2, <1>a
  <2>4. CASE skip = c.ids \/ c.ids = {}
    BY <2>1, <2>2, <2>3, <2>4
  <2>5. CASE c.inode = file.inode /\ start = c.offset /\ skip = c.before
    BY <2>1, <2>2, <2>3, <2>5 DEF Fresh
  <2> QED
    BY <2>4, <2>5, <1>1
<1>4. \A s \in d.ids : s <= now
  BY <1>0, <1>3 DEF Fresh
<1>5. ASSUME NEW j \in 1..Len(L), j > d.offset, L[j].serial \in d.ids PROVE L[j].serial \in d.before
  <2>1. L[j].serial \notin K
    <3> SUFFICES ASSUME L[j].serial \in K PROVE FALSE
      OBVIOUS
    <3>1. PICK i \in 1..Len(L) : L[i].serial = L[j].serial /\ i <= d.offset
      BY <1>3
    <3>2. i = j
      BY <3>1, OncePlaced
    <3> QED
      BY <3>1, <3>2, <1>5, <1>a
  <2>2. L[j].serial \in c.ids
    BY <2>1, <1>5, <1>0
  <2>3. d.before = skip
    BY <2>2, <1>5, <1>0
  <2>4. CASE skip = c.ids \/ c.ids = {}
    BY <2>2, <2>3, <2>4
  <2>5. CASE c.inode = file.inode /\ start = c.offset /\ skip = c.before
    <3>1. j > c.offset
      BY <2>5, <1>5, <1>a, <1>0
    <3> QED
      BY <3>1, <2>2, <2>3, <2>5 DEF Fresh
  <2> QED
    BY <2>4, <2>5, <1>1
<1>6. d.inode # 0
  BY <1>0
<1> QED
  BY <1>3, <1>4, <1>5, <1>6 DEF Fresh

\* Reading a main file takes the first of our lines not known.
LEMMA ReadMainTakes ==
  ASSUME NEW file, file.exists, file.inode \in Nat, file.inode >= 1,
         file.lines \in Seq(Lines), Sorted(file.lines), Trail(file.lines),
         NEW now \in Int, \A j \in 1..Len(file.lines) : file.lines[j].serial <= now,
         NEW c \in AnyCursors, Sound(c, file), Fresh(c, file, now),
         NEW sight \in Sights, sight.inode = file.inode, sight.size = Len(file.lines)
  PROVE  LET res == ReadLines(c, sight, file.lines, FALSE) IN
         /\ Takes(res, c, file, now) /\ Has(file.lines, res.kept)
         /\ Foremost(res.kept, c.ids, file.lines) /\ Full(res.kept, c.ids, file.lines)
<1> DEFINE L     == file.lines
           n     == Len(L)
           start == StartOf(c, sight)
           skip  == SkipOf(c, sight)
           a     == PassOf(c, sight, L, FALSE)
           res   == ReadLines(c, sight, L, FALSE)
           d     == res.cursor
           K     == res.kept
<1>a. c.inode \in Nat /\ c.offset \in Nat /\ n \in Nat /\ c.before \subseteq c.ids
  BY LenProperties DEF AnyCursors, Sound
<1>1. \/ c.inode # 0 /\ c.inode # file.inode /\ start = 0 /\ skip = c.ids
      \/ c.inode = 0 /\ start = c.offset /\ skip = c.before
      \/ c.inode = file.inode /\ start = c.offset /\ skip = c.before
  BY DEF Restarts, StartOf, SkipOf
<1>2. PassEnds(a, L, start, skip) /\ ReadsTo(res, c, sight, a) /\ Startable(L, start, c.outside, skip)
  BY ReadMainEnds, Zenon
<1> HIDE DEF a, start, skip, res
<1>3. /\ a \in PassStates(n) /\ start <= a.offset
      /\ \A s \in a.kept : s \notin skip /\ \E j \in (start + 1)..a.offset :
              L[j].serial = s /\ L[j].kind = "say" /\ L[j].at = "in"
      /\ Gathered(a, L, start, skip)
      /\ IF a.more THEN StopsAt(a, L, skip) ELSE a.offset = n
      /\ Cardinality(a.kept) <= MaxKept
  BY <1>2 DEF PassEnds
<1>4. /\ K = a.kept /\ d \in AnyCursors /\ d.inode = file.inode /\ d.offset = a.offset
      /\ d.ids = c.ids \cup K /\ d.before = (IF a.more THEN skip ELSE {})
      /\ d.next = (IF K = {} THEN c.next ELSE c.next + 1) /\ K \in SUBSET Serials
  BY <1>2 DEF ReadsTo, Results, skip
<1>5. a.offset \in 0..n /\ start \in 0..n /\ skip \subseteq c.ids
  BY <1>1, <1>2, <1>3, <1>a DEF PassStates, Startable
<1> HIDE DEF K, d
<1>6. ASSUME NEW s \in K
      PROVE  \E j \in (start + 1)..d.offset : /\ j <= n /\ j \in 1..n /\ L[j].serial = s
                                              /\ L[j].kind = "say" /\ L[j].at = "in"
  BY <1>3, <1>4, <1>5, <1>a
<1>7. /\ Fresh(d, file, now)
      /\ \A s \in K : s \notin c.ids /\ \E j \in 1..n : L[j].serial = s
  <2>1. \A s \in K : /\ s \notin SkipOf(c, sight)
                     /\ \E j \in (StartOf(c, sight) + 1)..d.offset : j <= n /\ L[j].serial = s
    <3>1. \A s \in K : s \notin skip /\ \E j \in (start + 1)..d.offset : j <= n /\ L[j].serial = s
      BY <1>3, <1>4, <1>6
    <3> QED
      BY <3>1 DEF start, skip
  <2>2. d.before = SkipOf(c, sight) \/ \A j \in 1..n : j > d.offset => L[j].serial \notin c.ids
    <3>1. d.before = skip \/ \A j \in 1..n : j > d.offset => L[j].serial \notin c.ids
      BY <1>3, <1>4, <1>5, <1>a
    <3> QED
      BY <3>1 DEF skip
  <2>3. StartOf(c, sight) <= d.offset
    BY <1>3, <1>4 DEF start
  <2> QED
    <3>1. ReadFrom(K, d, c, sight, file)
      BY <2>1, <2>2, <2>3, <1>4 DEF ReadFrom
    <3> QED
      BY <3>1, <1>a, FreshAgain
<1>8. Small(K, now)
  BY <1>3, <1>4, <1>7 DEF Small
<1>9. ASSUME NEW i \in 1..n, Ours(L[i]), L[i].serial \notin c.ids, i <= a.offset PROVE L[i].serial \in K
  <2>1. CASE i > start
    <3>1. i \in (start + 1)..a.offset
      BY <2>1, <1>5, <1>9, <1>a
    <3> QED
      BY <3>1, <1>3, <1>4, <1>5, <1>9 DEF Gathered
  <2>2. CASE i <= start
    <3>1. Covers(c.ids, L, start) /\ i \in 1..start
      BY <2>2, <1>1, <1>5, <1>a DEF Sound
    <3> QED
      BY <3>1, <1>9 DEF Covers
  <2> QED
    BY <2>1, <2>2, <1>5
<1>10. Foremost(K, c.ids, L)
  <2>1. ASSUME NEW j \in 1..n, L[j].serial \in K PROVE Ours(L[j]) /\ L[j].serial \notin c.ids /\ j <= a.offset
    <3>1. PICK i \in (start + 1)..d.offset : i \in 1..n /\ L[i].serial = L[j].serial /\ L[i].kind = "say" /\ L[i].at = "in"
      BY <1>6, <2>1
    <3>2. i = j
      BY <3>1, OncePlaced
    <3>3. j <= a.offset
      BY <3>1, <3>2, <1>4, <1>5
    <3> QED
      BY <3>1, <3>2, <3>3, <2>1, <1>7 DEF Ours
  <2>2. ASSUME NEW i \in 1..n, NEW j \in 1..n, i < j, L[j].serial \in K, Ours(L[i]), L[i].serial \notin c.ids
        PROVE  L[i].serial \in K
    <3>1. i <= a.offset
      BY <2>1, <2>2, <1>5, <1>a
    <3> QED
      BY <3>1, <2>2, <1>9
  <2> QED
    BY <2>1, <2>2 DEF Foremost
<1>11. Full(K, c.ids, L)
  <2>1. CASE a.more
    BY <2>1, <1>3, <1>4 DEF StopsAt, Full
  <2>2. CASE ~a.more
    BY <2>2, <1>3, <1>9 DEF Full
  <2> QED
    BY <2>1, <2>2
<1> QED
  BY <1>4, <1>7, <1>8, <1>10, <1>11 DEF Takes, Has, res, K, d

\* Of a record that is the first of our lines not known, a reading from the
\* same cursor takes all the file still has.
LEMMA TakesAgain ==
  ASSUME NEW lines \in Seq(Lines), Sorted(lines), NEW ids,
         NEW K \in SUBSET Serials, NEW X \in SUBSET Serials, Cardinality(X) <= MaxKept,
         Foremost(X, ids, lines), Foremost(K, ids, lines), Full(K, ids, lines),
         Has(lines, K)
  PROVE  Known(X, K, lines)
<1>a. Len(lines) \in Nat
  BY LenProperties
<1> SUFFICES ASSUME NEW p \in 1..Len(lines), lines[p].serial \in X, lines[p].serial \notin K PROVE FALSE
  BY DEF Known
<1>1. Ours(lines[p]) /\ lines[p].serial \notin ids
  BY DEF Foremost
<1>2. Cardinality(K) = MaxKept
  BY <1>1 DEF Full
<1>3. ASSUME NEW s \in K PROVE s \in X
  <2>1. PICK q \in 1..Len(lines) : lines[q].serial = s
    BY DEF Has
  <2>2. Ours(lines[q]) /\ lines[q].serial \notin ids
    BY <2>1 DEF Foremost
  <2>3. CASE q < p
    BY <2>1, <2>2, <2>3 DEF Foremost
  <2>4. CASE p < q
    BY <2>1, <2>4, <1>1 DEF Foremost
  <2>5. CASE p = q
    BY <2>1, <2>5
  <2> QED
    BY <2>3, <2>4, <2>5, <1>a
<1>4. Cardinality(K) < MaxKept
  BY <1>3, Fits
<1> QED
  BY <1>2, <1>4, BoundAssumption

\* An agent file that is read from the cursor c as far as it was observed:
\* what lies beyond is in none of the segments of X.
Scannable(c, sight, file, now, X) ==
  /\ file.exists /\ file.inode \in Nat /\ file.inode >= 1 /\ file.lines \in Seq(Lines) /\ Sorted(file.lines)
  /\ now \in Int /\ \A j \in 1..Len(file.lines) : file.lines[j].serial <= now
  /\ c \in AnyCursors /\ c.before \subseteq c.ids /\ (c.inode = 0 => c.offset = 0) /\ Fresh(c, file, now)
  /\ sight \in Sights /\ sight.inode = file.inode
  /\ \A j \in 1..Len(file.lines) : j > sight.size =>
       file.lines[j].serial \notin c.ids /\ \A K \in X : file.lines[j].serial \notin K

\* Where a reading of an agent file starts.
LEMMA ScanStarts ==
  ASSUME NEW file, NEW c, NEW sight, NEW now, NEW X, Scannable(c, sight, file, now, X)
  PROVE  LET start == StartOf(c, sight)  skip == SkipOf(c, sight) IN
         /\ start \in Nat /\ skip \subseteq c.ids
         /\ c.inode = file.inode => start = c.offset
         /\ c.inode # file.inode => start = 0
<1>1. c.inode \in Nat /\ c.offset \in Nat /\ sight.inode = file.inode
  BY DEF Scannable, AnyCursors
<1> QED
  BY <1>1 DEF Scannable, StartOf, SkipOf, Restarts

LEMMA ReadAgentTakes ==
  ASSUME NEW file, NEW c, NEW sight, NEW now, NEW X, Scannable(c, sight, file, now, X),
         NEW out \in BOOLEAN, NEW res, AgentRead(res, c, sight, file.lines, out)
  PROVE  Takes(res, c, file, now) /\ Has(file.lines, res.kept) /\ Ahead(res.kept, c, file)
<1> DEFINE d == res.cursor
           K == res.kept
           L == file.lines
           start == StartOf(c, sight)
           skip  == SkipOf(c, sight)
<1>a. /\ file.exists /\ file.inode \in Nat /\ file.inode >= 1 /\ L \in Seq(Lines) /\ Sorted(L) /\ Len(L) \in Nat
      /\ now \in Int /\ \A j \in 1..Len(L) : L[j].serial <= now
      /\ c \in AnyCursors /\ c.before \subseteq c.ids /\ Fresh(c, file, now)
      /\ sight \in Sights /\ sight.inode = file.inode /\ sight.size \in Nat
  BY LenProperties DEF Scannable, Sights
<1>b. start \in Nat /\ (c.inode = file.inode => start = c.offset)
  BY ScanStarts
<1>c. /\ K \in SUBSET Serials /\ d \in AnyCursors /\ d.inode = file.inode /\ d.ids = c.ids \cup K /\ start <= d.offset
      /\ d.next = (IF K = {} THEN c.next ELSE c.next + 1) /\ Cardinality(K) <= MaxKept /\ d.offset \in Nat
  BY <1>a DEF AgentRead, Results, AnyCursors
<1>d. /\ \A s \in K : s \notin skip
      /\ \A s \in K : \E j \in (start + 1)..d.offset : j <= Len(L) /\ L[j].serial = s
      /\ IF res.more THEN d.before = skip ELSE Least(sight.size, Len(L)) <= d.offset
  BY DEF AgentRead
<1> HIDE DEF start, skip, d, K
<1>1. d.before = skip \/ \A j \in 1..Len(L) : j > d.offset => L[j].serial \notin c.ids
  <2>1. CASE res.more
    BY <2>1, <1>d
  <2>2. ASSUME ~res.more, NEW j \in 1..Len(L), j > d.offset PROVE L[j].serial \notin c.ids
    <3>1. j > sight.size
      BY <2>2, <1>a, <1>c, <1>d DEF Least
    <3> QED
      BY <3>1 DEF Scannable
  <2> QED
    BY <2>1, <2>2
<1>2. ReadFrom(K, d, c, sight, file)
  BY <1>1, <1>c, <1>d DEF ReadFrom, start, skip
<1>3. /\ Fresh(d, file, now)
      /\ \A s \in K : s \notin c.ids /\ \E j \in 1..Len(L) : L[j].serial = s
  BY <1>2, <1>a, FreshAgain
<1>4. Small(K, now)
  BY <1>3, <1>a, <1>c DEF Small
<1>5. Takes(res, c, file, now)
  BY <1>3, <1>4, <1>c DEF Takes, K, d
<1>6. ASSUME c.inode = file.inode, NEW j \in 1..Len(L), L[j].serial \in K PROVE j > c.offset
  <2>1. PICK i \in (start + 1)..d.offset : i <= Len(L) /\ L[i].serial = L[j].serial
    BY <1>6, <1>d
  <2>2. i \in 1..Len(L) /\ i > c.offset
    BY <2>1, <1>6, <1>a, <1>b, <1>c
  <2>3. i = j
    BY <2>1, <2>2, <1>a, OncePlaced
  <2> QED
    BY <2>2, <2>3
<1> QED
  BY <1>3, <1>5, <1>6 DEF Ahead, Has, K

\* Reading again what a record was read from comes to none of its lines and
\* leaves them behind, or to all the file still has of them, if to no other.
LEMMA ReadAgentAgain ==
  ASSUME NEW file, NEW c, NEW sight, NEW now, NEW X, Scannable(c, sight, file, now, X),
         NEW out \in BOOLEAN, NEW res, AgentRead(res, c, sight, file.lines, out),
         NEW K2 \in X, K2 \in SUBSET Serials, Cardinality(K2) <= MaxKept, K2 \cap c.ids = {},
         Ahead(K2, c, file) \/ Behind(K2, c, file)
  PROVE  IF res.kept = {} THEN Behind(K2, res.cursor, file)
         ELSE res.kept \subseteq K2 => Known(K2, res.kept, file.lines)
<1> DEFINE d == res.cursor
           K == res.kept
           L == file.lines
           start == StartOf(c, sight)
           skip  == SkipOf(c, sight)
<1>a. L \in Seq(Lines) /\ Len(L) \in Nat /\ sight.size \in Nat
  BY LenProperties DEF Scannable, Sights
<1>b. start \in Nat /\ skip \subseteq c.ids /\ (c.inode = file.inode => start = c.offset) /\ (c.inode # file.inode => start = 0)
  BY ScanStarts
<1>c. K \in SUBSET Serials /\ d.inode = file.inode /\ d.offset \in Nat /\ Cardinality(K) <= MaxKept
  BY DEF AgentRead, Results, AnyCursors, Scannable
<1>d. /\ \A s \in K : \E j \in (start + 1)..d.offset : j <= Len(L) /\ L[j].serial = s
      /\ IF res.more THEN Cardinality(K) = MaxKept ELSE Least(sight.size, Len(L)) <= d.offset
      /\ out => K = {}
      /\ ~out => \A j \in (start + 1)..d.offset : L[j].serial \in K \cup skip
  BY DEF AgentRead
<1> HIDE DEF start, skip, d, K
<1>1. ASSUME ~res.more, NEW j \in 1..Len(L), L[j].serial \in K2 PROVE j <= d.offset
  <2>1. j <= sight.size
    BY <1>1, <1>a DEF Scannable
  <2> QED
    BY <2>1, <1>1, <1>a, <1>c, <1>d DEF Least
<1>2. CASE K = {}
  <2>1. ~res.more
    BY <1>2, <1>d, FS_EmptySet, BoundAssumption
  <2> QED
    BY <2>1, <1>1, <1>2 DEF Behind, K, d
<1>3. ASSUME K # {}, K \subseteq K2, NEW j \in 1..Len(L), L[j].serial \in K2, L[j].serial \notin K PROVE FALSE
  <2>1. Cardinality(K) < MaxKept
    BY <1>3, <1>c, Fits
  <2>2. ~res.more
    BY <2>1, <1>d, BoundAssumption
  <2>3. j <= d.offset
    BY <2>2, <1>1, <1>3
  <2>4. j > start
    <3>1. PICK s \in K : TRUE
      BY <1>3
    <3>2. PICK i \in (start + 1)..d.offset : i <= Len(L) /\ L[i].serial = s
      BY <1>d
    <3>3. i \in 1..Len(L) /\ i > start /\ L[i].serial \in K2
      BY <3>2, <1>3, <1>a, <1>b, <1>c
    <3>4. CASE c.inode = file.inode
      <4>1. ~Behind(K2, c, file)
        BY <3>3, <3>4, <1>a, <1>b DEF Behind
      <4>2. j > c.offset
        BY <4>1, <3>4, <1>3 DEF Ahead
      <4> QED
        BY <4>2, <3>4, <1>b
    <3>5. CASE c.inode # file.inode
      BY <3>5, <1>b
    <3> QED
      BY <3>4, <3>5
  <2>5. j \in (start + 1)..d.offset
    BY <2>3, <2>4, <1>b, <1>c
  <2>6. L[j].serial \in c.ids
    BY <2>5, <1>b, <1>d, <1>3
  <2> QED
    BY <2>6, <1>3
<1>4. CASE K # {}
  BY <1>3, <1>4 DEF Known, K
<1> QED
  BY <1>2, <1>4

-----------------------------------------------------------------------------
(* A line is in one record: the inductive invariant.                        *)

\* A record of the file, and the cursor written for it: it knows what earlier
\* records hold, and nothing of the one that waits for the next cursor.
RecordOnce(x, c, file, now) ==
  /\ x.no <= c.next /\ Small(x.lines, now)
  /\ x.no < c.next => Known(x.lines, c.ids, file.lines)
  /\ x.no = c.next =>
       IF x.file = "main" THEN Foremost(x.lines, c.ids, file.lines)
       ELSE x.lines \cap c.ids = {} /\ (Ahead(x.lines, c, file) \/ Behind(x.lines, c, file))

\* What a round that started from the cursor c came to.
SegmentOnce(f, res, c, file, now) ==
  /\ Takes(res, c, file, now)
  /\ IF f = "main" THEN Foremost(res.kept, c.ids, file.lines) ELSE Ahead(res.kept, c, file)

\* That, and a record of the file: an earlier one holds none of it, and of
\* one that is stored for it, the file has nothing else.
BesideOnce(x, res, c, file, storing) ==
  /\ x.no < c.next => x.lines \cap res.kept = {}
  /\ x.no = c.next =>
       IF x.file = "main" THEN Known(x.lines, res.kept, file.lines)
       ELSE IF res.kept = {} THEN Behind(x.lines, res.cursor, file)
       ELSE (storing => res.kept \subseteq x.lines) => Known(x.lines, res.kept, file.lines)

\* A file, with what was written so far.
Sane(file, now) ==
  /\ file \in FileStates /\ Sorted(file.lines) /\ now \in Int
  /\ \A j \in 1..Len(file.lines) : file.lines[j].serial <= now

\* None of it is undone by a change of the file.
LEMMA RecordOnceKept ==
  ASSUME NEW now, NEW later \in Int, now <= later, NEW file, Sane(file, now), NEW file2, Sane(file2, later),
         Stems(file2, file, now), NEW c \in AnyCursors, c.inode <= file.inode,
         NEW x \in Records, RecordOnce(x, c, file, now)
  PROVE  RecordOnce(x, c, file2, later)
<1> DEFINE K == x.lines
<1>a. K \in SUBSET Int /\ (\A s \in K : s <= now) /\ Small(K, now) /\ now \in Int
  BY BoundAssumption DEF RecordOnce, Small, Records, Serials, Sane
<1>b. /\ file \in FileStates /\ Sorted(file.lines) /\ file2 \in FileStates /\ Sorted(file2.lines)
  BY DEF Sane
<1>1. Small(K, later)
  BY <1>a DEF Small
<1>2. x.no < c.next => Known(K, c.ids, file2.lines)
  BY <1>a, KnownKept DEF RecordOnce
<1>3. Foremost(K, c.ids, file.lines) => Foremost(K, c.ids, file2.lines)
  BY <1>a, <1>b, ForemostKept
<1>4. (Ahead(K, c, file) => Ahead(K, c, file2)) /\ (Behind(K, c, file) => Behind(K, c, file2))
  BY <1>a, <1>b, SideKept
<1> QED
  BY <1>1, <1>2, <1>3, <1>4 DEF RecordOnce

LEMMA SegmentOnceKept ==
  ASSUME NEW now, NEW later \in Int, now <= later, NEW file, Sane(file, now), NEW file2, Sane(file2, later),
         Stems(file2, file, now), NEW c \in AnyCursors, c.inode <= file.inode,
         NEW res \in Results, res.cursor.inode <= file.inode, NEW f, SegmentOnce(f, res, c, file, now)
  PROVE  SegmentOnce(f, res, c, file2, later)
<1> DEFINE K == res.kept
           d == res.cursor
<1>a. K \in SUBSET Int /\ (\A s \in K : s <= now) /\ Small(K, now) /\ now \in Int /\ d \in AnyCursors
  BY BoundAssumption DEF SegmentOnce, Takes, Small, Results, Serials, Sane
<1>b. /\ file \in FileStates /\ Sorted(file.lines) /\ file2 \in FileStates /\ Sorted(file2.lines)
  BY DEF Sane
<1>1. Small(K, later)
  BY <1>a DEF Small
<1>2. Fresh(d, file2, later)
  <2>1. Fresh(d, file, now)
    BY DEF SegmentOnce, Takes
  <2> QED
    BY <2>1, <1>a, <1>b, FreshKept
<1>3. Foremost(K, c.ids, file.lines) => Foremost(K, c.ids, file2.lines)
  BY <1>a, <1>b, ForemostKept
<1>4. Ahead(K, c, file) => Ahead(K, c, file2)
  BY <1>a, <1>b, SideKept
<1> QED
  BY <1>1, <1>2, <1>3, <1>4 DEF SegmentOnce, Takes

LEMMA BesideOnceKept ==
  ASSUME NEW now, NEW later \in Int, now <= later, NEW file, Sane(file, now), NEW file2, Sane(file2, later),
         Stems(file2, file, now), NEW c,
         NEW res \in Results, res.cursor.inode <= file.inode, NEW storing,
         NEW x \in Records, Small(x.lines, now), BesideOnce(x, res, c, file, storing)
  PROVE  BesideOnce(x, res, c, file2, storing)
<1> DEFINE K == x.lines
           d == res.cursor
<1>a. K \in SUBSET Int /\ (\A s \in K : s <= now) /\ now \in Int /\ d \in AnyCursors
  BY BoundAssumption DEF Small, Records, Results, Serials, Sane
<1>b. /\ file \in FileStates /\ file2 \in FileStates
  BY DEF Sane
<1>1. Known(K, res.kept, file.lines) => Known(K, res.kept, file2.lines)
  BY <1>a, KnownKept
<1>2. Behind(K, d, file) => Behind(K, d, file2)
  BY <1>a, <1>b, SideKept
<1> QED
  BY <1>1, <1>2 DEF BesideOnce

\* The cursor a round writes is to the records what the one before was.
LEMMA CursorOnce ==
  ASSUME NEW file, NEW now, NEW c \in AnyCursors, NEW res \in Results,
         NEW x \in Records, RecordOnce(x, c, file, now),
         SegmentOnce(x.file, res, c, file, now), BesideOnce(x, res, c, file, FALSE)
  PROVE  RecordOnce(x, res.cursor, file, now)
<1> DEFINE K == res.kept
           d == res.cursor
<1>a. /\ x.no \in Nat /\ c.next \in Nat /\ d.ids = c.ids \cup K /\ d.next = (IF K = {} THEN c.next ELSE c.next + 1)
      /\ x.no <= c.next /\ Small(x.lines, now)
  BY DEF Records, AnyCursors, SegmentOnce, Takes, RecordOnce
<1>1. CASE x.no < c.next
  <2>1. Known(x.lines, d.ids, file.lines)
    BY <1>1, <1>a DEF RecordOnce, Known
  <2> QED
    BY <2>1, <1>1, <1>a DEF RecordOnce
<1>2. CASE x.no = c.next /\ K # {}
  <2>1. Known(x.lines, d.ids, file.lines)
    BY <1>2, <1>a DEF BesideOnce, Known
  <2> QED
    BY <2>1, <1>2, <1>a DEF RecordOnce
<1>3. CASE x.no = c.next /\ K = {} /\ x.file = "main"
  <2>1. Known(x.lines, {}, file.lines)
    BY <1>3 DEF BesideOnce
  <2>2. Foremost(x.lines, d.ids, file.lines)
    BY <2>1 DEF Known, Foremost
  <2> QED
    BY <2>2, <1>3, <1>a DEF RecordOnce
<1>4. CASE x.no = c.next /\ K = {} /\ x.file # "main"
  <2>1. Behind(x.lines, d, file)
    BY <1>4 DEF BesideOnce
  <2> QED
    BY <2>1, <1>4, <1>a DEF RecordOnce
<1> QED
  BY <1>1, <1>2, <1>3, <1>4, <1>a

\* A round on a main file that reads: what it comes to, and a record.
LEMMA ReadMainOnce ==
  ASSUME NEW file, file.exists, file.inode \in Nat, file.inode >= 1,
         file.lines \in Seq(Lines), Sorted(file.lines), Trail(file.lines),
         NEW now \in Int, \A j \in 1..Len(file.lines) : file.lines[j].serial <= now,
         NEW c \in AnyCursors, Sound(c, file), Fresh(c, file, now),
         NEW sight \in Sights, sight.inode = file.inode, sight.size = Len(file.lines)
  PROVE  LET res == ReadLines(c, sight, file.lines, FALSE) IN
         /\ SegmentOnce("main", res, c, file, now)
         /\ \A x \in Records : x.file = "main" /\ RecordOnce(x, c, file, now) =>
              \A storing \in BOOLEAN : BesideOnce(x, res, c, file, storing)
<1> DEFINE res == ReadLines(c, sight, file.lines, FALSE)
           K   == res.kept
<1>1. /\ Takes(res, c, file, now) /\ Has(file.lines, K)
      /\ Foremost(K, c.ids, file.lines) /\ Full(K, c.ids, file.lines)
  BY ReadMainTakes, Zenon
<1>2. res \in Results
  BY ReadMain, Zenon DEF MainRead
<1> HIDE DEF res
<1>3. ASSUME NEW x \in Records, x.file = "main", RecordOnce(x, c, file, now), NEW storing \in BOOLEAN
      PROVE  BesideOnce(x, res, c, file, storing)
  <2>1. ASSUME x.no < c.next, NEW s \in x.lines \cap K PROVE FALSE
    <3>1. PICK j \in 1..Len(file.lines) : file.lines[j].serial = s
      BY <1>1, <2>1 DEF Has
    <3>2. s \in c.ids
      BY <3>1, <1>3, <2>1 DEF RecordOnce, Known
    <3> QED
      BY <3>2, <1>1, <2>1 DEF Takes
  <2>2. ASSUME x.no = c.next PROVE Known(x.lines, K, file.lines)
    <3>1. Foremost(x.lines, c.ids, file.lines) /\ Cardinality(x.lines) <= MaxKept /\ x.lines \in SUBSET Serials
      BY <1>3, <2>2 DEF RecordOnce, Small, Records
    <3>2. K \in SUBSET Serials
      BY <1>2 DEF Results
    <3> QED
      BY <3>1, <3>2, <1>1, TakesAgain
  <2> QED
    BY <2>1, <2>2, <1>3 DEF BesideOnce
<1> QED
  BY <1>1, <1>3 DEF SegmentOnce, res

\* A round on an agent file that reads what it observed.
LEMMA ReadAgentOnce ==
  ASSUME NEW file, NEW c, NEW sight, NEW now, NEW X, Scannable(c, sight, file, now, X),
         NEW out \in BOOLEAN, NEW res, AgentRead(res, c, sight, file.lines, out)
  PROVE  /\ SegmentOnce("agent", res, c, file, now)
         /\ \A x \in Records : x.file # "main" /\ x.lines \in X /\ RecordOnce(x, c, file, now) =>
              BesideOnce(x, res, c, file, TRUE)
<1>1. Takes(res, c, file, now) /\ Has(file.lines, res.kept) /\ Ahead(res.kept, c, file)
  BY ReadAgentTakes
<1>2. ASSUME NEW x \in Records, x.file # "main", x.lines \in X, RecordOnce(x, c, file, now)
      PROVE  BesideOnce(x, res, c, file, TRUE)
  <2>1. ASSUME x.no < c.next, NEW s \in x.lines \cap res.kept PROVE FALSE
    <3>1. PICK j \in 1..Len(file.lines) : file.lines[j].serial = s
      BY <1>1, <2>1 DEF Has
    <3>2. s \in c.ids
      BY <3>1, <1>2, <2>1 DEF RecordOnce, Known
    <3> QED
      BY <3>2, <1>1, <2>1 DEF Takes
  <2>2. ASSUME x.no = c.next
        PROVE  IF res.kept = {} THEN Behind(x.lines, res.cursor, file)
               ELSE res.kept \subseteq x.lines => Known(x.lines, res.kept, file.lines)
    <3>1. /\ x.lines \in SUBSET Serials /\ Cardinality(x.lines) <= MaxKept /\ x.lines \cap c.ids = {}
          /\ Ahead(x.lines, c, file) \/ Behind(x.lines, c, file)
      BY <1>2, <2>2 DEF RecordOnce, Small, Records
    <3> QED
      BY <3>1, <1>2, ReadAgentAgain
  <2> QED
    BY <2>1, <2>2, <1>2 DEF BesideOnce
<1> QED
  BY <1>1, <1>2 DEF SegmentOnce

\* What holds of a file's cursor, records and rounds.
OnceOf(f) ==
  /\ Fresh(entry[f], disk[f], clock)
  /\ \A x \in stored : x.file = f => RecordOnce(x, entry[f], disk[f], clock)
  /\ \A r \in Readers : Pending(r, f) =>
       /\ SegmentOnce(f, result[r], from[r], disk[f], clock)
       /\ \A x \in stored : x.file = f => BesideOnce(x, result[r], from[r], disk[f], pc[r] = "store")
  /\ \A x, y \in stored : x.file = f /\ y.file = f /\ x.no # y.no => x.lines \cap y.lines = {}

\* Lines past what a round observed of the agent file are not known, and in
\* no record.
Unseen(r) ==
  pc[r] = "scan" /\ seen[r].exists /\ disk["agent"].exists =>
    \A j \in 1..Len(AgentLines) : j > seen[r].size =>
      /\ AgentLines[j].serial \notin from[r].ids
      /\ \A x \in stored : x.file = "agent" => AgentLines[j].serial \notin x.lines

AgentOnce == OnceOf("agent") /\ \A r \in Readers : Unseen(r)
OnceInv   == OnceOf("main") /\ (AgentReadAnew \/ AgentOnce)

\* The cursors that are written, and those about to be, are of the file that
\* is there or of one before it.
LEMMA OfTheFile ==
  ASSUME SInv, Alone, NEW f \in Files
  PROVE  /\ Sane(disk[f], clock) /\ disk[f].inode >= 1
         /\ entry[f] \in AnyCursors /\ entry[f].inode <= disk[f].inode /\ entry[f].before \subseteq entry[f].ids
         /\ \A r \in Readers : Pending(r, f) =>
              /\ from[r] = entry[f] /\ result[r] \in Results /\ result[r].cursor.inode <= disk[f].inode
<1>1. /\ disk[f] \in FileStates /\ clock \in Int /\ entry[f] \in AnyCursors /\ OneFile(disk[f], clock)
      /\ \A r \in Readers : result[r] \in Results
  BY BoundAssumption DEF SInv, Shape, FilesInv
<1>2. Sane(disk[f], clock) /\ disk[f].inode >= 1
  BY <1>1 DEF OneFile, Sane
<1>3. f = "main" \/ f = "agent"
  BY DEF Files
<1>4. ASSUME NEW r \in Readers, Pending(r, f) PROVE from[r] = entry[f]
  BY <1>4 DEF Alone, Pending
<1>5. CASE f = "main"
  BY <1>1, <1>2, <1>4, <1>5 DEF SInv, OutsideInv, Sound
<1>6. CASE f = "agent"
  BY <1>1, <1>2, <1>4, <1>6 DEF SInv, SkipInv, Tracks
<1> QED
  BY <1>3, <1>5, <1>6

\* Two rounds on one file are one.
LEMMA OneRound ==
  ASSUME Alone, NEW r \in Readers, NEW q \in Readers, pc[r] \in Under, pc[q] \in Under, path[q] = path[r]
  PROVE  q = r
BY DEF Alone

\* Whether a cursor's entry is registered makes no difference.
LEMMA Unregistered ==
  ASSUME NEW c \in AnyCursors, NEW file, NEW now, NEW x
  PROVE  LET d == [c EXCEPT !.reg = FALSE] IN
         /\ Fresh(c, file, now) => Fresh(d, file, now)
         /\ RecordOnce(x, c, file, now) => RecordOnce(x, d, file, now)
<1> DEFINE d == [c EXCEPT !.reg = FALSE]
<1>1. d.inode = c.inode /\ d.offset = c.offset /\ d.next = c.next /\ d.ids = c.ids /\ d.before = c.before
  BY DEF AnyCursors
<1> HIDE DEF d
<1>2. Fresh(c, file, now) => Fresh(d, file, now)
  BY <1>1 DEF Fresh
<1>3. Ahead(x.lines, c, file) = Ahead(x.lines, d, file) /\ Behind(x.lines, c, file) = Behind(x.lines, d, file)
  BY <1>1 DEF Ahead, Behind
<1>4. RecordOnce(x, c, file, now) => RecordOnce(x, d, file, now)
  BY <1>1, <1>3 DEF RecordOnce
<1> QED
  BY <1>2, <1>4 DEF d

\* A step that is not one of a round on f.
LEMMA OnceElsewhere ==
  ASSUME NEW f \in Files, entry[f] \in AnyCursors, OnceOf(f), UNCHANGED session,
         entry'[f] = entry[f] \/ entry'[f] = [entry[f] EXCEPT !.reg = FALSE],
         \A x : x.file = f => (x \in stored' <=> x \in stored),
         \A q \in Readers : (path'[q] = f /\ pc'[q] \in {"store", "commit"}) =>
           Pending(q, f) /\ pc'[q] = pc[q] /\ from'[q] = from[q] /\ result'[q] = result[q]
  PROVE  OnceOf(f)'
<1>1. disk' = disk /\ clock' = clock
  BY DEF session
<1>2. /\ Fresh(entry'[f], disk[f], clock)
      /\ \A x \in stored : x.file = f => RecordOnce(x, entry'[f], disk[f], clock)
  BY Unregistered DEF OnceOf
<1>3. ASSUME NEW r \in Readers, Pending(r, f)'
      PROVE  /\ SegmentOnce(f, result'[r], from'[r], disk[f], clock)
             /\ \A x \in stored : x.file = f => BesideOnce(x, result'[r], from'[r], disk[f], pc'[r] = "store")
  <2>1. Pending(r, f) /\ pc'[r] = pc[r] /\ from'[r] = from[r] /\ result'[r] = result[r]
    BY <1>3 DEF Pending
  <2> QED
    BY <2>1 DEF OnceOf
<1>4. \A x, y \in stored' : x.file = f /\ y.file = f /\ x.no # y.no => x.lines \cap y.lines = {}
  BY DEF OnceOf
<1> QED
  BY <1>1, <1>2, <1>3, <1>4 DEF OnceOf

\* Claude Code writes.
LEMMA OnceOfWrite ==
  ASSUME SInv, SInv', Alone, NEW f \in Files, OnceOf(f), Write
  PROVE  OnceOf(f)'
<1>1. Written /\ UNCHANGED reading
  BY WriteIs DEF SInv
<1>2. Changed(disk[f], disk'[f]) /\ (clock' = clock \/ clock' = clock + 1)
  BY <1>1, WriteChanges DEF SInv, Files
<1>3. /\ entry' = entry /\ pc' = pc /\ path' = path /\ from' = from /\ result' = result /\ stored' = stored
  BY <1>1 DEF reading, round
<1>4. /\ Sane(disk[f], clock) /\ entry[f] \in AnyCursors /\ entry[f].inode <= disk[f].inode
      /\ \A r \in Readers : Pending(r, f) =>
           /\ from[r] = entry[f] /\ result[r] \in Results /\ result[r].cursor.inode <= disk[f].inode
  BY OfTheFile
<1>5. Sane(disk'[f], clock')
  <2>1. disk'[f] \in FileStates /\ clock' \in Int /\ OneFile(disk'[f], clock')
    BY BoundAssumption DEF SInv, Shape, FilesInv
  <2> QED
    BY <2>1 DEF Sane, OneFile
<1>6. clock \in Int /\ clock' \in Int /\ clock <= clock'
  BY <1>2, <1>4 DEF Sane
<1>7. Stems(disk'[f], disk[f], clock)
  BY <1>2, <1>4, <1>6, ChangedStems DEF Sane
<1>8. stored \subseteq Records
  BY DEF SInv, Shape
<1>9. Fresh(entry[f], disk'[f], clock')
  BY <1>4, <1>5, <1>6, <1>7, FreshKept DEF OnceOf, Sane
<1>10. ASSUME NEW x \in stored, x.file = f PROVE RecordOnce(x, entry[f], disk'[f], clock')
  BY <1>4, <1>5, <1>6, <1>7, <1>8, <1>10, RecordOnceKept DEF OnceOf
<1>11. ASSUME NEW r \in Readers, Pending(r, f)
       PROVE  /\ SegmentOnce(f, result[r], from[r], disk'[f], clock')
              /\ \A x \in stored : x.file = f => BesideOnce(x, result[r], from[r], disk'[f], pc[r] = "store")
  <2>1. SegmentOnce(f, result[r], from[r], disk[f], clock)
    BY <1>11 DEF OnceOf
  <2>2. SegmentOnce(f, result[r], from[r], disk'[f], clock')
    BY <2>1, <1>4, <1>5, <1>6, <1>7, <1>11, SegmentOnceKept
  <2>3. ASSUME NEW x \in stored, x.file = f PROVE BesideOnce(x, result[r], from[r], disk'[f], pc[r] = "store")
    <3>1. BesideOnce(x, result[r], from[r], disk[f], pc[r] = "store") /\ Small(x.lines, clock)
      BY <1>11, <2>3 DEF OnceOf, RecordOnce
    <3> QED
      BY <3>1, <1>4, <1>5, <1>6, <1>7, <1>8, <1>11, BesideOnceKept
  <2> QED
    BY <2>2, <2>3
<1>12. \A x, y \in stored : x.file = f /\ y.file = f /\ x.no # y.no => x.lines \cap y.lines = {}
  BY DEF OnceOf
<1> QED
  BY <1>3, <1>9, <1>10, <1>11, <1>12 DEF OnceOf, Pending

\* Lines written while a round goes on with an agent file are new.
LEMMA UnseenWrite ==
  ASSUME SInv, SInv', Alone, AgentOnce, Write, NEW r \in Readers
  PROVE  Unseen(r)'
<1> SUFFICES ASSUME pc'[r] = "scan", seen'[r].exists, disk'["agent"].exists,
                    NEW j \in 1..Len(AgentLines'), j > seen'[r].size
             PROVE  /\ AgentLines'[j].serial \notin from'[r].ids
                    /\ \A x \in stored' : x.file = "agent" => AgentLines'[j].serial \notin x.lines
  BY DEF Unseen
<1> DEFINE file == disk["agent"]  file2 == disk'["agent"]
<1>1. Written /\ UNCHANGED reading
  BY WriteIs DEF SInv
<1>2. pc' = pc /\ path' = path /\ from' = from /\ seen' = seen /\ stored' = stored
  BY <1>1 DEF reading, round
<1>3. path[r] = "agent" /\ from[r] = entry["agent"]
  BY <1>2 DEF SInv, SkipInv, Observed, Alone
<1>4. file \in FileStates /\ file2 \in FileStates /\ clock \in Int /\ Changed(file, file2) /\ OneFile(file2, clock')
  BY <1>1, WriteChanges, BoundAssumption DEF SInv, Shape, FilesInv, Files
<1>5. Stems(file2, file, clock)
  BY <1>4, ChangedStems
<1>6. file2.inode = file.inode
  <2>1. CASE WroteAgent
    <3>1. PICK l \in Lines : Grown(file, file2, l)
      BY <2>1 DEF WroteAgent
    <3> QED
      BY <3>1, <1>4, GrownIs
  <2>2. CASE ReplacedAgent
    BY <2>2, <1>2, <1>3 DEF ReplacedAgent
  <2>3. CASE OneGone
    <3>1. CASE Gone(file, file2)
      BY <3>1, <1>4, GoneIs
    <3>2. CASE file2 = file
      BY <3>2
    <3> QED
      BY <2>3, <3>1, <3>2 DEF OneGone
  <2>4. CASE WroteMain \/ ReplacedMain
    BY <2>4 DEF WroteMain, ReplacedMain
  <2> QED
    BY <1>1, <2>1, <2>2, <2>3, <2>4 DEF Written
<1>7. j \in 1..Len(file2.lines) /\ AgentLines'[j] = file2.lines[j]
  BY DEF AgentLines
<1> HIDE DEF file, file2
<1>8. CASE file2.lines[j].serial > clock
  <2>1. \A s \in from[r].ids : s <= clock
    BY <1>3 DEF AgentOnce, OnceOf, Fresh
  <2>2. \A x \in stored : x.file = "agent" => \A s \in x.lines : s <= clock
    BY DEF AgentOnce, OnceOf, RecordOnce, Small
  <2>3. file2.lines[j].serial \in Int
    BY <1>4, <1>7, LineIs DEF FileStates
  <2> QED
    BY <2>1, <2>2, <2>3, <1>2, <1>4, <1>7, <1>8
<1>9. CASE ~(file2.lines[j].serial > clock)
  <2>1. file.exists /\ j \in 1..Len(file.lines) /\ file.lines[j] = file2.lines[j]
    BY <1>5, <1>6, <1>7, <1>9 DEF Stems, file2
  <2>2. disk["agent"].exists /\ j \in 1..Len(AgentLines) /\ AgentLines[j] = file2.lines[j]
    BY <2>1 DEF AgentLines, file
  <2>3. Unseen(r) /\ pc[r] = "scan" /\ seen[r].exists /\ j > seen[r].size
    BY <1>2 DEF AgentOnce
  <2>4. /\ AgentLines[j].serial \notin from[r].ids
        /\ \A x \in stored : x.file = "agent" => AgentLines[j].serial \notin x.lines
    BY <2>2, <2>3 DEF Unseen
  <2> QED
    BY <2>2, <2>4, <1>2, <1>7
<1> QED
  BY <1>8, <1>9

LEMMA OnceWrite ==
  ASSUME SInv, SInv', Alone, OnceInv, Write
  PROVE  OnceInv'
<1>1. OnceOf("main")'
  BY OnceOfWrite DEF OnceInv, Files
<1>2. UNCHANGED reading
  BY WriteIs DEF SInv
<1>3. CASE AgentReadAnew
  <2>1. AgentReadAnew'
    BY <1>2, <1>3 DEF AgentReadAnew, SameId, reading
  <2> QED
    BY <1>1, <2>1 DEF OnceInv
<1>4. CASE AgentOnce
  <2>1. OnceOf("agent")'
    BY <1>4, OnceOfWrite DEF AgentOnce, Files
  <2>2. \A r \in Readers : Unseen(r)'
    BY <1>4, UnseenWrite
  <2> QED
    BY <1>1, <2>1, <2>2 DEF OnceInv, AgentOnce
<1> QED
  BY <1>3, <1>4 DEF OnceInv

\* A step that stores nothing.
LEMMA OnceSettled ==
  ASSUME SInv, OnceInv, NEW r, Settled(r)
  PROVE  OnceInv'
<1>1. /\ UNCHANGED session /\ stored' = stored /\ shadowed' = shadowed
      /\ \A f \in Files : entry'[f] = entry[f] \/ entry'[f] = [entry[f] EXCEPT !.reg = FALSE]
      /\ \A q \in Readers : pc'[q] \in {"scan", "store", "commit"} =>
           /\ pc'[q] = pc[q] /\ path'[q] = path[q] /\ from'[q] = from[q]
           /\ seen'[q] = seen[q] /\ result'[q] = result[q]
  BY DEF Settled
<1>2. ASSUME NEW f \in Files, OnceOf(f) PROVE OnceOf(f)'
  <2>1. entry[f] \in AnyCursors
    BY DEF SInv, Shape
  <2>2. \A q \in Readers : (path'[q] = f /\ pc'[q] \in {"store", "commit"}) =>
          Pending(q, f) /\ pc'[q] = pc[q] /\ from'[q] = from[q] /\ result'[q] = result[q]
    BY <1>1 DEF Pending
  <2> QED
    BY <1>1, <1>2, <2>1, <2>2, OnceElsewhere
<1>3. OnceOf("main")'
  BY <1>2 DEF OnceInv, Files
<1>4. CASE AgentReadAnew
  <2>1. AgentReadAnew'
    BY <1>1, <1>4 DEF AgentReadAnew, SameId
  <2> QED
    BY <1>3, <2>1 DEF OnceInv
<1>5. CASE AgentOnce
  <2>1. OnceOf("agent")'
    BY <1>2, <1>5 DEF AgentOnce, Files
  <2>2. ASSUME NEW q \in Readers, Unseen(q) PROVE Unseen(q)'
    BY <1>1, <2>2 DEF Unseen, session, AgentLines
  <2> QED
    BY <1>3, <1>5, <2>1, <2>2 DEF OnceInv, AgentOnce
<1> QED
  BY <1>4, <1>5 DEF OnceInv

\* A step of a round on f that writes no cursor and stores nothing.
LEMMA OnceRound ==
  ASSUME SInv, Alone, OnceInv, NEW r \in Readers, pc[r] \in Under,
         UNCHANGED <<session, entry, path, stored, shadowed>>,
         \A q \in Readers \ {r} :
           pc'[q] = pc[q] /\ from'[q] = from[q] /\ seen'[q] = seen[q] /\ result'[q] = result[q],
         pc'[r] = "scan" => (AgentOnce => Unseen(r)'),
         pc'[r] \in {"store", "commit"} =>
           LET f == path[r] IN
           \/ f = "agent" /\ AgentReadAnew
           \/ /\ SegmentOnce(f, result'[r], from'[r], disk[f], clock)
              /\ \A x \in stored : x.file = f => BesideOnce(x, result'[r], from'[r], disk[f], pc'[r] = "store")
  PROVE  OnceInv'
<1>a. disk' = disk /\ clock' = clock /\ entry' = entry /\ path' = path /\ stored' = stored /\ shadowed' = shadowed
  BY DEF session
<1>1. ASSUME NEW f \in Files, OnceOf(f), f = "agent" => ~AgentReadAnew PROVE OnceOf(f)'
  <2>1. CASE f # path[r]
    <3>1. entry[f] \in AnyCursors
      BY DEF SInv, Shape
    <3>2. \A q \in Readers : (path'[q] = f /\ pc'[q] \in {"store", "commit"}) =>
            Pending(q, f) /\ pc'[q] = pc[q] /\ from'[q] = from[q] /\ result'[q] = result[q]
      BY <2>1, <1>a DEF Pending
    <3> QED
      BY <1>1, <1>a, <3>1, <3>2, OnceElsewhere
  <2>2. CASE f = path[r]
    <3>1. ASSUME NEW q \in Readers, Pending(q, f)'
          PROVE  /\ SegmentOnce(f, result'[q], from'[q], disk[f], clock)
                 /\ \A x \in stored : x.file = f => BesideOnce(x, result'[q], from'[q], disk[f], pc'[q] = "store")
      <4>1. path[q] = f /\ pc'[q] \in {"store", "commit"}
        BY <3>1, <1>a DEF Pending
      <4>2. q = r
        <5>1. ASSUME q # r PROVE FALSE
          <6>1. pc[q] \in Under
            BY <5>1, <4>1 DEF Under
          <6> QED
            BY <6>1, <5>1, <4>1, <2>2, OneRound
        <5> QED
          BY <5>1
      <4> QED
        BY <4>1, <4>2, <2>2, <1>1
    <3> QED
      BY <3>1, <1>1, <1>a DEF OnceOf
  <2> QED
    BY <2>1, <2>2
<1>2. OnceOf("main")'
  BY <1>1 DEF OnceInv, Files
<1>3. CASE AgentReadAnew
  <2>1. AgentReadAnew'
    BY <1>a, <1>3 DEF AgentReadAnew, SameId
  <2> QED
    BY <1>2, <2>1 DEF OnceInv
<1>4. CASE AgentOnce /\ ~AgentReadAnew
  <2>1. OnceOf("agent")'
    BY <1>1, <1>4 DEF AgentOnce, Files
  <2>2. ASSUME NEW q \in Readers PROVE Unseen(q)'
    <3>1. CASE q = r
      <4>1. CASE pc'[r] = "scan"
        BY <3>1, <4>1, <1>4
      <4>2. CASE pc'[r] # "scan"
        BY <3>1, <4>2 DEF Unseen
      <4> QED
        BY <4>1, <4>2
    <3>2. CASE q # r
      BY <3>2, <1>4, <1>a DEF AgentOnce, Unseen, AgentLines
    <3> QED
      BY <3>1, <3>2
  <2> QED
    BY <1>2, <2>1, <2>2 DEF OnceInv, AgentOnce
<1> QED
  BY <1>3, <1>4 DEF OnceInv

\* A main file is read under its lock, and what an agent file has is seen.
LEMMA OnceObserve ==
  ASSUME SInv, Alone, OnceInv, NEW r \in Readers, Observe(r)
  PROVE  OnceInv'
<1> DEFINE f == path[r]
<1>a. /\ Shape /\ FilesInv /\ OutsideInv /\ f \in Files
      /\ entry \in [Files -> AnyCursors] /\ disk \in [Files -> FileStates] /\ stored \subseteq Records
      /\ pc \in [Readers -> Stages] /\ from \in [Readers -> AnyCursors]
      /\ seen \in [Readers -> Sights] /\ result \in [Readers -> Results]
  BY DEF SInv, Shape
<1>b. /\ pc[r] = "observe" /\ UNCHANGED <<session, entry, path, stored, shadowed>>
      /\ from' = [from EXCEPT ![r] = entry[f]]
  BY DEF Observe
<1>c. pc[r] \in Under /\ from'[r] = entry[f]
  BY <1>a, <1>b DEF Under
<1>1. CASE pc' = [pc EXCEPT ![r] = "failed"] /\ UNCHANGED <<seen, result>>
  <2>1. Settled(r)
    BY <1>1, <1>a, <1>b DEF Settled
  <2> QED
    BY <2>1, OnceSettled
<1>2. CASE f = "main" /\ Consume(r, f, Sight(f), entry[f], FALSE) /\ seen' = seen
  <2>1. CASE pc' = [pc EXCEPT ![r] = "vanished"] /\ result' = result
    <3>1. Settled(r)
      BY <2>1, <1>2, <1>a, <1>b DEF Settled
    <3> QED
      BY <3>1, OnceSettled
  <2>2. CASE ~(pc' = [pc EXCEPT ![r] = "vanished"] /\ result' = result)
    <3> DEFINE c    == entry["main"]
               file == disk["main"]
               res  == ReadLines(c, Sight("main"), file.lines, FALSE)
    <3>1. /\ file.exists /\ result' = [result EXCEPT ![r] = res]
          /\ pc' = [pc EXCEPT ![r] = IF res.kept = {} THEN "commit" ELSE "store"]
      BY <2>2, <1>2 DEF Consume, Goto
    <3>2. /\ file.inode \in Nat /\ file.inode >= 1 /\ file.lines \in Seq(Lines)
          /\ Sorted(file.lines) /\ Trail(file.lines) /\ c \in AnyCursors /\ Sound(c, file)
          /\ clock \in Int /\ \A j \in 1..Len(file.lines) : file.lines[j].serial <= clock
          /\ Fresh(c, file, clock)
      BY <1>a, BoundAssumption DEF Shape, FilesInv, OutsideInv, OneFile, FileStates, Files, MainLines, OnceInv, OnceOf
    <3>3. /\ Sight("main") \in Sights
          /\ Sight("main").inode = file.inode /\ Sight("main").size = Len(file.lines)
      BY <1>a, LenProperties DEF Sight, Sights, FileStates, Files
    <3>4. /\ SegmentOnce("main", res, c, file, clock)
          /\ \A x \in Records : x.file = "main" /\ RecordOnce(x, c, file, clock) =>
               \A storing \in BOOLEAN : BesideOnce(x, res, c, file, storing)
      BY <3>1, <3>2, <3>3, ReadMainOnce
    <3> HIDE DEF res
    <3>5. \A x \in stored : x.file = "main" => \A storing \in BOOLEAN : BesideOnce(x, res, c, file, storing)
      BY <3>4, <1>a DEF OnceInv, OnceOf
    <3>6. result'[r] = res /\ pc'[r] \in {"store", "commit"}
      BY <3>1, <1>a
    <3>7. \A q \in Readers \ {r} :
            pc'[q] = pc[q] /\ from'[q] = from[q] /\ seen'[q] = seen[q] /\ result'[q] = result[q]
      BY <3>1, <1>2, <1>a, <1>b
    <3>8. (pc'[r] = "store") \in BOOLEAN
      OBVIOUS
    <3> QED
      BY <3>4, <3>5, <3>6, <3>7, <3>8, <1>2, <1>b, <1>c, OnceRound
  <2> QED
    BY <2>1, <2>2
<1>3. CASE f = "agent" /\ seen' = [seen EXCEPT ![r] = Sight(f)] /\ pc' = [pc EXCEPT ![r] = "scan"] /\ result' = result
  <2>1. \A q \in Readers \ {r} :
          pc'[q] = pc[q] /\ from'[q] = from[q] /\ seen'[q] = seen[q] /\ result'[q] = result[q]
    BY <1>3, <1>a, <1>b
  <2>2. pc'[r] = "scan" /\ seen'[r].size = Len(AgentLines) /\ AgentLines' = AgentLines
    BY <1>3, <1>a, <1>b DEF Sight, AgentLines, session
  <2>3. Len(AgentLines) \in Nat
    BY <1>a, LenProperties DEF AgentLines, FileStates, Files
  <2>4. Unseen(r)'
    BY <2>2, <2>3 DEF Unseen
  <2> QED
    BY <2>1, <2>2, <2>4, <1>b, <1>c, OnceRound
<1> QED
  BY <1>1, <1>2, <1>3 DEF Observe, Goto

LEMMA OnceScan ==
  ASSUME SInv, Alone, OnceInv, NEW r \in Readers, Scan(r)
  PROVE  OnceInv'
<1> DEFINE c     == from[r]
           sight == seen[r]
           file  == disk["agent"]
           out   == SessionWasOutside
           res   == ReadLines(c, sight, file.lines, out)
           X     == {x.lines : x \in {y \in stored : y.file = "agent"}}
<1>a. /\ Shape /\ FilesInv /\ SkipInv /\ file \in FileStates /\ stored \subseteq Records
      /\ pc \in [Readers -> Stages] /\ c \in AnyCursors /\ seen \in [Readers -> Sights] /\ sight \in Sights
      /\ result \in [Readers -> Results] /\ clock \in Int
  BY BoundAssumption DEF SInv, Shape, Files
<1>b. /\ pc[r] = "scan" /\ UNCHANGED <<session, entry, path, from, stored, shadowed>>
      /\ seen' = [seen EXCEPT ![r] = NoSight] /\ Consume(r, path[r], sight, c, out)
  BY DEF Scan
<1>c. Observed(r) /\ path[r] = "agent" /\ pc[r] \in Under /\ c = entry["agent"]
  BY <1>a, <1>b DEF SkipInv, Observed, Under, Alone
<1>1. CASE pc' = [pc EXCEPT ![r] = "vanished"] /\ result' = result
  <2>1. Settled(r)
    BY <1>1, <1>a, <1>b DEF Settled
  <2> QED
    BY <2>1, OnceSettled
<1>2. CASE ~(pc' = [pc EXCEPT ![r] = "vanished"] /\ result' = result)
  <2>1. /\ sight.exists /\ file.exists /\ result' = [result EXCEPT ![r] = res]
        /\ pc' = [pc EXCEPT ![r] = IF res.kept = {} THEN "commit" ELSE "store"]
    BY <1>2, <1>b, <1>c DEF Consume, Goto
  <2>2. /\ file.lines \in Seq(Lines) /\ Calm(file.lines, 1, Len(file.lines))
        /\ file.inode \in Nat /\ file.inode >= 1 /\ Sorted(file.lines)
        /\ \A j \in 1..Len(file.lines) : file.lines[j].serial <= clock
    BY <1>a DEF FilesInv, AgentLines, FileStates, OneFile, Files
  <2>3. /\ c.before \subseteq c.ids /\ ~c.outside /\ (c.inode = 0 => c.offset = 0) /\ sight.inode = file.inode
    BY <2>1, <1>c DEF Observed, Tracks
  <2>4. out \in BOOLEAN
    BY WasOutsideIs
  <2>5. AgentRead(res, c, sight, file.lines, out)
    <3> HIDE DEF out
    <3> QED
      BY <2>2, <2>3, <2>4, <1>a, ReadAgent
  <2>6. CASE AgentOnce
    <3>1. \A j \in 1..Len(file.lines) : j > sight.size =>
            file.lines[j].serial \notin c.ids /\ \A K \in X : file.lines[j].serial \notin K
      BY <2>1, <2>6, <1>b DEF AgentOnce, Unseen, AgentLines
    <3>2. Fresh(c, file, clock)
      BY <2>6, <1>c DEF AgentOnce, OnceOf
    <3>3. Scannable(c, sight, file, clock, X)
      BY <3>1, <3>2, <2>1, <2>2, <2>3, <1>a DEF Scannable
    <3> HIDE DEF out, res
    <3>4. /\ SegmentOnce("agent", res, c, file, clock)
          /\ \A x \in Records : x.file # "main" /\ x.lines \in X /\ RecordOnce(x, c, file, clock) =>
               BesideOnce(x, res, c, file, TRUE)
      BY <3>3, <2>4, <2>5, ReadAgentOnce
    <3>5. ASSUME NEW x \in stored, x.file = "agent" PROVE BesideOnce(x, res, c, file, res.kept # {})
      <4>1. RecordOnce(x, c, file, clock) /\ x.lines \in X /\ x \in Records
        BY <3>5, <2>6, <1>a, <1>c DEF AgentOnce, OnceOf
      <4>2. BesideOnce(x, res, c, file, TRUE)
        BY <4>1, <3>4, <3>5
      <4> QED
        BY <4>2 DEF BesideOnce
    <3>6. result'[r] = res /\ pc'[r] \in {"store", "commit"} /\ (pc'[r] = "store") = (res.kept # {}) /\ from'[r] = c
      BY <2>1, <1>a, <1>b
    <3>7. \A q \in Readers \ {r} :
            pc'[q] = pc[q] /\ from'[q] = from[q] /\ seen'[q] = seen[q] /\ result'[q] = result[q]
      BY <2>1, <1>a, <1>b
    <3> QED
      BY <3>4, <3>5, <3>6, <3>7, <1>b, <1>c, OnceRound
  <2>7. CASE AgentReadAnew
    <3> HIDE DEF out, res
    <3>6. pc'[r] \in {"store", "commit"}
      BY <2>1, <1>a
    <3>7. \A q \in Readers \ {r} :
            pc'[q] = pc[q] /\ from'[q] = from[q] /\ seen'[q] = seen[q] /\ result'[q] = result[q]
      BY <2>1, <1>a, <1>b
    <3> QED
      BY <3>6, <3>7, <2>7, <1>b, <1>c, OnceRound
  <2> QED
    BY <2>6, <2>7 DEF OnceInv
<1> QED
  BY <1>1, <1>2

\* A segment that is stored, or is all in the record that stands for it.
LEMMA StoredOnce ==
  ASSUME NEW res, NEW c, NEW file, NEW x,
         BesideOnce(x, res, c, file, TRUE), x.file = "main" \/ x.no # c.next \/ res.kept \subseteq x.lines
  PROVE  BesideOnce(x, res, c, file, FALSE)
BY DEF BesideOnce

LEMMA NewRecordOnce ==
  ASSUME NEW res, NEW c \in AnyCursors, NEW file, NEW now, NEW f,
         SegmentOnce(f, res, c, file, now)
  PROVE  LET rec == [file |-> f, no |-> c.next, lines |-> res.kept] IN
         RecordOnce(rec, c, file, now) /\ BesideOnce(rec, res, c, file, FALSE)
<1> DEFINE rec == [file |-> f, no |-> c.next, lines |-> res.kept]
<1>1. rec.file = f /\ rec.no = c.next /\ rec.lines = res.kept /\ c.next \in Nat
  BY DEF AnyCursors
<1> HIDE DEF rec
<1>2. RecordOnce(rec, c, file, now)
  BY <1>1 DEF RecordOnce, SegmentOnce, Takes
<1>3. BesideOnce(rec, res, c, file, FALSE)
  BY <1>1 DEF BesideOnce, Known, Behind
<1> QED
  BY <1>2, <1>3 DEF rec

LEMMA OnceStore ==
  ASSUME SInv, Alone, OnceInv, NEW r \in Readers, StoreSegment(r)
  PROVE  OnceInv'
<1> DEFINE c   == from[r]
           res == result[r]
           rec == RecordOf(r)
<1>f. PICK f \in Files : f = path[r]
  BY DEF SInv, Shape
<1>a. /\ Shape /\ SkipInv /\ pc \in [Readers -> Stages] /\ c \in AnyCursors /\ res \in Results
      /\ stored \subseteq Records
  BY DEF SInv, Shape
<1>b. /\ pc[r] = "store" /\ UNCHANGED <<session, entry, path, from, seen, result>>
      /\ pc' = [pc EXCEPT ![r] = "commit"]
  BY DEF StoreSegment, Goto
<1>c. /\ pc[r] \in Under /\ Pending(r, f) /\ c = entry[f] /\ disk' = disk /\ clock' = clock
  BY <1>b, <1>f DEF Under, Pending, Alone, session
<1>d. rec = [file |-> f, no |-> c.next, lines |-> res.kept] /\ rec.file = f /\ rec.no = c.next /\ rec.lines = res.kept
  BY <1>f DEF RecordOf
<1>e. pc'[r] = "commit" /\ \A q \in Readers \ {r} : pc'[q] = pc[q]
  BY <1>a, <1>b
<1> HIDE DEF c, res, rec
<1>1. \/ /\ shadowed' = shadowed \cup (rec.lines \ UNION {x.lines : x \in SameId(rec)})
         /\ stored' = stored
      \/ stored' = stored \cup {rec} /\ shadowed' = shadowed
  BY DEF StoreSegment, rec
<1>2. stored \subseteq stored' /\ shadowed \subseteq shadowed' /\ \A x \in stored' : x \in stored \/ x = rec
  BY <1>1
<1>3. AgentReadAnew => AgentReadAnew'
  BY <1>2 DEF AgentReadAnew, SameId
<1>4. ASSUME NEW h \in Files, h # f, OnceOf(h) PROVE OnceOf(h)'
  <2>1. entry[h] \in AnyCursors
    BY <1>a DEF Shape
  <2>2. \A x : x.file = h => (x \in stored' <=> x \in stored)
    BY <1>1, <1>4, <1>d
  <2>3. \A q \in Readers : (path'[q] = h /\ pc'[q] \in {"store", "commit"}) =>
          Pending(q, h) /\ pc'[q] = pc[q] /\ from'[q] = from[q] /\ result'[q] = result[q]
    BY <1>b, <1>e, <1>f, <1>4 DEF Pending
  <2> QED
    BY <1>4, <1>b, <2>1, <2>2, <2>3, OnceElsewhere
<1>5. ASSUME OnceOf(f), f = "agent" => ~AgentReadAnew' PROVE OnceOf(f)'
  <2>1. /\ SegmentOnce(f, res, c, disk[f], clock)
        /\ \A x \in stored : x.file = f => RecordOnce(x, c, disk[f], clock) /\ BesideOnce(x, res, c, disk[f], TRUE)
    BY <1>5, <1>b, <1>c DEF OnceOf, res, c
  <2>2. RecordOnce(rec, c, disk[f], clock) /\ BesideOnce(rec, res, c, disk[f], FALSE)
    BY <2>1, <1>a, <1>d, NewRecordOnce
  <2>3. ASSUME NEW x \in stored', x.file = f
        PROVE  RecordOnce(x, c, disk[f], clock) /\ BesideOnce(x, res, c, disk[f], FALSE)
    <3>1. CASE x = rec
      BY <3>1, <2>2
    <3>2. CASE x \in stored /\ (x.file = "main" \/ x.no # c.next)
      BY <3>2, <2>1, <2>3, StoredOnce
    <3>3. CASE x \in stored /\ x.file # "main" /\ x.no = c.next /\ x # rec
      <4>1. f = "agent" /\ x.file = "agent" /\ ~AgentReadAnew'
        BY <3>3, <2>3, <1>5 DEF Files
      <4>2. \A y \in stored' : y.file = f /\ y.no = c.next => y = x
        BY <4>1, <3>3, <2>3 DEF AgentReadAnew, SameId
      <4>3. stored' = stored /\ (rec.lines \ UNION {y.lines : y \in SameId(rec)}) = {}
        <5>1. rec \notin stored'
          BY <4>2, <3>3, <1>d
        <5>2. shadowed' = {}
          BY <4>1 DEF AgentReadAnew
        <5> QED
          BY <5>1, <5>2, <1>1
      <4>4. \A y \in SameId(rec) : y = x
        BY <4>2, <1>2, <1>d DEF SameId
      <4>5. rec.lines \subseteq x.lines
        BY <4>3, <4>4
      <4> QED
        BY <4>5, <3>3, <2>1, <2>3, <1>d, StoredOnce
    <3> QED
      BY <3>1, <3>2, <3>3, <1>2
  <2>4. ASSUME NEW q \in Readers, Pending(q, f)' PROVE q = r
    <3>1. path[q] = f /\ pc'[q] \in {"store", "commit"}
      BY <2>4, <1>b DEF Pending
    <3>2. ASSUME q # r PROVE FALSE
      <4>1. pc[q] \in Under
        BY <3>1, <3>2, <1>e DEF Under
      <4> QED
        BY <4>1, <3>1, <3>2, <1>c, <1>f, OneRound
    <3> QED
      BY <3>2
  <2>5. ASSUME NEW x \in stored, x.file = f, x.no # rec.no PROVE x.lines \cap rec.lines = {}
    <3>1. x.no <= c.next /\ x.no \in Nat /\ c.next \in Nat
      BY <2>1, <2>5, <1>a DEF RecordOnce, Records, AnyCursors
    <3>2. x.no < c.next
      BY <3>1, <2>5, <1>d
    <3> QED
      BY <3>2, <2>1, <2>5, <1>d DEF BesideOnce
  <2>6. \A x, y \in stored' : x.file = f /\ y.file = f /\ x.no # y.no => x.lines \cap y.lines = {}
    <3>1. \A x, y \in stored : x.file = f /\ y.file = f /\ x.no # y.no => x.lines \cap y.lines = {}
      BY <1>5 DEF OnceOf
    <3> QED
      BY <3>1, <2>5, <1>2
  <2>7. Fresh(entry'[f], disk'[f], clock')
    BY <1>5, <1>b, <1>c DEF OnceOf
  <2>8. \A x \in stored' : x.file = f => RecordOnce(x, entry'[f], disk'[f], clock')
    BY <2>3, <1>b, <1>c
  <2>9. ASSUME NEW q \in Readers, Pending(q, f)'
        PROVE  /\ SegmentOnce(f, result'[q], from'[q], disk'[f], clock')
               /\ \A x \in stored' : x.file = f => BesideOnce(x, result'[q], from'[q], disk'[f], pc'[q] = "store")
    <3>1. q = r
      BY <2>9, <2>4
    <3>2. result'[q] = res /\ from'[q] = c /\ (pc'[q] = "store") = FALSE
      BY <3>1, <1>b, <1>e DEF res, c
    <3> QED
      BY <3>2, <2>1, <2>3, <1>c
  <2> QED
    BY <2>6, <2>7, <2>8, <2>9 DEF OnceOf
<1>6. ASSUME AgentOnce, ~AgentReadAnew', NEW q \in Readers PROVE Unseen(q)'
  <2> SUFFICES ASSUME pc'[q] = "scan" PROVE Unseen(q)'
    BY DEF Unseen
  <2>1. pc[q] = "scan" /\ q # r
    BY <1>e, <1>b
  <2>2. path[q] = "agent"
    BY <2>1, <1>a DEF SkipInv, Observed
  <2>3. f # "agent"
    BY <2>1, <2>2, <1>c, <1>f, OneRound DEF Under
  <2>4. \A x \in stored' : x.file = "agent" => x \in stored
    BY <2>3, <1>2, <1>d
  <2> QED
    BY <2>1, <2>4, <1>6, <1>b, <1>c DEF AgentOnce, Unseen, AgentLines
<1>7. OnceOf("main")'
  BY <1>4, <1>5 DEF OnceInv, Files
<1>8. CASE AgentReadAnew'
  BY <1>7, <1>8 DEF OnceInv
<1>9. CASE ~AgentReadAnew'
  <2>1. AgentOnce
    BY <1>3, <1>9 DEF OnceInv
  <2>2. OnceOf("agent")'
    BY <2>1, <1>4, <1>5, <1>9 DEF AgentOnce, Files
  <2> QED
    BY <1>6, <1>7, <1>9, <2>1, <2>2 DEF OnceInv, AgentOnce
<1> QED
  BY <1>8, <1>9

\* A cursor is written for what it was read from.
LEMMA OnceCommit ==
  ASSUME SInv, Alone, OnceInv, NEW r \in Readers, Commit(r)
  PROVE  OnceInv'
<1>f. PICK f \in Files : f = path[r]
  BY DEF SInv, Shape
<1>a. /\ Shape /\ entry \in [Files -> AnyCursors] /\ pc \in [Readers -> Stages] /\ stored \subseteq Records
  BY DEF SInv, Shape
<1>b. pc[r] = "commit" /\ UNCHANGED <<session, path, from, seen, result, stored, shadowed>>
  BY DEF Commit
<1>c. /\ pc[r] \in Under /\ Pending(r, f) /\ from[r] = entry[f] /\ result[r] \in Results
      /\ disk' = disk /\ clock' = clock
  BY <1>b, <1>f DEF Under, Pending, Alone, session, SInv, Shape
<1>1. CASE entry' = entry /\ pc' = [pc EXCEPT ![r] = "failed"]
  <2>1. Settled(r)
    BY <1>1, <1>a, <1>b DEF Settled
  <2> QED
    BY <2>1, OnceSettled
<1>2. CASE /\ entry' = [entry EXCEPT ![f] = result[r].cursor]
           /\ pc' = [pc EXCEPT ![r] = IF result[r].more THEN "more" ELSE "ended"]
  <2>1. /\ entry'[f] = result[r].cursor /\ \A h \in Files \ {f} : entry'[h] = entry[h]
        /\ pc'[r] \notin {"scan", "store", "commit"} /\ \A q \in Readers \ {r} : pc'[q] = pc[q]
    BY <1>2, <1>a
  <2>2. ASSUME NEW h \in Files, h # f, OnceOf(h) PROVE OnceOf(h)'
    <3>1. entry[h] \in AnyCursors /\ entry'[h] = entry[h]
      BY <2>1, <2>2, <1>a
    <3>2. \A q \in Readers : (path'[q] = h /\ pc'[q] \in {"store", "commit"}) =>
            Pending(q, h) /\ pc'[q] = pc[q] /\ from'[q] = from[q] /\ result'[q] = result[q]
      BY <2>1, <1>b DEF Pending
    <3> QED
      BY <2>2, <1>b, <3>1, <3>2, OnceElsewhere
  <2>3. ASSUME OnceOf(f) PROVE OnceOf(f)'
    <3>1. SegmentOnce(f, result[r], entry[f], disk[f], clock)
      BY <2>3, <1>c DEF OnceOf
    <3>2. Fresh(entry'[f], disk'[f], clock')
      BY <3>1, <2>1, <1>c DEF SegmentOnce, Takes
    <3>3. ASSUME NEW x \in stored', x.file = f PROVE RecordOnce(x, entry'[f], disk'[f], clock')
      <4>1. x \in stored /\ x \in Records
        BY <3>3, <1>a, <1>b
      <4>2. RecordOnce(x, entry[f], disk[f], clock) /\ BesideOnce(x, result[r], entry[f], disk[f], FALSE)
        BY <4>1, <3>3, <2>3, <1>b, <1>c DEF OnceOf
      <4>3. SegmentOnce(x.file, result[r], entry[f], disk[f], clock) /\ entry[f] \in AnyCursors
        BY <3>1, <3>3, <1>a
      <4>4. RecordOnce(x, result[r].cursor, disk[f], clock)
        BY <4>1, <4>2, <4>3, <1>c, CursorOnce
      <4> QED
        BY <4>4, <2>1, <1>c
    <3>4. ASSUME NEW q \in Readers, Pending(q, f)' PROVE FALSE
      <4>1. path[q] = f /\ pc'[q] \in {"store", "commit"}
        BY <3>4, <1>b DEF Pending
      <4>2. q # r
        BY <4>1, <2>1
      <4>3. pc[q] \in Under
        BY <4>1, <4>2, <2>1 DEF Under
      <4> QED
        BY <4>1, <4>2, <4>3, <1>c, <1>f, OneRound
    <3>5. \A x, y \in stored' : x.file = f /\ y.file = f /\ x.no # y.no => x.lines \cap y.lines = {}
      BY <2>3, <1>b DEF OnceOf
    <3> QED
      BY <3>2, <3>3, <3>4, <3>5 DEF OnceOf
  <2>4. OnceOf("main")'
    BY <2>2, <2>3 DEF OnceInv, Files
  <2>5. CASE AgentReadAnew
    <3>1. AgentReadAnew'
      BY <2>5, <1>b DEF AgentReadAnew, SameId
    <3> QED
      BY <2>4, <3>1 DEF OnceInv
  <2>6. CASE AgentOnce
    <3>1. OnceOf("agent")'
      BY <2>2, <2>3, <2>6 DEF AgentOnce, Files
    <3>2. ASSUME NEW q \in Readers, Unseen(q) PROVE Unseen(q)'
      BY <3>2, <2>1, <1>b, <1>c DEF Unseen, AgentLines
    <3> QED
      BY <2>4, <2>6, <3>1, <3>2 DEF OnceInv, AgentOnce
  <2> QED
    BY <2>5, <2>6 DEF OnceInv
<1> QED
  BY <1>1, <1>2, <1>f DEF Commit, Goto

\* The steps that take no round on.
LEMMA OnceStop ==
  ASSUME SInv, OnceInv, NEW r \in Readers,
         \/ \E f \in Files : Come(r, f) \/ GiveUp(r, f)
         \/ Refused(r) \/ DropEntry(r) \/ Fail(r) \/ Unlock(r) \/ Crash(ProcessOf[r])
  PROVE  OnceInv'
BY ComeKeeps, StopKeeps, LeaveKeeps, OnceSettled

OnceOnly == SInv /\ Alone /\ OnceInv

LEMMA InitOnceOnly == Init => OnceOnly
<1> SUFFICES ASSUME Init PROVE OnceOnly
  OBVIOUS
<1>1. SInv /\ Alone
  BY InitHeldBack DEF HeldBack
<1>2. pc = [r \in Readers |-> "idle"] /\ stored = {}
  BY DEF Init
<1>3. ASSUME NEW f \in Files PROVE entry[f].inode = 0 /\ entry[f].ids = {} /\ disk[f].inode = 1
  <2>1. entry[f] = [NewCursor EXCEPT !.reg = f \in Present]
    BY <1>3 DEF Init
  <2>2. disk[f].inode = 1
    BY <1>3 DEF Init
  <2> QED
    BY <2>1, <2>2 DEF NewCursor
<1>4. ASSUME NEW f \in Files PROVE OnceOf(f)
  BY <1>2, <1>3 DEF OnceOf, Fresh, Pending
<1>5. \A r \in Readers : Unseen(r)
  BY <1>2 DEF Unseen
<1> QED
  BY <1>1, <1>4, <1>5 DEF OnceOnly, OnceInv, AgentOnce, Files

LEMMA NextOnceOnly ==
  ASSUME ~Suspends, OnceOnly, [Next]_vars
  PROVE  OnceOnly'
<1>a. SInv /\ Alone /\ OnceInv
  BY DEF OnceOnly
<1>1. SInv'
  BY <1>a, NextSInv
<1>2. CASE Next
  <2>1. Alone'
    BY <1>a, <1>2, AloneKept
  <2>2. OnceInv'
    BY <1>a, <1>1, <1>2, OnceWrite, OnceStop, OnceObserve, OnceScan, OnceStore, OnceCommit DEF Next, Step
  <2> QED
    BY <1>1, <2>1, <2>2 DEF OnceOnly
<1>3. CASE UNCHANGED vars
  <2>1. Alone'
    BY <1>a, <1>3 DEF vars, session, reading, round, Alone
  <2>2. \A r : Settled(r)
    BY <1>3 DEF Settled, vars, session, reading, round
  <2>3. OnceInv'
    BY <2>2, <1>a, OnceSettled
  <2> QED
    BY <1>1, <2>1, <2>3 DEF OnceOnly
<1> QED
  BY <1>2, <1>3

\* InOneRecord, of any readers, processes and files, where no holder outlives
\* the bound a lock is stale after: however the files are replaced and the
\* rounds cut, no line is in two records, but for those of an agent file that
\* was read anew after its record was stored.
THEOREM LineIsInOneRecord == ASSUME ~Suspends PROVE Spec => []InOneRecord
<1>1. OnceOnly => InOneRecord
  <2> SUFFICES ASSUME OnceOnly, NEW x \in stored, NEW y \in stored,
                      x.file = y.file, x.no # y.no, x.lines \cap y.lines # {}
               PROVE  x.file = "agent" /\ AgentReadAnew
    BY DEF InOneRecord
  <2>1. x.file \in Files
    BY DEF OnceOnly, SInv, Shape, Records
  <2>2. ~OnceOf(x.file)
    BY DEF OnceOf
  <2> QED
    BY <2>1, <2>2 DEF OnceOnly, OnceInv, AgentOnce, Files
<1> QED
  BY <1>1, InitOnceOnly, NextOnceOnly, PTL DEF Spec

-----------------------------------------------------------------------------
(* Cursors go on, and what was asked for is read: where no holder outlives  *)
(* the bound a lock is stale after, or else no file is replaced.            *)

Steady ==
  \/ ~Suspends /\ Alone
  \/ MaxRewrites = 0 /\ \A f \in Files : disk[f].inode = 1

\* The cursor d goes on from c, in the file of d if c is of none.
Onwards(c, d) ==
  /\ c.next <= d.next /\ d.inode # 0
  /\ c.inode = 0 \/ c.inode = d.inode => c.offset <= d.offset

\* What a round comes to is further on than where it started.
RoundGoesOn(r) ==
  pc[r] \in {"store", "commit"} =>
    Onwards(from[r], result[r].cursor) /\ from[r].inode <= disk[path[r]].inode

\* What readers that gave up on r came for was written; of a round since, it
\* is part of what was observed, and what was read when all was.
RoundReads(r) ==
  /\ \A s \in asked[r] : s <= clock
  /\ pc[r] = "vanished" => ~disk[path[r]].exists
  /\ pc[r] = "scan" /\ ~seen[r].exists => ~disk["agent"].exists
  /\ ~abandoned[r] =>
       /\ pc[r] = "scan" /\ disk["agent"].exists =>
            \A j \in 1..Len(AgentLines) : AgentLines[j].serial \in asked[r] => j <= seen[r].size
       /\ pc[r] \in {"store", "commit"} /\ ~result[r].more =>
            Behind(asked[r], result[r].cursor, disk[path[r]])
       /\ pc[r] = "ended" =>
            /\ Behind(asked[r], entry[path[r]], disk[path[r]])
            /\ disk[path[r]].exists => entry[path[r]].inode # 0

RoundOn(r) == RoundGoesOn(r) /\ RoundReads(r)
OnInv      == asked \in [Readers -> SUBSET Serials] /\ \A r \in Readers : RoundOn(r)

\* A round that ended, failed or is yet to begin.
LEMMA NoRoundOn ==
  ASSUME NEW r \in Readers, pc'[r] \in {"idle", "again", "observe", "more", "held", "failed"},
         \A s \in asked'[r] : s <= clock'
  PROVE  RoundOn(r)'
BY DEF RoundOn, RoundGoesOn, RoundReads

\* A round that another reader's step leaves alone, but for giving up on it.
LEMMA SameRoundOn ==
  ASSUME NEW r \in Readers, RoundOn(r), UNCHANGED session,
         pc'[r] = pc[r], path'[r] = path[r], from'[r] = from[r], seen'[r] = seen[r], result'[r] = result[r],
         pc[r] = "ended" => /\ entry'[path[r]].inode = entry[path[r]].inode
                            /\ entry'[path[r]].offset = entry[path[r]].offset,
         \A s \in asked'[r] : s <= clock,
         ~abandoned'[r] => ~abandoned[r] /\ asked'[r] = asked[r]
  PROVE  RoundOn(r)'
<1>1. disk' = disk /\ clock' = clock /\ AgentLines' = AgentLines
  BY DEF session, AgentLines
<1>2. RoundGoesOn(r)'
  BY <1>1 DEF RoundOn, RoundGoesOn
<1>3. \A s \in asked'[r] : s <= clock
  OBVIOUS
<1>4. CASE abandoned'[r]
  BY <1>1, <1>2, <1>3, <1>4 DEF RoundOn, RoundReads
<1>5. CASE ~abandoned'[r]
  <2>1. asked'[r] = asked[r] /\ ~abandoned[r]
    BY <1>5
  <2>2. pc[r] = "ended" => /\ Behind(asked'[r], entry'[path'[r]], disk[path[r]])
                           /\ disk[path[r]].exists => entry'[path'[r]].inode # 0
    BY <2>1 DEF RoundOn, RoundReads, Behind
  <2> QED
    BY <1>1, <1>2, <1>3, <2>1, <2>2 DEF RoundOn, RoundReads
<1> QED
  BY <1>4, <1>5

\* The lines of a file that is gone are gone.
LEMMA NothingLeft ==
  ASSUME SInv, NEW f \in Files, ~disk[f].exists
  PROVE  Len(disk[f].lines) = 0 /\ \A K, c : Behind(K, c, disk[f])
<1>1. disk[f].lines = <<>>
  BY DEF SInv, FilesInv, OneFile
<1> QED
  BY <1>1 DEF Behind

\* A write is to a file what Stems says, also where lines are observed.
LEMMA WriteStems ==
  ASSUME SInv, Write, NEW f \in Files
  PROVE  /\ Stems(disk'[f], disk[f], clock) /\ disk[f] \in FileStates /\ disk'[f] \in FileStates
         /\ clock \in Int /\ clock' \in Int /\ clock <= clock' /\ UNCHANGED reading
         /\ MaxRewrites = 0 /\ disk[f].inode = 1 => disk'[f].inode = 1
<1>1. /\ Written /\ UNCHANGED reading /\ disk[f] \in FileStates /\ disk'[f] \in FileStates
      /\ clock \in Int /\ clock' \in Int
  BY WriteIs, BoundAssumption DEF SInv, Shape
<1>2. Changed(disk[f], disk'[f]) /\ (clock' = clock \/ clock' = clock + 1)
  BY <1>1, WriteChanges DEF SInv, Files
<1>3. Stems(disk'[f], disk[f], clock)
  BY <1>1, <1>2, ChangedStems
<1>4. ASSUME MaxRewrites = 0, disk[f].inode = 1 PROVE disk'[f].inode = 1
  <2>a. disk \in [Files -> FileStates]
    BY DEF SInv, Shape
  <2>1. CASE \E g \in Files : Say(g) \/ Vanish(g)
    <3>1. PICK g \in Files : Say(g) \/ Vanish(g)
      BY <2>1
    <3>2. disk[f] = [exists |-> disk[f].exists, inode |-> disk[f].inode, lines |-> disk[f].lines]
      BY <1>1 DEF FileStates
    <3>3. CASE Say(g)
      <4>1. PICK l : disk' = [disk EXCEPT ![g].lines = l]
        BY <3>3 DEF Say, Append1
      <4>2. disk'[f] = IF f = g THEN [disk[f] EXCEPT !.lines = l] ELSE disk[f]
        BY <4>1, <2>a
      <4> QED
        BY <4>2, <3>2, <1>4
    <3>4. CASE Vanish(g)
      <4>1. disk'[f] = IF f = g THEN [disk[f] EXCEPT !.exists = FALSE, !.lines = <<>>] ELSE disk[f]
        BY <3>4, <2>a DEF Vanish
      <4> QED
        BY <4>1, <3>2, <1>4
    <3> QED
      BY <3>1, <3>3, <3>4
  <2>2. CASE Move
    BY <2>2, <2>a, <1>4 DEF Move, Append1, FileStates, Files
  <2>3. CASE \E g \in Files : LET n == Len(disk[g].lines) IN
               \E m \in 0..n : \E h \in Thinnings(m, n) : Rewrite(g, m, h)
    <3>1. PICK g \in Files : disk[g].inode <= MaxRewrites /\ \A h \in Files \ {g} : disk'[h] = disk[h]
      BY <2>3, <2>a DEF Rewrite
    <3> QED
      BY <3>1, <1>4
  <2> QED
    BY <2>1, <2>2, <2>3 DEF Write
<1> QED
  BY <1>1, <1>2, <1>3, <1>4

\* An agent file that a round observed is not replaced before it is read.
LEMMA WriteInPlace ==
  ASSUME SInv, Write, NEW r \in Readers, path[r] = "agent", seen[r].exists
  PROVE  disk'["agent"].inode = disk["agent"].inode
<1> DEFINE file == disk["agent"]  file2 == disk'["agent"]
<1>1. Written /\ file \in FileStates
  BY WriteIs DEF SInv, Shape, Files
<1>2. CASE WroteAgent
  <2>1. PICK l \in Lines : Grown(file, file2, l)
    BY <1>2 DEF WroteAgent
  <2> QED
    BY <2>1, <1>1, GrownIs
<1>3. CASE ReplacedAgent
  BY <1>3 DEF ReplacedAgent
<1>4. CASE OneGone
  <2>1. Gone(file, file2) => file2.inode = file.inode
    BY <1>1, GoneIs
  <2> QED
    BY <2>1, <1>4 DEF OneGone
<1>5. CASE WroteMain \/ ReplacedMain
  BY <1>5 DEF WroteMain, ReplacedMain
<1> QED
  BY <1>1, <1>2, <1>3, <1>4, <1>5 DEF Written

\* A cursor about to be written is of the file that is there or of one before.
LEMMA PendingInode ==
  ASSUME SInv, NEW r \in Readers, pc[r] \in {"store", "commit"}
  PROVE  result[r].cursor.inode <= disk[path[r]].inode
<1>1. path[r] = "main" \/ path[r] = "agent"
  BY DEF SInv, Shape, Files
<1> QED
  BY <1>1 DEF SInv, OutsideInv, SkipInv, Pending, Sound, Tracks

\* Claude Code writes.
LEMMA OnWrite ==
  ASSUME SInv, OnInv, Write, NEW r \in Readers
  PROVE  RoundOn(r)'
<1> DEFINE f == path[r]
<1>a. f \in Files /\ from[r] \in AnyCursors /\ result[r].cursor \in AnyCursors /\ entry[f] \in AnyCursors
  BY DEF SInv, Shape, Results
<1>b. /\ Stems(disk'[f], disk[f], clock) /\ disk[f] \in FileStates /\ disk'[f] \in FileStates
      /\ clock \in Int /\ clock' \in Int /\ clock <= clock' /\ UNCHANGED reading
  BY <1>a, WriteStems
<1>c. /\ pc' = pc /\ path' = path /\ from' = from /\ seen' = seen /\ result' = result /\ entry' = entry
      /\ abandoned' = abandoned /\ asked' = asked
  BY <1>b DEF reading, round
<1>d. RoundGoesOn(r) /\ RoundReads(r)
  BY DEF OnInv, RoundOn
<1>e. disk[f].inode \in Nat /\ disk'[f].inode \in Nat /\ disk[f].inode <= disk'[f].inode /\ (disk'[f].exists => disk[f].exists)
  BY <1>b DEF FileStates, Stems
<1>f. asked[r] \in SUBSET Int /\ (\A s \in asked[r] : s <= clock) 
  BY <1>d, BoundAssumption DEF RoundReads, Serials, OnInv
<1>1. RoundGoesOn(r)'
  BY <1>a, <1>c, <1>d, <1>e DEF RoundGoesOn, AnyCursors
<1>2. \A s \in asked'[r] : s <= clock'
  BY <1>b, <1>c, <1>f
<1>3. pc'[r] = "vanished" => ~disk'[path'[r]].exists
  BY <1>c, <1>d, <1>e DEF RoundReads
<1>4. CASE pc[r] = "scan"
  <2>1. f = "agent"
    BY <1>4 DEF SInv, SkipInv, Observed
  <2>2. ~seen[r].exists => ~disk'["agent"].exists
    BY <1>4, <1>d, <1>e, <2>1 DEF RoundReads
  <2>3. ASSUME ~abandoned[r], disk'["agent"].exists, NEW j \in 1..Len(AgentLines'), AgentLines'[j].serial \in asked[r]
        PROVE  j <= seen[r].size
    <3>1. disk'[f].inode = disk[f].inode
      <4>1. seen[r].exists
        BY <2>2, <2>3
      <4> QED
        BY <4>1, <2>1, WriteInPlace
    <3>2. ~(AgentLines'[j].serial > clock)
      BY <1>b, <1>f, <2>3
    <3>3. disk["agent"].exists /\ j \in 1..Len(AgentLines) /\ AgentLines[j] = AgentLines'[j]
      BY <3>1, <3>2, <2>1, <2>3, <1>b DEF Stems, AgentLines
    <3> QED
      BY <3>3, <2>3, <1>4, <1>d DEF RoundReads
  <2> QED
    BY <2>2, <2>3, <1>1, <1>2, <1>4, <1>c DEF RoundOn, RoundReads
<1>5. CASE pc[r] \in {"store", "commit"}
  <2>1. result[r].cursor.inode <= disk[f].inode
    BY <1>5, PendingInode
  <2>2. Behind(asked[r], result[r].cursor, disk[f]) => Behind(asked[r], result[r].cursor, disk'[f])
    BY <2>1, <1>a, <1>b, <1>f, SideKept
  <2> QED
    BY <2>2, <1>1, <1>2, <1>5, <1>c, <1>d DEF RoundOn, RoundReads
<1>6. CASE pc[r] = "ended"
  <2>1. entry[f].inode <= disk[f].inode
    BY <1>a DEF SInv, OutsideInv, SkipInv, Sound, Tracks, Files
  <2>2. Behind(asked[r], entry[f], disk[f]) => Behind(asked[r], entry[f], disk'[f])
    BY <2>1, <1>a, <1>b, <1>f, SideKept
  <2> QED
    BY <2>2, <1>1, <1>2, <1>6, <1>c, <1>d, <1>e DEF RoundOn, RoundReads
<1>7. CASE pc[r] \notin {"scan", "store", "commit", "ended"}
  BY <1>1, <1>2, <1>3, <1>7, <1>c DEF RoundOn, RoundReads
<1> QED
  BY <1>4, <1>5, <1>6, <1>7

\* Rounds that are over, whether they end or their process dies.
LEMMA OnForgotten ==
  ASSUME SInv, OnInv, NEW rs \in SUBSET Readers, Forgotten(rs), UNCHANGED <<session, entry>>,
         \A q \in Readers \ rs : pc'[q] = pc[q] /\ path'[q] = path[q],
         \A q \in rs : pc'[q] \in {"idle", "again"},
         \A q \in Readers : asked'[q] = asked[q] \/ (q \in rs /\ asked'[q] = {}),
         asked' \in [Readers -> SUBSET Serials]
  PROVE  OnInv'
<1>1. ASSUME NEW q \in Readers PROVE RoundOn(q) /\ \A s \in asked'[q] : s <= clock'
  BY DEF OnInv, RoundOn, RoundReads, session
<1>2. ASSUME NEW q \in rs PROVE RoundOn(q)'
  BY <1>1, NoRoundOn
<1>3. ASSUME NEW q \in Readers \ rs PROVE RoundOn(q)'
  <2>1. from'[q] = from[q] /\ seen'[q] = seen[q] /\ result'[q] = result[q] /\ (~abandoned'[q] => ~abandoned[q])
    BY <1>3 DEF Forgotten
  <2>2. asked'[q] = asked[q] /\ \A s \in asked'[q] : s <= clock
    BY <1>1, <1>3 DEF session
  <2> QED
    BY <2>1, <2>2, <1>1, <1>3, SameRoundOn
<1> QED
  BY <1>2, <1>3 DEF OnInv

\* A step that takes no round on.
LEMMA OnStop ==
  ASSUME SInv, OnInv, NEW r \in Readers,
         \/ \E f \in Files : Come(r, f) \/ GiveUp(r, f)
         \/ Refused(r) \/ DropEntry(r) \/ Fail(r) \/ Unlock(r) \/ Crash(ProcessOf[r])
  PROVE  OnInv'
<1>a. /\ pc \in [Readers -> Stages] /\ path \in [Readers -> Files] /\ entry \in [Files -> AnyCursors]
      /\ from \in [Readers -> AnyCursors] /\ seen \in [Readers -> Sights] /\ result \in [Readers -> Results]
      /\ disk \in [Files -> FileStates] /\ clock \in Int /\ asked \in [Readers -> SUBSET Serials]
  BY BoundAssumption DEF SInv, Shape, OnInv
<1>b. ASSUME NEW q \in Readers PROVE RoundOn(q) /\ \A s \in asked[q] : s <= clock
  BY DEF OnInv, RoundOn, RoundReads
<1>1. ASSUME NEW f \in Files, Come(r, f) PROVE OnInv'
  <2>1. /\ pc' = [pc EXCEPT ![r] = "observe"] /\ path' = [path EXCEPT ![r] = f] /\ asked' = asked
        /\ UNCHANGED <<session, entry, abandoned, from, seen, result>>
    BY <1>1 DEF Come, Goto
  <2>2. RoundOn(r)'
    BY <2>1, <1>a, <1>b, NoRoundOn DEF session
  <2>3. ASSUME NEW q \in Readers, q # r PROVE RoundOn(q)'
    BY <2>1, <2>3, <1>a, <1>b, SameRoundOn
  <2> QED
    BY <2>1, <2>2, <2>3, <1>a DEF OnInv
<1>2. ASSUME NEW f \in Files, GiveUp(r, f) PROVE OnInv'
  <2>1. /\ pc' = [pc EXCEPT ![r] = "idle"] /\ path' = [path EXCEPT ![r] = "main"]
        /\ UNCHANGED <<session, entry, from, seen, result>>
        /\ abandoned' = [q \in Readers |-> abandoned[q] \/ q \in Inside(r, f)]
        /\ asked' = [q \in Readers |-> IF q \in Inside(r, f) THEN asked[q] \cup OnDisk(f) ELSE asked[q]]
        /\ pc[r] \in {"idle", "again"}
    BY <1>2 DEF GiveUp, Goto, Wants
  <2>2. OnDisk(f) \subseteq Serials /\ \A s \in OnDisk(f) : s <= clock
    <3>1. disk[f].lines \in Seq(Lines) /\ OneFile(disk[f], clock)
      BY <1>a DEF FileStates, SInv, FilesInv
    <3> QED
      BY <3>1, LineIs DEF OnDisk, OneFile
  <2>3. r \notin Inside(r, f)
    BY <2>1 DEF Inside
  <2>4. RoundOn(r)'
    BY <2>1, <2>3, <1>a, <1>b, NoRoundOn DEF session
  <2>5. ASSUME NEW q \in Readers, q # r PROVE RoundOn(q)'
    <3>1. /\ pc'[q] = pc[q] /\ path'[q] = path[q] /\ from'[q] = from[q] /\ seen'[q] = seen[q] /\ result'[q] = result[q]
          /\ entry'[path[q]] = entry[path[q]] /\ UNCHANGED session
      BY <2>1, <2>5, <1>a
    <3>2. \A s \in asked'[q] : s <= clock
      BY <2>1, <2>2, <1>b
    <3>3. ~abandoned'[q] => ~abandoned[q] /\ asked'[q] = asked[q]
      BY <2>1
    <3> QED
      BY <3>1, <3>2, <3>3, <1>b, SameRoundOn
  <2>6. asked' \in [Readers -> SUBSET Serials]
    BY <2>1, <2>2, <1>a
  <2> QED
    BY <2>4, <2>5, <2>6 DEF OnInv
<1>3. ASSUME Refused(r) \/ (Fail(r) /\ pc[r] # "vanished") PROVE OnInv'
  <2>1. /\ pc' = [pc EXCEPT ![r] = IF pc[r] = "store" /\ Refused(r) THEN "held" ELSE "failed"]
        /\ \A q \in Readers \ {r} : seen'[q] = seen[q]
        /\ UNCHANGED <<session, entry, abandoned, path, from, result, asked>>
    BY <1>3, <1>a DEF Refused, Fail, Goto
  <2>2. RoundOn(r)'
    BY <2>1, <1>a, <1>b, NoRoundOn DEF session
  <2>3. ASSUME NEW q \in Readers, q # r PROVE RoundOn(q)'
    BY <2>1, <2>3, <1>a, <1>b, SameRoundOn
  <2> QED
    BY <2>1, <2>2, <2>3, <1>a DEF OnInv
<1>4. ASSUME DropEntry(r) \/ (Fail(r) /\ pc[r] = "vanished") PROVE OnInv'
  <2>1. /\ pc[r] = "vanished" /\ pc' = [pc EXCEPT ![r] = "ended"]
        /\ \A q \in Readers \ {r} : seen'[q] = seen[q]
        /\ UNCHANGED <<session, abandoned, path, from, result, asked>>
        /\ entry' = entry \/ entry' = [entry EXCEPT ![path[r]].reg = FALSE]
    BY <1>4, <1>a DEF DropEntry, Fail, Goto
  <2>2. RoundOn(r)'
    <3>1. ~disk[path[r]].exists /\ path[r] \in Files
      BY <2>1, <1>a, <1>b DEF RoundOn, RoundReads
    <3>2. Behind(asked[r], entry'[path[r]], disk[path[r]])
      BY <3>1, NothingLeft
    <3> QED
      BY <2>1, <3>1, <3>2, <1>a, <1>b DEF RoundOn, RoundGoesOn, RoundReads, session
  <2>3. ASSUME NEW q \in Readers, q # r PROVE RoundOn(q)'
    <3>1. path[q] \in Files /\ path[r] \in Files /\ entry[path[q]] \in AnyCursors /\ pc'[q] = pc[q]
      BY <2>1, <2>3, <1>a
    <3>2. entry'[path[q]].inode = entry[path[q]].inode /\ entry'[path[q]].offset = entry[path[q]].offset
      <4>1. entry'[path[q]] \in {entry[path[q]], [entry[path[q]] EXCEPT !.reg = FALSE]}
        <5>1. CASE path[q] = path[r]
          BY <5>1, <2>1, <3>1, <1>a, ZenonT(30)
        <5>2. CASE path[q] # path[r]
          BY <5>2, <2>1, <3>1, <1>a, ZenonT(30)
        <5> QED
          BY <5>1, <5>2
      <4>2. LET c == [entry[path[q]] EXCEPT !.reg = FALSE] IN
            c.inode = entry[path[q]].inode /\ c.offset = entry[path[q]].offset
        BY <3>1 DEF AnyCursors
      <4> QED
        BY <4>1, <4>2
    <3> QED
      BY <2>1, <2>3, <3>1, <3>2, <1>b, SameRoundOn
  <2> QED
    BY <2>1, <2>2, <2>3, <1>a DEF OnInv
<1>5. ASSUME Unlock(r) PROVE OnInv'
  <2>1. /\ Forgotten({r}) /\ UNCHANGED <<session, entry>>
        /\ \/ pc' = [pc EXCEPT ![r] = "again"] /\ UNCHANGED <<path, asked>>
           \/ /\ pc' = [pc EXCEPT ![r] = "idle"] /\ path' = [path EXCEPT ![r] = "main"]
              /\ asked' = [asked EXCEPT ![r] = {}]
    BY <1>5 DEF Unlock, Goto
  <2>2. /\ \A q \in Readers \ {r} : pc'[q] = pc[q] /\ path'[q] = path[q]
        /\ \A q \in {r} : pc'[q] \in {"idle", "again"}
        /\ \A q \in Readers : asked'[q] = asked[q] \/ (q \in {r} /\ asked'[q] = {})
        /\ asked' \in [Readers -> SUBSET Serials]
    BY <2>1, <1>a
  <2> QED
    BY <2>1, <2>2, OnForgotten
<1>6. ASSUME Crash(ProcessOf[r]) PROVE OnInv'
  <2> DEFINE dead == {q \in Readers : ProcessOf[q] = ProcessOf[r]}
  <2>1. /\ Forgotten(dead) /\ UNCHANGED <<session, entry>>
        /\ pc' = [q \in Readers |-> IF q \in dead THEN "idle" ELSE pc[q]]
        /\ path' = [q \in Readers |-> IF q \in dead THEN "main" ELSE path[q]]
        /\ asked' = [q \in Readers |-> IF q \in dead THEN {} ELSE asked[q]]
    BY <1>6 DEF Crash
  <2>2. dead \in SUBSET Readers
    OBVIOUS
  <2> HIDE DEF dead
  <2>3. /\ \A q \in Readers \ dead : pc'[q] = pc[q] /\ path'[q] = path[q]
        /\ \A q \in dead : pc'[q] \in {"idle", "again"}
        /\ \A q \in Readers : asked'[q] = asked[q] \/ (q \in dead /\ asked'[q] = {})
        /\ asked' \in [Readers -> SUBSET Serials]
    BY <2>1, <2>2, <1>a
  <2> QED
    BY <2>1, <2>2, <2>3, OnForgotten
<1> QED
  BY <1>1, <1>2, <1>3, <1>4, <1>5, <1>6

\* A step of a round that writes no cursor.
LEMMA OnRound ==
  ASSUME SInv, OnInv, NEW r \in Readers,
         UNCHANGED <<session, entry, abandoned, path, asked>>,
         \A q \in Readers \ {r} :
           pc'[q] = pc[q] /\ from'[q] = from[q] /\ seen'[q] = seen[q] /\ result'[q] = result[q],
         RoundOn(r)'
  PROVE  OnInv'
<1>1. asked \in [Readers -> SUBSET Serials] /\ \A q \in Readers : RoundOn(q) /\ \A s \in asked[q] : s <= clock
  BY DEF OnInv, RoundOn, RoundReads
<1>2. ASSUME NEW q \in Readers \ {r} PROVE RoundOn(q)'
  BY <1>1, <1>2, SameRoundOn
<1> QED
  BY <1>1, <1>2 DEF OnInv

LEMMA OnObserve ==
  ASSUME SInv, OnInv, NEW r \in Readers, Observe(r)
  PROVE  OnInv'
<1> DEFINE f == path[r]
<1>a. /\ Shape /\ FilesInv /\ OutsideInv /\ f \in Files /\ f \in {"main", "agent"}
      /\ entry \in [Files -> AnyCursors] /\ disk \in [Files -> FileStates]
      /\ pc \in [Readers -> Stages] /\ from \in [Readers -> AnyCursors]
      /\ seen \in [Readers -> Sights] /\ result \in [Readers -> Results]
  BY DEF SInv, Shape, Files
<1>b. /\ pc[r] = "observe" /\ UNCHANGED <<session, entry, abandoned, path, asked>>
      /\ from' = [from EXCEPT ![r] = entry[f]] /\ from'[r] = entry[f]
  BY <1>a DEF Observe
<1>c. \A s \in asked[r] : s <= clock
  BY DEF OnInv, RoundOn, RoundReads
<1>d. disk' = disk /\ clock' = clock /\ AgentLines' = AgentLines /\ asked' = asked /\ path' = path /\ abandoned' = abandoned
  BY <1>b DEF session, AgentLines
<1>1. CASE pc' = [pc EXCEPT ![r] = "failed"] /\ UNCHANGED <<seen, result>>
  <2>1. RoundOn(r)'
    BY <1>1, <1>a, <1>c, <1>d DEF RoundOn, RoundGoesOn, RoundReads
  <2> QED
    BY <2>1, <1>1, <1>a, <1>b, OnRound
<1>2. CASE f = "main" /\ Consume(r, f, Sight(f), entry[f], FALSE) /\ seen' = seen
  <2>1. CASE ~disk["main"].exists
    <3>1. pc' = [pc EXCEPT ![r] = "vanished"] /\ result' = result
      BY <2>1, <1>2 DEF Consume, Goto
    <3>2. RoundOn(r)'
      BY <2>1, <3>1, <1>2, <1>a, <1>c, <1>d DEF RoundOn, RoundGoesOn, RoundReads
    <3> QED
      BY <3>1, <3>2, <1>2, <1>a, <1>b, OnRound
  <2>2. CASE disk["main"].exists
    <3> DEFINE c    == entry["main"]
               file == disk["main"]
               a    == PassOf(c, Sight("main"), file.lines, FALSE)
               res  == ReadLines(c, Sight("main"), file.lines, FALSE)
    <3>1. /\ result' = [result EXCEPT ![r] = res]
          /\ pc' = [pc EXCEPT ![r] = IF res.kept = {} THEN "commit" ELSE "store"]
      BY <2>2, <1>2 DEF Consume, Goto, Sight
    <3>2. /\ file.inode \in Nat /\ file.inode >= 1 /\ file.lines \in Seq(Lines)
          /\ Sorted(file.lines) /\ Trail(file.lines) /\ c \in AnyCursors /\ Sound(c, file)
      BY <1>a DEF FilesInv, OutsideInv, OneFile, FileStates, Files, MainLines
    <3>3. /\ Sight("main") \in Sights
          /\ Sight("main").inode = file.inode /\ Sight("main").size = Len(file.lines)
      BY <1>a, LenProperties DEF Sight, Sights, FileStates, Files
    <3>4. PassEnds(a, file.lines, StartOf(c, Sight("main")), SkipOf(c, Sight("main"))) /\ ReadsTo(res, c, Sight("main"), a)
      BY <2>2, <3>2, <3>3, ReadMainEnds, Zenon
    <3>5. StartOf(c, Sight("main")) \in Nat /\ (c.inode = 0 \/ c.inode = file.inode => StartOf(c, Sight("main")) = c.offset)
      BY <3>2, <3>3 DEF StartOf, Restarts, AnyCursors
    <3> HIDE DEF a, res
    <3>6. /\ res \in Results /\ res.cursor.inode = file.inode /\ res.cursor.offset = a.offset /\ res.more = a.more
          /\ res.cursor.next = (IF res.kept = {} THEN c.next ELSE c.next + 1)
      BY <3>3, <3>4 DEF ReadsTo
    <3>7. Onwards(c, res.cursor) /\ c.inode <= file.inode
      BY <3>2, <3>4, <3>5, <3>6 DEF PassEnds, Onwards, AnyCursors, Sound
    <3>8. ~res.more => \A K : Behind(K, res.cursor, file)
      BY <3>2, <3>4, <3>6, LenProperties DEF PassEnds, Behind
    <3>9. result'[r] = res /\ pc'[r] \in {"store", "commit"}
      BY <3>1, <1>a
    <3>10. RoundOn(r)'
      BY <3>7, <3>8, <3>9, <1>2, <1>b, <1>c, <1>d DEF RoundOn, RoundGoesOn, RoundReads
    <3> QED
      BY <3>1, <3>10, <1>2, <1>a, <1>b, OnRound
  <2> QED
    BY <2>1, <2>2
<1>3. CASE f = "agent" /\ seen' = [seen EXCEPT ![r] = Sight(f)] /\ pc' = [pc EXCEPT ![r] = "scan"] /\ result' = result
  <2>1. pc'[r] = "scan" /\ seen'[r].exists = disk["agent"].exists /\ seen'[r].size = Len(AgentLines)
    BY <1>3, <1>a DEF Sight, AgentLines
  <2>2. Len(AgentLines) \in Nat
    BY <1>a, LenProperties DEF AgentLines, FileStates, Files
  <2>3. RoundOn(r)'
    BY <2>1, <2>2, <1>c, <1>d DEF RoundOn, RoundGoesOn, RoundReads
  <2> QED
    BY <2>3, <1>3, <1>a, <1>b, OnRound
<1> QED
  BY <1>1, <1>2, <1>3 DEF Observe, Goto

LEMMA OnScan ==
  ASSUME SInv, OnInv, NEW r \in Readers, Scan(r)
  PROVE  OnInv'
<1> DEFINE c     == from[r]
           sight == seen[r]
           file  == disk["agent"]
           out   == SessionWasOutside
           res   == ReadLines(c, sight, file.lines, out)
<1>a. /\ Shape /\ FilesInv /\ SkipInv /\ file \in FileStates
      /\ pc \in [Readers -> Stages] /\ c \in AnyCursors /\ seen \in [Readers -> Sights] /\ sight \in Sights
      /\ result \in [Readers -> Results]
  BY DEF SInv, Shape, Files
<1>b. /\ pc[r] = "scan" /\ UNCHANGED <<session, entry, abandoned, path, from, asked>>
      /\ seen' = [seen EXCEPT ![r] = NoSight] /\ Consume(r, path[r], sight, c, out)
  BY DEF Scan
<1>c. Observed(r) /\ path[r] = "agent" /\ RoundReads(r) /\ \A s \in asked[r] : s <= clock
  BY <1>a, <1>b DEF SkipInv, Observed, OnInv, RoundOn, RoundReads
<1>d. disk' = disk /\ clock' = clock /\ asked' = asked /\ path' = path /\ abandoned' = abandoned /\ from' = from
  BY <1>b DEF session
<1>1. CASE ~(sight.exists /\ file.exists)
  <2>1. pc' = [pc EXCEPT ![r] = "vanished"] /\ result' = result
    BY <1>1, <1>b, <1>c DEF Consume, Goto
  <2>2. ~file.exists
    BY <1>1, <1>b, <1>c DEF RoundReads
  <2>3. RoundOn(r)'
    BY <2>1, <2>2, <1>a, <1>c, <1>d DEF RoundOn, RoundGoesOn, RoundReads
  <2> QED
    BY <2>1, <2>3, <1>a, <1>b, OnRound
<1>2. CASE sight.exists /\ file.exists
  <2>1. /\ result' = [result EXCEPT ![r] = res]
        /\ pc' = [pc EXCEPT ![r] = IF res.kept = {} THEN "commit" ELSE "store"]
    BY <1>2, <1>b, <1>c DEF Consume, Goto
  <2>2. /\ file.lines \in Seq(Lines) /\ Calm(file.lines, 1, Len(file.lines)) /\ Len(file.lines) \in Nat
        /\ file.inode \in Nat /\ file.inode >= 1
    BY <1>a, LenProperties DEF FilesInv, AgentLines, FileStates, OneFile, Files
  <2>3. ~c.outside /\ (c.inode = 0 => c.offset = 0) /\ sight.inode = file.inode /\ c.inode <= file.inode
    BY <1>2, <1>c DEF Observed, Tracks
  <2>4. out \in BOOLEAN
    BY WasOutsideIs
  <2>5. AgentRead(res, c, sight, file.lines, out)
    <3> HIDE DEF out
    <3> QED
      BY <2>2, <2>3, <2>4, <1>a, ReadAgent
  <2>6. StartOf(c, sight) \in Nat /\ (c.inode = 0 \/ c.inode = file.inode => StartOf(c, sight) = c.offset)
    BY <2>3, <1>a DEF StartOf, Restarts, AnyCursors
  <2> HIDE DEF out, res
  <2>7. /\ res \in Results /\ res.cursor.inode = file.inode /\ StartOf(c, sight) <= res.cursor.offset
        /\ res.cursor.next = (IF res.kept = {} THEN c.next ELSE c.next + 1)
        /\ ~res.more => Least(sight.size, Len(file.lines)) <= res.cursor.offset
    BY <2>3, <2>5 DEF AgentRead
  <2>8. Onwards(c, res.cursor)
    BY <2>2, <2>6, <2>7, <1>a DEF Onwards, AnyCursors
  <2>9. ASSUME ~abandoned[r], ~res.more PROVE Behind(asked[r], res.cursor, file)
    <3>1. \A j \in 1..Len(file.lines) : file.lines[j].serial \in asked[r] => j <= sight.size
      BY <2>9, <1>2, <1>b, <1>c DEF RoundReads, AgentLines
    <3>2. sight.size \in Nat /\ res.cursor.offset \in Nat
      BY <2>7, <1>a DEF Sights, Results, AnyCursors
    <3> QED
      BY <3>1, <3>2, <2>2, <2>7, <2>9 DEF Behind, Least
  <2>10. result'[r] = res /\ pc'[r] \in {"store", "commit"}
    BY <2>1, <1>a
  <2>11. RoundOn(r)'
    BY <2>3, <2>8, <2>9, <2>10, <1>c, <1>d DEF RoundOn, RoundGoesOn, RoundReads
  <2> QED
    BY <2>1, <2>11, <1>a, <1>b, OnRound
<1> QED
  BY <1>1, <1>2

LEMMA OnStore ==
  ASSUME SInv, OnInv, NEW r \in Readers, StoreSegment(r)
  PROVE  OnInv'
<1>a. /\ pc \in [Readers -> Stages] /\ pc[r] = "store" /\ pc' = [pc EXCEPT ![r] = "commit"]
      /\ UNCHANGED <<session, entry, abandoned, path, from, seen, result, asked>>
  BY DEF SInv, Shape, StoreSegment, Goto
<1>1. RoundOn(r)'
  BY <1>a DEF OnInv, RoundOn, RoundGoesOn, RoundReads, session
<1> QED
  BY <1>1, <1>a, OnRound

\* A cursor is written back further on, in the file of the one it replaces or
\* in a later one.
LEMMA CommitGoesOn ==
  ASSUME SInv, Steady, OnInv, NEW r \in Readers, Commit(r), entry' # entry
  PROVE  LET f == path[r] IN
         /\ entry' = [entry EXCEPT ![f] = result[r].cursor]
         /\ pc' = [pc EXCEPT ![r] = IF result[r].more THEN "more" ELSE "ended"]
         /\ Onwards(entry[f], result[r].cursor)
<1> DEFINE f == path[r]
           d == result[r].cursor
<1>a. /\ f \in Files /\ f \in {"main", "agent"} /\ disk[f] \in FileStates
      /\ entry[f] \in AnyCursors /\ from[r] \in AnyCursors /\ d \in AnyCursors
  BY DEF SInv, Shape, Results, Files
<1>b. /\ pc[r] = "commit" /\ entry[f].offset = from[r].offset /\ entry[f].next = from[r].next
      /\ entry' = [entry EXCEPT ![f] = d]
      /\ pc' = [pc EXCEPT ![r] = IF result[r].more THEN "more" ELSE "ended"]
  BY DEF Commit, Goto
<1>1. Onwards(from[r], d) /\ from[r].inode <= disk[f].inode
  BY <1>b DEF OnInv, RoundOn, RoundGoesOn
<1>2. Onwards(entry[f], d)
  <2>1. CASE Alone
    BY <2>1, <1>1, <1>b DEF Alone
  <2>2. CASE \A g \in Files : disk[g].inode = 1
    <3>1. disk[f].inode = 1
      BY <2>2, <1>a
    <3>2. d.inode <= disk[f].inode
      BY <1>b, PendingInode
    <3>3. d.inode \in Nat /\ d.inode # 0 /\ from[r].inode \in Nat /\ from[r].inode <= 1
      BY <1>1, <1>a, <3>1 DEF AnyCursors, Onwards
    <3>4. d.inode = 1 /\ (from[r].inode = 0 \/ from[r].inode = 1)
      BY <3>1, <3>2, <3>3
    <3> QED
      BY <1>1, <1>b, <3>4 DEF Onwards
  <2> QED
    BY <2>1, <2>2 DEF Steady
<1> QED
  BY <1>2, <1>b

LEMMA OnCommit ==
  ASSUME SInv, Steady, OnInv, NEW r \in Readers, Commit(r)
  PROVE  OnInv'
<1> DEFINE f == path[r]
           d == result[r].cursor
<1>a. /\ f \in Files /\ entry \in [Files -> AnyCursors] /\ pc \in [Readers -> Stages]
      /\ d \in AnyCursors /\ disk[f] \in FileStates
  BY DEF SInv, Shape, Results
<1>b. /\ pc[r] = "commit" /\ UNCHANGED <<session, abandoned, path, from, seen, result, asked>>
      /\ disk' = disk /\ clock' = clock
  BY DEF Commit, session
<1>c. \A q \in Readers : RoundOn(q) /\ \A s \in asked[q] : s <= clock
  BY DEF OnInv, RoundOn, RoundReads
<1>1. CASE entry' = entry
  <2>1. \E p \in {"failed", "more", "ended"} : pc' = [pc EXCEPT ![r] = p]
    BY DEF Commit, Goto
  <2>2. CASE pc' = [pc EXCEPT ![r] = "failed"]
    <3>1. RoundOn(r)'
      BY <2>2, <1>a, <1>b, <1>c, NoRoundOn
    <3> QED
      BY <3>1, <2>2, <1>1, <1>a, <1>b, OnRound
  <2>3. CASE ~(pc' = [pc EXCEPT ![r] = "failed"])
    <3>1. entry[f] = d /\ pc' = [pc EXCEPT ![r] = IF result[r].more THEN "more" ELSE "ended"]
      BY <2>3, <1>1, <1>a DEF Commit, Goto
    <3>2. CASE result[r].more
      <4>1. RoundOn(r)'
        BY <3>1, <3>2, <1>a, <1>b, <1>c, NoRoundOn
      <4> QED
        BY <4>1, <3>1, <1>1, <1>a, <1>b, OnRound
    <3>3. CASE ~result[r].more
      <4>1. RoundGoesOn(r) /\ RoundReads(r)
        BY <1>c DEF RoundOn
      <4>2. Onwards(from[r], d) /\ d.inode # 0
        BY <4>1, <1>b DEF RoundGoesOn, Onwards
      <4>3. pc'[r] = "ended" /\ (~abandoned[r] => Behind(asked[r], d, disk[f]))
        BY <3>1, <3>3, <4>1, <1>a, <1>b DEF RoundReads
      <4>4. RoundOn(r)'
        BY <3>1, <4>2, <4>3, <1>1, <1>b, <1>c DEF RoundOn, RoundGoesOn, RoundReads
      <4> QED
        BY <4>4, <3>1, <1>1, <1>a, <1>b, OnRound
    <3> QED
      BY <3>2, <3>3
  <2> QED
    BY <2>2, <2>3
<1>2. CASE entry' # entry
  <2>1. /\ entry' = [entry EXCEPT ![f] = d]
        /\ pc' = [pc EXCEPT ![r] = IF result[r].more THEN "more" ELSE "ended"]
        /\ Onwards(entry[f], d)
    BY <1>2, CommitGoesOn
  <2>2. entry'[f] = d /\ \A h \in Files \ {f} : entry'[h] = entry[h]
    BY <2>1, <1>a
  <2>3. RoundOn(r)'
    <3>1. RoundReads(r)
      BY <1>c DEF RoundOn
    <3>2. CASE result[r].more
      BY <2>1, <3>2, <1>a, <1>b, <1>c, NoRoundOn
    <3>3. CASE ~result[r].more
      <4>1. pc'[r] = "ended" /\ d.inode # 0 /\ (~abandoned[r] => Behind(asked[r], d, disk[f]))
        BY <2>1, <3>1, <3>3, <1>a, <1>b DEF RoundReads, Onwards
      <4> QED
        BY <4>1, <2>2, <1>b, <1>c DEF RoundOn, RoundGoesOn, RoundReads
    <3> QED
      BY <3>2, <3>3
  <2>4. ASSUME NEW q \in Readers, q # r PROVE RoundOn(q)'
    <3>1. /\ pc'[q] = pc[q] /\ path'[q] = path[q] /\ from'[q] = from[q] /\ seen'[q] = seen[q]
          /\ result'[q] = result[q] /\ asked'[q] = asked[q] /\ abandoned'[q] = abandoned[q]
          /\ UNCHANGED session /\ RoundOn(q) /\ path[q] \in Files
      BY <2>1, <2>4, <1>a, <1>b, <1>c DEF SInv, Shape
    <3>2. CASE ~(pc[q] = "ended" /\ path[q] = f)
      <4>1. pc[q] = "ended" => entry'[path[q]] = entry[path[q]]
        BY <2>2, <3>1, <3>2
      <4> QED
        BY <4>1, <3>1, <1>c, SameRoundOn
    <3>3. CASE pc[q] = "ended" /\ path[q] = f /\ abandoned[q]
      BY <3>1, <3>3, <1>b, <1>c DEF RoundOn, RoundGoesOn, RoundReads
    <3>4. CASE pc[q] = "ended" /\ path[q] = f /\ ~abandoned[q] /\ ~disk[f].exists
      <4>1. Behind(asked[q], d, disk[f])
        BY <3>4, <1>a, NothingLeft
      <4> QED
        BY <4>1, <2>2, <3>1, <3>4, <1>b, <1>c DEF RoundOn, RoundGoesOn, RoundReads
    <3>5. CASE pc[q] = "ended" /\ path[q] = f /\ ~abandoned[q] /\ disk[f].exists
      <4>1. ~Alone
        BY <3>5, <2>4, <1>b, OneRound DEF Under, Ends
      <4>2. MaxRewrites = 0 /\ disk[f].inode = 1
        BY <4>1, <1>a DEF Steady
      <4>3. Behind(asked[q], entry[f], disk[f]) /\ entry[f].inode # 0
        BY <3>1, <3>5 DEF RoundOn, RoundReads
      <4>4. entry[f].inode <= disk[f].inode /\ entry[f] \in AnyCursors /\ d.inode <= disk[f].inode
        BY <1>a, <1>b, PendingInode DEF SInv, OutsideInv, SkipInv, Sound, Tracks, Files
      <4>5. d.inode # 0 /\ (entry[f].inode = d.inode => entry[f].offset <= d.offset)
        BY <2>1 DEF Onwards
      <4>6. entry[f].inode = 1 /\ d.inode = 1 /\ entry[f].offset <= d.offset
        <5>1. entry[f].inode \in Nat /\ d.inode \in Nat
          BY <4>4, <1>a DEF AnyCursors
        <5>2. entry[f].inode = 1 /\ d.inode = 1
          BY <5>1, <4>2, <4>3, <4>4, <4>5
        <5> QED
          BY <5>2, <4>5
      <4>7. Behind(asked[q], d, disk[f])
        <5>1. entry[f].inode = disk[f].inode /\ entry[f].offset \in Nat /\ d.offset \in Nat
          BY <4>2, <4>4, <4>6, <1>a DEF AnyCursors
        <5>2. \A j \in 1..Len(disk[f].lines) : disk[f].lines[j].serial \in asked[q] => j <= entry[f].offset
          BY <4>3, <5>1 DEF Behind
        <5>3. \A j \in 1..Len(disk[f].lines) : disk[f].lines[j].serial \in asked[q] => j <= d.offset
          BY <4>6, <5>1, <5>2
        <5> QED
          BY <5>3 DEF Behind
      <4> QED
        BY <4>5, <4>7, <2>2, <3>1, <3>5, <1>b, <1>c DEF RoundOn, RoundGoesOn, RoundReads
    <3> QED
      BY <3>2, <3>3, <3>4, <3>5
  <2>5. asked' \in [Readers -> SUBSET Serials]
    BY <1>b DEF OnInv
  <2> QED
    BY <2>3, <2>4, <2>5 DEF OnInv
<1> QED
  BY <1>1, <1>2

\* The inductive invariant of both.
Going == SInv /\ Steady /\ OnInv

LEMMA InitGoing ==
  ASSUME ~Suspends \/ MaxRewrites = 0, Init
  PROVE  Going
<1>1. SInv /\ Alone
  BY InitHeldBack DEF HeldBack
<1>2. /\ asked = [r \in Readers |-> {}] /\ pc = [r \in Readers |-> "idle"]
      /\ \A f \in Files : disk[f].inode = 1
  BY DEF Init
<1>3. Steady
  BY <1>1, <1>2 DEF Steady
<1>4. OnInv
  BY <1>2 DEF OnInv, RoundOn, RoundGoesOn, RoundReads
<1> QED
  BY <1>1, <1>3, <1>4 DEF Going

\* Files are replaced by writes only.
LEMMA SteadyKept ==
  ASSUME SInv, Steady, Next
  PROVE  Steady'
<1>1. CASE ~Suspends /\ Alone
  BY <1>1, AloneKept DEF Steady
<1>2. CASE MaxRewrites = 0 /\ \A f \in Files : disk[f].inode = 1
  <2>1. CASE Write
    <3>1. \A f \in Files : disk'[f].inode = 1
      BY <2>1, <1>2, WriteStems
    <3> QED
      BY <3>1, <1>2 DEF Steady
  <2>2. ASSUME NEW r \in Readers, Step(r) \/ Crash(ProcessOf[r]) PROVE disk' = disk
    BY <2>2 DEF Step, Come, GiveUp, Observe, Scan, StoreSegment, Refused, Commit, DropEntry, Unlock, Fail, Crash, session
  <2> QED
    BY <2>1, <2>2, <1>2 DEF Next, Steady
<1> QED
  BY <1>1, <1>2 DEF Steady

LEMMA NextGoing ==
  ASSUME Going, [Next]_vars
  PROVE  Going'
<1>a. SInv /\ Steady /\ OnInv
  BY DEF Going
<1>1. SInv'
  BY <1>a, NextSInv
<1>2. CASE Next
  <2>1. Steady'
    BY <1>a, <1>2, SteadyKept
  <2>2. OnInv'
    <3>1. CASE Write
      <4>1. \A r \in Readers : RoundOn(r)'
        BY <1>a, <3>1, OnWrite
      <4>2. asked' = asked
        BY <1>a, <3>1, WriteIs DEF reading, SInv
      <4> QED
        BY <4>1, <4>2, <1>a DEF OnInv
    <3>2. ASSUME NEW r \in Readers, Step(r) \/ Crash(ProcessOf[r]) PROVE OnInv'
      BY <1>a, <3>2, OnStop, OnObserve, OnScan, OnStore, OnCommit DEF Step
    <3> QED
      BY <3>1, <3>2, <1>2 DEF Next
  <2> QED
    BY <1>1, <2>1, <2>2 DEF Going
<1>3. CASE UNCHANGED vars
  <2>1. Steady'
    BY <1>a, <1>3 DEF vars, session, reading, round, Alone, Steady
  <2>2. ASSUME NEW r \in Readers PROVE RoundOn(r)'
    <3>1. /\ pc' = pc /\ path' = path /\ from' = from /\ seen' = seen /\ result' = result /\ entry' = entry
          /\ asked' = asked /\ abandoned' = abandoned /\ UNCHANGED session
      BY <1>3 DEF vars, reading, round
    <3>2. RoundOn(r) /\ \A s \in asked[r] : s <= clock
      BY <1>a DEF OnInv, RoundOn, RoundReads
    <3> QED
      BY <3>1, <3>2, SameRoundOn
  <2>3. OnInv'
    BY <2>2, <1>a, <1>3 DEF OnInv, vars, reading
  <2> QED
    BY <1>1, <2>1, <2>3 DEF Going
<1> QED
  BY <1>2, <1>3

\* What CursorsAdvance says of one step.
LEMMA EntryGoesOn ==
  ASSUME Going, [Next]_vars, NEW f \in Files
  PROVE  /\ entry'[f].next >= entry[f].next
         /\ entry'[f].inode = entry[f].inode => entry'[f].offset >= entry[f].offset
<1>a. SInv /\ Steady /\ OnInv /\ entry \in [Files -> AnyCursors]
  BY DEF Going, SInv, Shape
<1>1. CASE entry'[f].next = entry[f].next /\ entry'[f].offset = entry[f].offset
  <2>1. entry[f].next \in Nat /\ entry[f].offset \in Nat
    BY <1>a DEF AnyCursors
  <2> QED
    BY <2>1, <1>1
<1>2. CASE entry' = entry
  BY <1>1, <1>2
<1>3. CASE Write \/ UNCHANGED vars
  BY <1>a, <1>2, <1>3, WriteIs DEF reading, vars, SInv
<1>4. ASSUME NEW r \in Readers, Crash(ProcessOf[r]) \/ (Step(r) /\ ~Commit(r) /\ ~DropEntry(r))
      PROVE  entry' = entry
  BY <1>4 DEF Step, Come, GiveUp, Observe, Scan, StoreSegment, Refused, Unlock, Fail, Crash
<1>5. ASSUME NEW r \in Readers, DropEntry(r)
      PROVE  entry'[f].next = entry[f].next /\ entry'[f].offset = entry[f].offset
  <2>1. entry' = [entry EXCEPT ![path[r]].reg = FALSE] /\ entry[f] \in AnyCursors
    BY <1>5, <1>a DEF DropEntry
  <2> QED
    BY <2>1, <1>a DEF AnyCursors
<1>6. ASSUME NEW r \in Readers, Commit(r), entry' # entry
      PROVE  /\ entry'[f].next >= entry[f].next
             /\ entry'[f].inode = entry[f].inode => entry'[f].offset >= entry[f].offset
  <2> DEFINE d == result[r].cursor
  <2>1. /\ entry' = [entry EXCEPT ![path[r]] = d] /\ Onwards(entry[path[r]], d)
        /\ d \in AnyCursors /\ entry[f] \in AnyCursors
    BY <1>6, <1>a, CommitGoesOn DEF SInv, Shape, Results
  <2>2. CASE f = path[r]
    BY <2>1, <2>2, <1>a DEF Onwards, AnyCursors
  <2>3. CASE f # path[r]
    BY <2>1, <2>3, <1>a, <1>1
  <2> QED
    BY <2>2, <2>3
<1> QED
  BY <1>1, <1>2, <1>3, <1>4, <1>5, <1>6 DEF Next

\* CursorsAdvance, of any readers, processes and files, where no holder
\* outlives the bound a lock is stale after, or no file is replaced: the
\* number of the next segment and, in one file, the offset never go back.
\* With both, one can: a commit compares the offset and the number, and not
\* which file they are of.
THEOREM CursorsGoOn == ASSUME ~Suspends \/ MaxRewrites = 0 PROVE Spec => CursorsAdvance
<1>1. Init => Going
  BY InitGoing
<1>2. Going /\ [Next]_vars => Going'
  BY NextGoing
<1>3. Going /\ [Next]_vars =>
        [\A f \in Files :
           /\ entry'[f].next >= entry[f].next
           /\ entry'[f].inode = entry[f].inode => entry'[f].offset >= entry[f].offset]_vars
  BY EntryGoesOn
<1> QED
  BY <1>1, <1>2, <1>3, PTL DEF Spec, CursorsAdvance

\* AskedIsRead, of any readers, processes and files, where no holder outlives
\* the bound a lock is stale after, or no file is replaced: a run that ends
\* well has read what the readers that gave up on it came for.
THEOREM AskedWasRead == ASSUME ~Suspends \/ MaxRewrites = 0 PROVE Spec => AskedIsRead
<1>1. Init => Going
  BY InitGoing
<1>2. Going /\ [Next]_vars => Going'
  BY NextGoing
<1>3. Going =>
        \A r \in Readers :
          (Unlock(r) /\ pc[r] = "ended" /\ pc'[r] = "idle" /\ entry[path[r]].reg) =>
            \A i \in 1..Len(disk[path[r]].lines) :
              (disk[path[r]].lines[i].serial \in asked[r]
                 /\ disk[path[r]].inode = entry[path[r]].inode) =>
                i <= entry[path[r]].offset
  <2> SUFFICES ASSUME Going, NEW r \in Readers, Unlock(r), pc[r] = "ended", pc'[r] = "idle"
               PROVE  Behind(asked[r], entry[path[r]], disk[path[r]])
    BY DEF Behind
  <2>1. pc \in [Readers -> Stages]
    BY DEF Going, SInv, Shape
  <2>2. ~OneMore(r)
    BY <2>1 DEF Unlock, Goto
  <2>3. ~abandoned[r]
    BY <2>2 DEF OneMore
  <2> QED
    BY <2>3 DEF Going, OnInv, RoundOn, RoundReads
<1> QED
  BY <1>1, <1>2, <1>3, PTL DEF Spec, AskedIsRead
=============================================================================
