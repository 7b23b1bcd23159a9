----------------------------- MODULE SpoolProofs -----------------------------
(***************************************************************************)
(* What holds of the spool for any records, handles, sizes and quota.      *)
(***************************************************************************)
EXTENDS Spool, FiniteSetTheorems, WellFoundedInduction, TLAPS

-----------------------------------------------------------------------------
(* Sums over finite sets, which the spool's figures are.  SumFunctionOnSet is a *)
(* fold that takes an element out by CHOOSE; that the choice does not matter    *)
(* is shown by looking at a smallest set for which it would.                    *)

\* The element a sum takes out next.
First(s) == CHOOSE x \in s : TRUE

\* g gives the sum of every subset of T.
SumsOver(W, T, g) ==
  g = [s \in SUBSET T |-> IF s = {} THEN 0 ELSE W[First(s)] + g[s \ {First(s)}]]

\* The sum is the value at S of the function that picks S apart.
LEMMA SumIs ==
  ASSUME NEW W, NEW S
  PROVE  SumFunctionOnSet(W, S) = (CHOOSE g : SumsOver(W, S, g))[S]
BY DEF SumFunctionOnSet, FoldFunctionOnSet, MapThenFoldSet, SumsOver, First

\* Induction over a finite set: among sets of its subsets one is smallest.
\* What fails for some subset fails for a smallest one.
LEMMA Smallest ==
  ASSUME NEW S, IsFiniteSet(S), NEW B \in SUBSET (SUBSET S), B # {}
  PROVE  \E T \in B : \A U \in SUBSET T : U # T => U \notin B
<1>1. IsWellFoundedOn(StrictSubsetOrdering(S), SUBSET S)
  BY FS_StrictSubsetOrderingWellFounded, FS_FiniteSubsetsOfFinite
<1>2. PICK T \in B : \A y \in B : ~ (<<y, T>> \in StrictSubsetOrdering(S))
  BY <1>1, WFMin
<1>3. ASSUME NEW U \in SUBSET T, U # T PROVE U \notin B
  BY <1>2, <1>3 DEF StrictSubsetOrdering
<1> QED BY <1>3

\* What is picked is there, and the rest is smaller.
LEMMA FirstIn ==
  ASSUME NEW S, S # {}
  PROVE  First(S) \in S /\ S \ {First(S)} \in SUBSET S /\ S \ {First(S)} # S
BY DEF First

\* Two functions that pick sets apart agree on what both are about.
LEMMA SumsAgree ==
  ASSUME NEW W, NEW A, NEW C, NEW g, NEW h, SumsOver(W, A, g), SumsOver(W, C, h),
         NEW S, IsFiniteSet(S), S \subseteq A, S \subseteq C
  PROVE  g[S] = h[S]
<1> DEFINE B == {T \in SUBSET S : g[T] # h[T]}
<1>1. ASSUME B # {} PROVE FALSE
  <2>0. B \in SUBSET (SUBSET S)
    OBVIOUS
  <2>1. PICK T \in B : \A U \in SUBSET T : U # T => U \notin B
    <3> HIDE DEF B
    <3> QED BY <1>1, <2>0, Smallest
  <2>2. T \in SUBSET A /\ T \in SUBSET C
    BY <2>1
  <2>3. g[T] = IF T = {} THEN 0 ELSE W[First(T)] + g[T \ {First(T)}]
    BY <2>2 DEF SumsOver
  <2>4. h[T] = IF T = {} THEN 0 ELSE W[First(T)] + h[T \ {First(T)}]
    BY <2>2 DEF SumsOver
  <2>5. T # {}
    BY <2>3, <2>4
  <2>6. T \ {First(T)} \in SUBSET T /\ T \ {First(T)} # T
    BY <2>5, FirstIn
  <2>7. T \ {First(T)} \in SUBSET S
    BY <2>6
  <2>8. g[T \ {First(T)}] = h[T \ {First(T)}]
    BY <2>1, <2>6, <2>7
  <2> QED BY <2>1, <2>3, <2>4, <2>5, <2>8
<1> QED BY <1>1

\* There is one for every finite set.
LEMMA SumsExist ==
  ASSUME NEW W, NEW S, IsFiniteSet(S)
  PROVE  \E g : SumsOver(W, S, g)
<1> DEFINE B == {T \in SUBSET S : ~ \E g : SumsOver(W, T, g)}
<1>1. ASSUME B # {} PROVE FALSE
  <2>0. B \in SUBSET (SUBSET S)
    OBVIOUS
  <2>1. PICK T \in B : \A U \in SUBSET T : U # T => U \notin B
    <3> HIDE DEF B
    <3> QED BY <1>1, <2>0, Smallest
  <2> DEFINE g == [s \in SUBSET T |-> IF s = {} THEN 0 ELSE W[First(s)] + SumFunctionOnSet(W, s \ {First(s)})]
  <2>2. ASSUME NEW U \in SUBSET T, U # T
        PROVE  SumsOver(W, U, CHOOSE h : SumsOver(W, U, h))
    BY <2>1, <2>2
  <2>3. ASSUME NEW s \in SUBSET T, s # {}
        PROVE  g[s \ {First(s)}] = SumFunctionOnSet(W, s \ {First(s)})
    <3> DEFINE u == s \ {First(s)}
               v == u \ {First(u)}
               hu == CHOOSE h : SumsOver(W, u, h)
               hv == CHOOSE h : SumsOver(W, v, h)
    <3>1. u \in SUBSET T /\ u # T
      BY <2>3, FirstIn
    <3>2. SumsOver(W, u, hu)
      BY <2>2, <3>1
    <3>3. hu[u] = IF u = {} THEN 0 ELSE W[First(u)] + hu[v]
      <4> HIDE DEF hu, u
      <4> QED BY <3>2 DEF SumsOver
    <3>4. CASE u = {}
      BY <3>1, <3>3, <3>4, SumIs
    <3>5. CASE u # {}
      <4>1. v \in SUBSET u /\ v # u /\ v \in SUBSET T /\ v # T
        <5> HIDE DEF u
        <5> QED BY <3>1, <3>5, FirstIn
      <4>2. SumsOver(W, v, hv)
        BY <2>2, <4>1
      <4>3. IsFiniteSet(v)
        BY <4>1, <2>1, FS_Subset
      <4>4. hu[v] = hv[v]
        <5> HIDE DEF hu, hv, u, v
        <5> QED BY <3>2, <4>1, <4>2, <4>3, SumsAgree
      <4>5. g[u] = W[First(u)] + SumFunctionOnSet(W, v)
        <5> HIDE DEF u
        <5> QED BY <3>1, <3>5
      <4>6. SumFunctionOnSet(W, v) = hv[v] /\ SumFunctionOnSet(W, u) = hu[u]
        BY SumIs
      <4>7. g[u] = SumFunctionOnSet(W, u)
        <5> HIDE DEF hu, hv, u, v, g
        <5> QED BY <3>3, <3>5, <4>4, <4>5, <4>6
      <4> HIDE DEF g, hu, hv, v
      <4> QED BY <4>7
    <3> QED BY <3>4, <3>5
  <2>4. SumsOver(W, T, g)
    <3>1. ASSUME NEW s \in SUBSET T
          PROVE  g[s] = IF s = {} THEN 0 ELSE W[First(s)] + g[s \ {First(s)}]
      <4>1. CASE s = {}
        BY <4>1
      <4>2. CASE s # {}
        <5>1. g[s] = W[First(s)] + SumFunctionOnSet(W, s \ {First(s)})
          BY <4>2
        <5> QED BY <4>2, <5>1, <2>3
      <4> QED BY <4>1, <4>2
    <3>2. g = [s \in SUBSET T |-> g[s]]
      OBVIOUS
    <3> HIDE DEF g
    <3>3. [s \in SUBSET T |-> g[s]] = [s \in SUBSET T |-> IF s = {} THEN 0 ELSE W[First(s)] + g[s \ {First(s)}]]
      BY <3>1
    <3> QED BY <3>2, <3>3 DEF SumsOver
  <2> QED BY <2>1, <2>4
<1> QED BY <1>1

\* The sum by the recursion it was written as.
LEMMA SumStep ==
  ASSUME NEW W, NEW S, IsFiniteSet(S)
  PROVE  /\ S = {} => SumFunctionOnSet(W, S) = 0
         /\ S # {} => SumFunctionOnSet(W, S) = W[First(S)] + SumFunctionOnSet(W, S \ {First(S)})
<1> DEFINE g == CHOOSE h : SumsOver(W, S, h)
           R == S \ {First(S)}
           k == CHOOSE h : SumsOver(W, R, h)
<1>1. SumsOver(W, S, g)
  BY SumsExist
<1>2. g[S] = IF S = {} THEN 0 ELSE W[First(S)] + g[R]
  <2> HIDE DEF g
  <2> QED BY <1>1 DEF SumsOver
<1>3. IsFiniteSet(R) /\ R \subseteq S
  BY FS_Subset
<1>4. SumsOver(W, R, k)
  BY <1>3, SumsExist
<1>5. g[R] = k[R]
  <2> HIDE DEF g, k, R
  <2> QED BY <1>1, <1>3, <1>4, SumsAgree
<1>6. SumFunctionOnSet(W, S) = g[S] /\ SumFunctionOnSet(W, R) = k[R]
  BY SumIs
<1> HIDE DEF g, k
<1> QED BY <1>2, <1>5, <1>6

\* Only the values on the set count.
LEMMA SumSame ==
  ASSUME NEW W, NEW V, NEW S, IsFiniteSet(S), \A x \in S : W[x] = V[x]
  PROVE  SumFunctionOnSet(W, S) = SumFunctionOnSet(V, S)
<1> DEFINE B == {T \in SUBSET S : SumFunctionOnSet(W, T) # SumFunctionOnSet(V, T)}
<1>1. ASSUME B # {} PROVE FALSE
  <2>0. B \in SUBSET (SUBSET S)
    OBVIOUS
  <2>1. PICK T \in B : \A U \in SUBSET T : U # T => U \notin B
    <3> HIDE DEF B
    <3> QED BY <1>1, <2>0, Smallest
  <2>2. IsFiniteSet(T)
    BY <2>1, FS_Subset
  <2>3. T # {}
    <3>1. T = {} => SumFunctionOnSet(W, T) = 0
      BY <2>2, SumStep
    <3>2. T = {} => SumFunctionOnSet(V, T) = 0
      BY <2>2, SumStep
    <3> QED BY <2>1, <3>1, <3>2
  <2>4. First(T) \in T /\ T \ {First(T)} \in SUBSET T /\ T \ {First(T)} # T
    BY <2>3, FirstIn
  <2>5. SumFunctionOnSet(W, T \ {First(T)}) = SumFunctionOnSet(V, T \ {First(T)})
    BY <2>1, <2>4
  <2>6. SumFunctionOnSet(W, T) = SumFunctionOnSet(V, T)
    BY <2>1, <2>2, <2>3, <2>4, <2>5, SumStep
  <2> QED BY <2>1, <2>6
<1> QED BY <1>1

\* A sum of integers is one, and of naturals is not negative.
LEMMA SumType ==
  ASSUME NEW W, NEW S, IsFiniteSet(S), \A x \in S : W[x] \in Int
  PROVE  /\ SumFunctionOnSet(W, S) \in Int
         /\ (\A x \in S : W[x] >= 0) => SumFunctionOnSet(W, S) >= 0
<1> DEFINE B == {T \in SUBSET S : ~ (/\ SumFunctionOnSet(W, T) \in Int
                                     /\ (\A x \in S : W[x] >= 0) => SumFunctionOnSet(W, T) >= 0)}
<1>1. ASSUME B # {} PROVE FALSE
  <2>0. B \in SUBSET (SUBSET S)
    OBVIOUS
  <2>1. PICK T \in B : \A U \in SUBSET T : U # T => U \notin B
    <3> HIDE DEF B
    <3> QED BY <1>1, <2>0, Smallest
  <2>2. IsFiniteSet(T)
    BY <2>1, FS_Subset
  <2>3. T # {}
    <3>1. T = {} => SumFunctionOnSet(W, T) = 0
      BY <2>2, SumStep
    <3> QED BY <2>1, <3>1
  <2>4. First(T) \in T /\ T \ {First(T)} \in SUBSET T /\ T \ {First(T)} # T
    BY <2>3, FirstIn
  <2>5. T \ {First(T)} \notin B
    BY <2>1, <2>4
  <2>6. SumFunctionOnSet(W, T) = W[First(T)] + SumFunctionOnSet(W, T \ {First(T)})
    BY <2>2, <2>3, SumStep
  <2>7. W[First(T)] \in Int
    BY <2>1, <2>4
  <2> QED BY <2>1, <2>4, <2>5, <2>6, <2>7
<1> QED BY <1>1

\* Any element may be taken out first.
LEMMA SumTake ==
  ASSUME NEW W, NEW S, IsFiniteSet(S), \A y \in S : W[y] \in Int, NEW x \in S
  PROVE  SumFunctionOnSet(W, S) = W[x] + SumFunctionOnSet(W, S \ {x})
<1> DEFINE Good(T) == \A y \in T : SumFunctionOnSet(W, T) = W[y] + SumFunctionOnSet(W, T \ {y})
           B == {T \in SUBSET S : ~ Good(T)}
<1>1. ASSUME B # {} PROVE FALSE
  <2>0. B \in SUBSET (SUBSET S)
    OBVIOUS
  <2>1. PICK T \in B : \A U \in SUBSET T : U # T => U \notin B
    <3> HIDE DEF B
    <3> QED BY <1>1, <2>0, Smallest
  <2>2. PICK y \in T : SumFunctionOnSet(W, T) # W[y] + SumFunctionOnSet(W, T \ {y})
    BY <2>1
  <2> DEFINE p == First(T)
  <2>3. p \in T
    BY <2>2, FirstIn
  <2>4. SumFunctionOnSet(W, T) = W[p] + SumFunctionOnSet(W, T \ {p})
    BY <2>1, <2>2, FS_Subset, SumStep
  <2> HIDE DEF p
  <2>5. p # y
    BY <2>2, <2>4
  <2>6. ASSUME NEW a \in T, NEW b \in T, a # b
        PROVE  SumFunctionOnSet(W, T \ {a}) = W[b] + SumFunctionOnSet(W, (T \ {a}) \ {b})
    <3>1. T \ {a} \in SUBSET T /\ T \ {a} # T /\ b \in T \ {a} /\ T \ {a} \in SUBSET S
      BY <2>1, <2>6
    <3>2. T \ {a} \notin B
      BY <2>1, <3>1
    <3>3. Good(T \ {a})
      BY <3>1, <3>2
    <3> QED BY <3>1, <3>3
  <2>7. SumFunctionOnSet(W, T \ {p}) = W[y] + SumFunctionOnSet(W, (T \ {p}) \ {y})
    BY <2>3, <2>5, <2>6
  <2>8. SumFunctionOnSet(W, T \ {y}) = W[p] + SumFunctionOnSet(W, (T \ {p}) \ {y})
    <3>1. SumFunctionOnSet(W, T \ {y}) = W[p] + SumFunctionOnSet(W, (T \ {y}) \ {p})
      BY <2>3, <2>5, <2>6
    <3>2. (T \ {y}) \ {p} = (T \ {p}) \ {y}
      OBVIOUS
    <3> QED BY <3>1, <3>2
  <2>10. W[p] \in Int /\ W[y] \in Int
    BY <2>1, <2>3
  <2>11. SumFunctionOnSet(W, (T \ {p}) \ {y}) \in Int
    <3>1. (T \ {p}) \ {y} \in SUBSET S
      BY <2>1
    <3>2. IsFiniteSet((T \ {p}) \ {y})
      BY <3>1, FS_Subset
    <3> QED BY <3>1, <3>2, SumType
  <2>9. W[p] + (W[y] + SumFunctionOnSet(W, (T \ {p}) \ {y})) = W[y] + (W[p] + SumFunctionOnSet(W, (T \ {p}) \ {y}))
    BY <2>10, <2>11
  <2> QED BY ONLY <2>2, <2>4, <2>7, <2>8, <2>9
<1>2. S \notin B
  BY <1>1
<1>3. Good(S)
  BY <1>2
<1> QED BY <1>3

\* A set's sum is that of a part and of the rest.
LEMMA SumSplit ==
  ASSUME NEW W, NEW S, IsFiniteSet(S), \A y \in S : W[y] \in Int, NEW R \in SUBSET S
  PROVE  SumFunctionOnSet(W, S) = SumFunctionOnSet(W, R) + SumFunctionOnSet(W, S \ R)
<1> DEFINE B == {T \in SUBSET S : SumFunctionOnSet(W, S) # SumFunctionOnSet(W, T) + SumFunctionOnSet(W, S \ T)}
<1>1. ASSUME B # {} PROVE FALSE
  <2>0. B \in SUBSET (SUBSET S)
    OBVIOUS
  <2>1. PICK T \in B : \A U \in SUBSET T : U # T => U \notin B
    <3> HIDE DEF B
    <3> QED BY <1>1, <2>0, Smallest
  <2>2. \A U \in SUBSET S : IsFiniteSet(U) /\ SumFunctionOnSet(W, U) \in Int
    BY FS_Subset, SumType
  <2>3. T # {}
    <3>1. SumFunctionOnSet(W, {}) = 0
      BY FS_EmptySet, SumStep
    <3>2. S \ {} = S
      OBVIOUS
    <3>3. SumFunctionOnSet(W, S) = 0 + SumFunctionOnSet(W, S)
      BY <2>2
    <3>4. SumFunctionOnSet(W, S) # SumFunctionOnSet(W, T) + SumFunctionOnSet(W, S \ T)
      BY <2>1
    <3> HIDE DEF B
    <3> QED BY <3>1, <3>2, <3>3, <3>4
  <2>4. PICK x \in T : TRUE
    BY <2>3
  <2> DEFINE U == T \ {x}
  <2>5. U \in SUBSET T /\ U # T /\ U \in SUBSET S
    BY <2>1
  <2>6. SumFunctionOnSet(W, S) = SumFunctionOnSet(W, U) + SumFunctionOnSet(W, S \ U)
    BY <2>1, <2>5
  <2>7. SumFunctionOnSet(W, T) = W[x] + SumFunctionOnSet(W, U)
    BY <2>1, <2>2, SumTake
  <2>8. SumFunctionOnSet(W, S \ U) = W[x] + SumFunctionOnSet(W, S \ T)
    <3>1. (S \ U) \ {x} = S \ T
      BY <2>1
    <3>2. x \in S \ U /\ S \ U \in SUBSET S /\ \A y \in S \ U : W[y] \in Int
      BY <2>1
    <3>3. IsFiniteSet(S \ U)
      BY <2>2, <3>2
    <3>4. SumFunctionOnSet(W, S \ U) = W[x] + SumFunctionOnSet(W, (S \ U) \ {x})
      <4> HIDE DEF U
      <4> QED BY <3>2, <3>3, SumTake
    <3> QED BY <3>1, <3>4
  <2>9. W[x] \in Int /\ SumFunctionOnSet(W, U) \in Int /\ SumFunctionOnSet(W, S \ T) \in Int
    <3>1. S \ T \in SUBSET S
      OBVIOUS
    <3> QED BY <2>1, <2>2, <2>5, <3>1
  <2>10. SumFunctionOnSet(W, U) + (W[x] + SumFunctionOnSet(W, S \ T)) = (W[x] + SumFunctionOnSet(W, U)) + SumFunctionOnSet(W, S \ T)
    <3> HIDE DEF U
    <3> QED BY <2>9
  <2>11. SumFunctionOnSet(W, S) # SumFunctionOnSet(W, T) + SumFunctionOnSet(W, S \ T)
    BY <2>1
  <2> HIDE DEF U, B
  <2> QED BY ONLY <2>6, <2>7, <2>8, <2>10, <2>11
<1>2. R \notin B
  BY <1>1
<1> QED BY <1>2

\* A part of naturals sums to no more than the whole.
LEMMA SumGrows ==
  ASSUME NEW W, NEW S, IsFiniteSet(S), \A y \in S : W[y] \in Nat, NEW R \in SUBSET S
  PROVE  /\ SumFunctionOnSet(W, S) \in Nat /\ SumFunctionOnSet(W, R) \in Nat
         /\ SumFunctionOnSet(W, R) <= SumFunctionOnSet(W, S)
<1>1. SumFunctionOnSet(W, S) = SumFunctionOnSet(W, R) + SumFunctionOnSet(W, S \ R)
  BY SumSplit
<1>2. ASSUME NEW T \in SUBSET S PROVE SumFunctionOnSet(W, T) \in Nat
  <2>1. IsFiniteSet(T) /\ \A y \in T : W[y] \in Int /\ W[y] >= 0
    BY FS_Subset
  <2> QED BY <2>1, SumType
<1>3. SumFunctionOnSet(W, R) \in Nat /\ SumFunctionOnSet(W, S \ R) \in Nat /\ SumFunctionOnSet(W, S) \in Nat
  <2>1. S \ R \in SUBSET S /\ S \in SUBSET S
    OBVIOUS
  <2> QED BY <1>2, <2>1
<1> QED BY <1>1, <1>3

-----------------------------------------------------------------------------

(* The inductive invariant. *)

Pcs == {"closed", "walk", "idle", "judge", "recheck", "refuse", "land", "line",
        "done", "unhold", "list", "remove", "put", "deleted"}
Walks  == {<<>>, <<"records">>, <<"rawcalls", "records">>}
Orders == {<<>>, <<"rawcalls">>, <<"records">>, <<"held">>, <<"records", "held">>,
           <<"rawcalls", "records", "held">>}

Handle == [pc : Pcs, rec : Records \cup {NoRecord}, slot : Slots \cup {"none", "probe"},
           frees : BOOLEAN, match : SUBSET Records, slots : Orders, todo : SUBSET Records,
           gone : SUBSET Records, walk : Walks, sum : Nat, snap : BOOLEAN,
           then : {"none", "idle", "judge", "recheck", "list"}, usage : Int, fresh : BOOLEAN]

Files == Records \X Slots

Shape ==
  /\ files \in SUBSET Files /\ lines \in SUBSET Records /\ temps \in SUBSET Records
  /\ owed \in SUBSET Records
  /\ handle \in [Handles -> Handle]
  /\ begun \in [Handles -> SUBSET Files] /\ could \in [Handles -> Nat]

\* What an operation is at, the walk it may be making aside.
At(s) == IF s.pc = "walk" THEN s.then ELSE s.pc

Storing  == {"judge", "recheck", "refuse", "land", "line", "done", "unhold"}
Deleting == {"list", "remove", "put", "deleted"}
Counted  == {"rawcalls", "records"}

\* A file stands where its record belongs, and a rawcall is never held back.
PlaceInv ==
  \A f \in files : f[2] = HomeOf(f[1]) \/ (f[2] = "held" /\ f[1] \notin Rawcalls)

\* What a storing handle holds: a record for its slot, or nothing to probe with.
Probes(s) ==
  /\ s.slot = "probe" /\ s.rec = NoRecord /\ ~s.frees
  /\ At(s) \in {"judge", "recheck", "refuse", "land"}
Stores(s) ==
  /\ s.rec \in Records
  /\ s.slot = HomeOf(s.rec) \/ (s.slot = "held" /\ s.rec \notin Rawcalls /\ At(s) # "line")

StoreOK(h, s) ==
  /\ (s.pc = "walk") <=> (s.then # "none")
  /\ s.pc = "walk" \/ At(s) \in Storing => h \in Writers
  /\ At(s) \in Storing => Probes(s) \/ Stores(s)
  /\ At(s) \notin Storing => s.rec = NoRecord
  /\ s.frees => At(s) \in Storing /\ s.slot = "records"
  /\ At(s) = "unhold" => s.frees

StoreInv == \A h \in Handles : StoreOK(h, handle[h])

\* What a deletion has still to take: a file it addressed that is there is in a
\* slot to come, or in this slot and not visited yet.
DeleteOK(s, left) ==
  /\ At(s) \in Deleting => \A f \in left :
       /\ f[1] \in s.match
       /\ \/ \E i \in DOMAIN s.slots : s.slots[i] = f[2]
          \/ s.pc = "remove" /\ f[2] = s.slot /\ f[1] \in s.todo
  /\ s.pc = "deleted" => s.slots = <<>>
  /\ s.pc = "remove" => s.slot \in Slots

DeleteInv == \A h \in Handles : DeleteOK(handle[h], begun[h] \cap files)

\* One handle at a time rewrites an index, and puts back no line that went
\* since it read.
IndexInv ==
  /\ \A h \in Handles : handle[h].pc = "put" =>
       handle[h].slot \in Counted /\ handle[h].todo \subseteq {r \in lines : HomeOf(r) = handle[h].slot}
  /\ \A h, k \in Handles :
       handle[h].pc = "put" /\ handle[k].pc = "put" /\ handle[h].slot = handle[k].slot => h = k

\* The only handle that writes never takes the disk for emptier than it is.
\* all and first are what is there, in both slots and in the first.
QuotaOK(s, all, first) ==
  /\ all <= Quota
  /\ s.pc # "closed" /\ s.then # "idle" => all <= s.usage
  /\ s.pc = "walk" /\ s.walk = <<"records">> => first <= s.sum
  /\ s.pc = "walk" /\ s.walk = <<>> => all <= s.sum
  /\ s.pc = "land" /\ s.slot \in Counted => s.usage + Size[s.rec] + LineSize <= Quota
  /\ s.pc = "line" => s.usage + LineSize <= Quota

QuotaInv ==
  \A w \in Handles : Writers = {w} => QuotaOK(handle[w], Bytes, BytesIn("rawcalls"))

\* What a handle that may refuse has found was there or has landed since.
RefuseOK(s, all, second, most) ==
  /\ s.pc = "walk" /\ s.then = "recheck" =>
       /\ s.walk = <<"rawcalls", "records">> => s.sum + all <= most
       /\ s.walk = <<"records">> => s.sum + second <= most
       /\ s.walk = <<>> => s.sum <= most
  /\ s.pc = "recheck" => s.usage <= most
  /\ s.pc = "refuse" => most + Needed(s.rec) > Quota

RefuseInv == \A h \in Handles : RefuseOK(handle[h], Bytes, BytesIn("records"), could[h])

SpoolInv ==
  Shape /\ PlaceInv /\ StoreInv /\ DeleteInv /\ IndexInv /\ QuotaInv /\ RefuseInv

-----------------------------------------------------------------------------
(* What a slot weighs. *)

Weigh(F, T, L, slot) ==
  SumFunctionOnSet(Size, {r \in Records : <<r, slot>> \in F})
    + SumFunctionOnSet(Size, {r \in T : HomeOf(r) = slot})
    + LineSize * Cardinality({r \in L : HomeOf(r) = slot})

\* A walk adds up what a slot weighs, now and after a step.
LEMMA BytesWeigh ==
  ASSUME NEW slot
  PROVE  /\ BytesIn(slot) = Weigh(files, temps, lines, slot)
         /\ BytesIn(slot)' = Weigh(files', temps', lines', slot)
BY DEF BytesIn, In, Weigh

\* Sums of sizes over records are naturals and grow with the set.
LEMMA SizesGrow ==
  ASSUME NEW A \in SUBSET Records, NEW B \in SUBSET A
  PROVE  /\ SumFunctionOnSet(Size, A) \in Nat /\ SumFunctionOnSet(Size, B) \in Nat
         /\ SumFunctionOnSet(Size, B) <= SumFunctionOnSet(Size, A)
         /\ Cardinality(A) \in Nat /\ Cardinality(B) \in Nat /\ Cardinality(B) <= Cardinality(A)
<1>1. IsFiniteSet(A) /\ \A r \in A : Size[r] \in Nat
  BY SpoolConstants, FS_Subset
<1>2. IsFiniteSet(B) /\ Cardinality(B) <= Cardinality(A)
  BY <1>1, FS_Subset
<1> QED BY <1>1, <1>2, SumGrows, FS_CardinalityType

\* One record more weighs its size more, if it was not there.
LEMMA SizesAdd ==
  ASSUME NEW A \in SUBSET Records, NEW r \in Records
  PROVE  /\ SumFunctionOnSet(Size, A \cup {r}) <= SumFunctionOnSet(Size, A) + Size[r]
         /\ r \in A => SumFunctionOnSet(Size, A \ {r}) = SumFunctionOnSet(Size, A) - Size[r]
<1>1. ASSUME NEW B \in SUBSET Records, r \in B
      PROVE  SumFunctionOnSet(Size, B) = Size[r] + SumFunctionOnSet(Size, B \ {r})
  <2>1. IsFiniteSet(B) /\ \A x \in B : Size[x] \in Int
    BY SpoolConstants, FS_Subset
  <2> QED BY <1>1, <2>1, SumTake
<1>2. SumFunctionOnSet(Size, A) \in Nat /\ SumFunctionOnSet(Size, A \ {r}) \in Nat /\ Size[r] \in Nat
  BY SizesGrow, SpoolConstants
<1>3. CASE r \in A
  <2>1. A \cup {r} = A
    BY <1>3
  <2> QED BY <1>1, <1>2, <1>3, <2>1
<1>4. CASE r \notin A
  <2>1. (A \cup {r}) \ {r} = A
    BY <1>4
  <2>2. A \cup {r} \in SUBSET Records
    OBVIOUS
  <2>3. SumFunctionOnSet(Size, A \cup {r}) = Size[r] + SumFunctionOnSet(Size, A)
    BY <1>1, <2>1, <2>2
  <2> QED BY <1>2, <1>4, <2>3
<1> QED BY <1>3, <1>4

\* A product with a natural is monotone.
LEMMA TimesGrows ==
  ASSUME NEW n \in Nat, NEW a \in Nat, NEW b \in Nat, NEW c \in Nat, a + b <= c
  PROVE  n * a \in Nat /\ n * b \in Nat /\ n * c \in Nat /\ n * a + n * b <= n * c
<1>1. PICK d \in Nat : c = (a + b) + d
  <2>1. c - (a + b) \in Nat /\ c = (a + b) + (c - (a + b))
    OBVIOUS
  <2> QED BY <2>1
<1>2. n * c = n * a + n * b + n * d
  BY <1>1
<1>3. n * a \in Nat /\ n * b \in Nat /\ n * d \in Nat
  OBVIOUS
<1> QED BY <1>2, <1>3

\* A slot weighs no more for what leaves it.
LEMMA WeighLess ==
  ASSUME NEW F \in SUBSET Files, NEW T \in SUBSET Records, NEW L \in SUBSET Records,
         NEW F2 \in SUBSET F, NEW T2 \in SUBSET T, NEW L2 \in SUBSET L, NEW slot
  PROVE  /\ Weigh(F, T, L, slot) \in Nat /\ Weigh(F2, T2, L2, slot) \in Nat
         /\ Weigh(F2, T2, L2, slot) <= Weigh(F, T, L, slot)
<1> DEFINE f == {r \in Records : <<r, slot>> \in F}   f2 == {r \in Records : <<r, slot>> \in F2}
           t == {r \in T : HomeOf(r) = slot}          t2 == {r \in T2 : HomeOf(r) = slot}
           l == {r \in L : HomeOf(r) = slot}          l2 == {r \in L2 : HomeOf(r) = slot}
<1>1. /\ f \in SUBSET Records /\ f2 \in SUBSET f
      /\ t \in SUBSET Records /\ t2 \in SUBSET t
      /\ l \in SUBSET Records /\ l2 \in SUBSET l
  OBVIOUS
<1>2. /\ Weigh(F, T, L, slot) = SumFunctionOnSet(Size, f) + SumFunctionOnSet(Size, t) + LineSize * Cardinality(l)
      /\ Weigh(F2, T2, L2, slot) = SumFunctionOnSet(Size, f2) + SumFunctionOnSet(Size, t2) + LineSize * Cardinality(l2)
  BY DEF Weigh
<1> HIDE DEF f, f2, t, t2, l, l2
<1>3. /\ SumFunctionOnSet(Size, f) \in Nat /\ SumFunctionOnSet(Size, f2) \in Nat
      /\ SumFunctionOnSet(Size, f2) <= SumFunctionOnSet(Size, f)
      /\ SumFunctionOnSet(Size, t) \in Nat /\ SumFunctionOnSet(Size, t2) \in Nat
      /\ SumFunctionOnSet(Size, t2) <= SumFunctionOnSet(Size, t)
      /\ Cardinality(l) \in Nat /\ Cardinality(l2) \in Nat /\ Cardinality(l2) <= Cardinality(l)
  BY <1>1, SizesGrow
<1>4. LineSize * Cardinality(l) \in Nat /\ LineSize * Cardinality(l2) \in Nat
      /\ LineSize * Cardinality(l2) <= LineSize * Cardinality(l)
  <2>1. LineSize \in Nat /\ 0 \in Nat /\ Cardinality(l2) + 0 <= Cardinality(l)
    BY <1>3, SpoolConstants
  <2>2. LineSize * Cardinality(l2) + LineSize * 0 <= LineSize * Cardinality(l) /\ LineSize * 0 \in Nat
        /\ LineSize * Cardinality(l) \in Nat /\ LineSize * Cardinality(l2) \in Nat
    BY <1>3, <2>1, TimesGrows
  <2> QED BY <2>2
<1> QED BY <1>2, <1>3, <1>4

\* A file, a file a dead writer left, and a line each add at most their own
\* bytes, to one slot.
LEMMA WeighMore ==
  ASSUME NEW F \in SUBSET Files, NEW T \in SUBSET Records, NEW L \in SUBSET Records,
         NEW r \in Records, NEW at, NEW slot
  PROVE  /\ Weigh(F \cup {<<r, at>>}, T, L, slot) <= Weigh(F, T, L, slot) + (IF slot = at THEN Size[r] ELSE 0)
         /\ Weigh(F, T \cup {r}, L, slot) <= Weigh(F, T, L, slot) + (IF slot = HomeOf(r) THEN Size[r] ELSE 0)
         /\ Weigh(F, T, L \cup {r}, slot) <= Weigh(F, T, L, slot) + (IF slot = HomeOf(r) THEN LineSize ELSE 0)
<1> DEFINE f == {x \in Records : <<x, slot>> \in F}
           t == {x \in T : HomeOf(x) = slot}
           l == {x \in L : HomeOf(x) = slot}
<1>1. f \in SUBSET Records /\ t \in SUBSET Records /\ l \in SUBSET Records
  OBVIOUS
<1>2. /\ SumFunctionOnSet(Size, f) \in Nat /\ SumFunctionOnSet(Size, t) \in Nat /\ Cardinality(l) \in Nat
      /\ Size[r] \in Nat /\ LineSize \in Nat
  BY <1>1, SizesGrow, SpoolConstants
<1>3. LineSize * Cardinality(l) \in Nat
  BY <1>2, TimesGrows
<1>4. Weigh(F, T, L, slot) = SumFunctionOnSet(Size, f) + SumFunctionOnSet(Size, t) + LineSize * Cardinality(l)
  BY DEF Weigh
<1>5. Weigh(F \cup {<<r, at>>}, T, L, slot) <= Weigh(F, T, L, slot) + (IF slot = at THEN Size[r] ELSE 0)
  <2> DEFINE g == {x \in Records : <<x, slot>> \in F \cup {<<r, at>>}}
  <2>1. Weigh(F \cup {<<r, at>>}, T, L, slot) = SumFunctionOnSet(Size, g) + SumFunctionOnSet(Size, t) + LineSize * Cardinality(l)
    BY DEF Weigh
  <2>2. g = IF slot = at THEN f \cup {r} ELSE f
    OBVIOUS
  <2>3. SumFunctionOnSet(Size, f \cup {r}) <= SumFunctionOnSet(Size, f) + Size[r] /\ SumFunctionOnSet(Size, f \cup {r}) \in Nat
    BY <1>1, SizesAdd, SizesGrow
  <2> HIDE DEF f, g, t, l
  <2> QED BY <1>2, <1>3, <1>4, <2>1, <2>2, <2>3
<1>6. Weigh(F, T \cup {r}, L, slot) <= Weigh(F, T, L, slot) + (IF slot = HomeOf(r) THEN Size[r] ELSE 0)
  <2> DEFINE g == {x \in T \cup {r} : HomeOf(x) = slot}
  <2>1. Weigh(F, T \cup {r}, L, slot) = SumFunctionOnSet(Size, f) + SumFunctionOnSet(Size, g) + LineSize * Cardinality(l)
    BY DEF Weigh
  <2>2. g = IF slot = HomeOf(r) THEN t \cup {r} ELSE t
    OBVIOUS
  <2>3. SumFunctionOnSet(Size, t \cup {r}) <= SumFunctionOnSet(Size, t) + Size[r] /\ SumFunctionOnSet(Size, t \cup {r}) \in Nat
    BY <1>1, SizesAdd, SizesGrow
  <2> HIDE DEF f, g, t, l
  <2> QED BY <1>2, <1>3, <1>4, <2>1, <2>2, <2>3
<1>7. Weigh(F, T, L \cup {r}, slot) <= Weigh(F, T, L, slot) + (IF slot = HomeOf(r) THEN LineSize ELSE 0)
  <2> DEFINE g == {x \in L \cup {r} : HomeOf(x) = slot}
  <2>1. Weigh(F, T, L \cup {r}, slot) = SumFunctionOnSet(Size, f) + SumFunctionOnSet(Size, t) + LineSize * Cardinality(g)
    BY DEF Weigh
  <2>2. g = IF slot = HomeOf(r) THEN l \cup {r} ELSE l
    OBVIOUS
  <2>3. Cardinality(l \cup {r}) <= Cardinality(l) + 1 /\ Cardinality(l \cup {r}) \in Nat
    <3>1. IsFiniteSet(l)
      BY <1>1, SpoolConstants, FS_Subset
    <3> HIDE DEF l
    <3>2. Cardinality(l) \in Nat
      BY <1>2
    <3>3. Cardinality(l \cup {r}) = IF r \in l THEN Cardinality(l) ELSE Cardinality(l) + 1
      BY <3>1, FS_AddElement
    <3> QED BY <3>2, <3>3
  <2> HIDE DEF f, g, t, l
  <2>4. LineSize * Cardinality(l \cup {r}) <= LineSize * Cardinality(l) + LineSize /\ LineSize * Cardinality(l \cup {r}) \in Nat
    <3>1. Cardinality(l) + 1 \in Nat /\ 0 \in Nat
      BY <1>2
    <3>2. LineSize * Cardinality(l \cup {r}) + LineSize * 0 <= LineSize * (Cardinality(l) + 1)
          /\ LineSize * Cardinality(l \cup {r}) \in Nat /\ LineSize * 0 \in Nat
      BY <1>2, <2>3, <3>1, TimesGrows
    <3>3. LineSize * (Cardinality(l) + 1) = LineSize * Cardinality(l) + LineSize
      BY <1>2
    <3> QED BY <1>2, <1>3, <3>2, <3>3
  <2> QED BY <1>2, <1>3, <1>4, <2>1, <2>2, <2>4
<1> QED BY <1>5, <1>6, <1>7

\* A file that goes takes its own bytes from its slot.
LEMMA WeighOff ==
  ASSUME NEW F \in SUBSET Files, NEW T \in SUBSET Records, NEW L \in SUBSET Records,
         NEW r \in Records, NEW at, NEW slot, <<r, at>> \in F
  PROVE  Weigh(F \ {<<r, at>>}, T, L, slot) = Weigh(F, T, L, slot) - (IF slot = at THEN Size[r] ELSE 0)
<1> DEFINE f == {x \in Records : <<x, slot>> \in F}
           t == {x \in T : HomeOf(x) = slot}
           l == {x \in L : HomeOf(x) = slot}
<1>1. f \in SUBSET Records /\ t \in SUBSET Records /\ l \in SUBSET Records
  OBVIOUS
<1>2. /\ SumFunctionOnSet(Size, f) \in Nat /\ SumFunctionOnSet(Size, t) \in Nat /\ Cardinality(l) \in Nat
      /\ Size[r] \in Nat /\ LineSize \in Nat
  BY <1>1, SizesGrow, SpoolConstants
<1>3. LineSize * Cardinality(l) \in Nat
  BY <1>2, TimesGrows
<1>4. Weigh(F, T, L, slot) = SumFunctionOnSet(Size, f) + SumFunctionOnSet(Size, t) + LineSize * Cardinality(l)
  BY DEF Weigh
<1> DEFINE g == {x \in Records : <<x, slot>> \in F \ {<<r, at>>}}
<1>5. Weigh(F \ {<<r, at>>}, T, L, slot) = SumFunctionOnSet(Size, g) + SumFunctionOnSet(Size, t) + LineSize * Cardinality(l)
  BY DEF Weigh
<1>6. g = IF slot = at THEN f \ {r} ELSE f
  OBVIOUS
<1>7. slot = at => r \in f
  OBVIOUS
<1>8. slot = at => SumFunctionOnSet(Size, f \ {r}) = SumFunctionOnSet(Size, f) - Size[r]
  BY <1>1, <1>7, SizesAdd
<1> HIDE DEF f, g, t, l
<1> QED BY <1>2, <1>3, <1>4, <1>5, <1>6, <1>8

\* An index read as lines of one slot, put back without those that went.
PutBack(L, at, read, gone) == {r \in L : HomeOf(r) # at} \cup (read \ gone)

\* An index put back without the lines that went is lighter by those.
LEMMA WeighIndex ==
  ASSUME NEW F \in SUBSET Files, NEW T \in SUBSET Records, NEW L \in SUBSET Records,
         NEW at, NEW read \in SUBSET {r \in L : HomeOf(r) = at}, NEW gone \in SUBSET Records, NEW slot
  PROVE  /\ PutBack(L, at, read, gone) \in SUBSET L
         /\ LineSize * Cardinality(read \cap gone) \in Nat
         /\ Weigh(F, T, PutBack(L, at, read, gone), slot) <=
              Weigh(F, T, L, slot) - (IF slot = at THEN LineSize * Cardinality(read \cap gone) ELSE 0)
<1> DEFINE put == {r \in L : HomeOf(r) # at} \cup (read \ gone)
           f == {x \in Records : <<x, slot>> \in F}
           t == {x \in T : HomeOf(x) = slot}
           l == {x \in L : HomeOf(x) = slot}
           g == {x \in put : HomeOf(x) = slot}
           c == read \cap gone
<1>1. /\ Weigh(F, T, L, slot) = SumFunctionOnSet(Size, f) + SumFunctionOnSet(Size, t) + LineSize * Cardinality(l)
      /\ Weigh(F, T, put, slot) = SumFunctionOnSet(Size, f) + SumFunctionOnSet(Size, t) + LineSize * Cardinality(g)
  BY DEF Weigh
<1>2. /\ f \in SUBSET Records /\ t \in SUBSET Records /\ l \in SUBSET Records /\ c \in SUBSET Records
      /\ g \in SUBSET l /\ put \in SUBSET L
  OBVIOUS
<1>3. slot = at => c \in SUBSET l /\ g \in SUBSET (l \ c)
  OBVIOUS
<1> HIDE DEF put, f, t, l, g, c
<1>4. /\ SumFunctionOnSet(Size, f) \in Nat /\ SumFunctionOnSet(Size, t) \in Nat
      /\ Cardinality(l) \in Nat /\ Cardinality(g) \in Nat /\ Cardinality(c) \in Nat /\ Cardinality(g) <= Cardinality(l)
      /\ LineSize \in Nat
  BY <1>2, SizesGrow, SpoolConstants
<1>5. slot = at => Cardinality(g) + Cardinality(c) <= Cardinality(l)
  <2> SUFFICES ASSUME slot = at PROVE Cardinality(g) + Cardinality(c) <= Cardinality(l)
    OBVIOUS
  <2>1. IsFiniteSet(l)
    BY <1>2, SpoolConstants, FS_Subset
  <2>2. Cardinality(l \ c) = Cardinality(l) - Cardinality(l \cap c)
    BY <2>1, FS_Difference
  <2>3. l \cap c = c
    BY <1>3
  <2>4. l \ c \in SUBSET Records /\ g \in SUBSET (l \ c)
    BY <1>2, <1>3
  <2>5. Cardinality(g) <= Cardinality(l \ c)
    BY <2>4, SizesGrow
  <2> QED BY <1>4, <2>2, <2>3, <2>5
<1>6. /\ LineSize * Cardinality(l) \in Nat /\ LineSize * Cardinality(g) \in Nat /\ LineSize * Cardinality(c) \in Nat
      /\ LineSize * Cardinality(g) <= LineSize * Cardinality(l)
  <2>1. 0 \in Nat /\ Cardinality(g) + 0 <= Cardinality(l) /\ Cardinality(c) + 0 <= Cardinality(c)
    BY <1>4
  <2>2. /\ LineSize * Cardinality(l) \in Nat /\ LineSize * Cardinality(g) \in Nat /\ LineSize * 0 \in Nat
        /\ LineSize * Cardinality(g) + LineSize * 0 <= LineSize * Cardinality(l)
    BY <1>4, <2>1, TimesGrows
  <2>3. LineSize * Cardinality(c) \in Nat
    BY <1>4, <2>1, TimesGrows
  <2> QED BY <2>2, <2>3
<1>7. slot = at => LineSize * Cardinality(g) + LineSize * Cardinality(c) <= LineSize * Cardinality(l)
  BY <1>4, <1>5, TimesGrows
<1>8. Weigh(F, T, put, slot) <= Weigh(F, T, L, slot) - (IF slot = at THEN LineSize * Cardinality(c) ELSE 0)
  BY <1>1, <1>4, <1>6, <1>7
<1> QED BY <1>2, <1>6, <1>8 DEF put, c, PutBack

-----------------------------------------------------------------------------
(* What a step does to the handles. *)

\* All that a handle is but for signatures, which the invariant never asks about.
Fields == {"pc", "rec", "slot", "frees", "match", "slots", "todo", "gone", "walk", "sum",
           "then", "usage"}

Alike(a, b, F) == \A f \in F : a[f] = b[f]

\* Handle h becomes what t is, and no other changes.
Becomes(h, t) ==
  /\ handle' \in [Handles -> Handle]
  /\ Alike(handle'[h], t, Fields)
  /\ \A k \in Handles : k # h => Alike(handle'[k], handle[k], Fields)

\* A step of one handle alone, field by field.
LEMMA GoesTo ==
  ASSUME Shape, NEW h \in Handles, NEW t \in Handle, Goes(h, t)
  PROVE  Becomes(h, t)
BY DEF Shape, Goes, Becomes, Alike

\* So a step that also changes files, but for the figures others keep.
LEMMA ChangesTo ==
  ASSUME Shape, NEW h \in Handles, NEW t \in Handle, NEW missed, Changes(h, t, missed)
  PROVE  Becomes(h, t)
<1>1. ASSUME NEW k \in Handles
      PROVE  handle'[k] \in Handle /\ Alike(handle'[k], IF k = h THEN t ELSE handle[k], Fields)
  <2> DEFINE u == IF k = h THEN t ELSE handle[k]
  <2>1. u \in Handle
    BY DEF Shape
  <2>2. handle'[k] = [u EXCEPT !.fresh = u.fresh /\ k \in missed \cap Writers, !.snap = u.snap /\ k \in missed]
    BY DEF Changes
  <2> HIDE DEF u
  <2>3. ASSUME NEW a \in BOOLEAN, NEW b \in BOOLEAN
        PROVE  [u EXCEPT !.fresh = a, !.snap = b] \in Handle /\ Alike([u EXCEPT !.fresh = a, !.snap = b], u, Fields)
    BY <2>1 DEF Handle, Alike, Fields
  <2>4. (u.fresh /\ k \in missed \cap Writers) \in BOOLEAN /\ (u.snap /\ k \in missed) \in BOOLEAN
    OBVIOUS
  <2> QED BY <2>2, <2>3, <2>4 DEF u
<1>2. handle' \in [Handles -> Handle]
  BY <1>1 DEF Changes
<1> QED BY <1>1, <1>2 DEF Becomes

\* The bytes of a slot, and of the spool, are a number.
LEMMA BytesAre ==
  ASSUME Shape, NEW slot
  PROVE  BytesIn(slot) \in Nat /\ Bytes \in Nat
<1>1. ASSUME NEW at PROVE BytesIn(at) \in Nat
  BY BytesWeigh, WeighLess DEF Shape
<1> QED BY <1>1 DEF Bytes

\* Where a walk begins, which only a handle that writes makes.
LEMMA WalkStarts ==
  ASSUME Shape, NEW h \in Handles, NEW t \in Handle, NEW then \in {"idle", "judge", "recheck", "list"},
         StartsWalk(h, t, then)
  PROVE  /\ handle' \in [Handles -> Handle]
         /\ \A k \in Handles : k # h => Alike(handle'[k], handle[k], Fields)
         /\ h \in Writers =>
              /\ handle'[h].pc = "walk" /\ handle'[h].then = then /\ handle'[h].sum = 0
              /\ handle'[h].walk = <<"rawcalls", "records">>
              /\ Alike(handle'[h], t, Fields \ {"pc", "then", "sum", "walk"})
         /\ h \notin Writers => handle'[h].pc = then /\ Alike(handle'[h], t, Fields \ {"pc"})
         /\ could' \in [Handles -> Nat] /\ \A k \in Handles : k # h => could'[k] = could[k]
         /\ could'[h] = IF then = "recheck" THEN Bytes ELSE 0
<1> DEFINE u == Walking(t, then)   v == [t EXCEPT !.pc = then]
<1>1. u \in Handle /\ u.pc = "walk" /\ u.then = then /\ u.sum = 0 /\ u.walk = <<"rawcalls", "records">>
      /\ Alike(u, t, Fields \ {"pc", "then", "sum", "walk"})
  BY ZenonT(30) DEF Walking, Handle, Alike, Fields, Pcs, Walks
<1>2. v \in Handle /\ v.pc = then /\ Alike(v, t, Fields \ {"pc"})
  BY DEF Handle, Alike, Fields, Pcs
<1>3. Becomes(h, IF h \in Writers THEN u ELSE v)
  <2> HIDE DEF u, v
  <2> QED BY <1>1, <1>2, GoesTo DEF StartsWalk, u, v
<1>4. could' \in [Handles -> Nat] /\ (\A k \in Handles : k # h => could'[k] = could[k])
      /\ could'[h] = IF then = "recheck" THEN Bytes ELSE 0
  BY BytesAre DEF StartsWalk, Shape
<1> HIDE DEF u, v
<1> QED BY <1>1, <1>2, <1>3, <1>4 DEF Becomes, Alike, Fields

\* What a handle becomes when only its place changes, and when it is done.
Turns(h, pc) ==
  /\ handle' \in [Handles -> Handle]
  /\ \A k \in Handles : k # h => Alike(handle'[k], handle[k], Fields)
  /\ handle'[h].pc = pc /\ Alike(handle'[h], handle[h], Fields \ {"pc"})

\* A step that changes a handle's place alone.
LEMMA Turning ==
  ASSUME Shape, NEW h \in Handles, NEW pc \in Pcs, Goes(h, [handle[h] EXCEPT !.pc = pc])
  PROVE  Turns(h, pc)
<1>1. handle[h] \in Handle
  BY DEF Shape
<1> DEFINE u == [handle[h] EXCEPT !.pc = pc]
<1>2. u \in Handle /\ u.pc = pc /\ Alike(u, handle[h], Fields \ {"pc"})
  BY <1>1 DEF Handle, Alike, Fields
<1>3. Becomes(h, u)
  <2> HIDE DEF u
  <2> QED BY <1>2, GoesTo DEF u
<1> HIDE DEF u
<1> QED BY <1>2, <1>3 DEF Turns, Becomes, Alike, Fields

Rests(t, pc, usage) ==
  /\ t.pc = pc /\ t.rec = NoRecord /\ t.slot = "none" /\ ~t.frees /\ t.slots = <<>>
  /\ t.then = "none" /\ t.usage = usage

\* A handle that ended an operation rests with the figure it kept.
LEMMA Resting ==
  ASSUME NEW s \in Handle
  PROVE  /\ Ended(s) \in Handle /\ Left(s) \in Handle /\ Closed \in Handle
         /\ Rests(Ended(s), "idle", s.usage) /\ Rests(Left(s), "idle", s.usage) /\ Rests(Closed, "closed", 0)
<1>1. Closed \in Handle /\ Rests(Closed, "closed", 0)
  BY DEF Closed, Handle, Pcs, Walks, Orders, Rests
<1>2. Ended(s) \in Handle /\ Rests(Ended(s), "idle", s.usage)
  BY DEF Ended, Closed, Handle, Pcs, Walks, Orders, Rests
<1>3. Left(s) \in Handle /\ Rests(Left(s), "idle", s.usage)
  <2>1. s.fresh \in BOOLEAN
    BY DEF Handle
  <2> QED BY <1>2, <2>1 DEF Left, Handle, Rests
<1> QED BY <1>1, <1>2, <1>3

-----------------------------------------------------------------------------
(* What a step leaves as it was. *)

\* A handle's part of the invariant holds of one like it, with no more to
\* delete, no more on disk than what landed, and no less that might have landed.
LEMMA AlikeKeeps ==
  ASSUME NEW h, NEW a \in Handle, NEW b \in Handle, Alike(b, a, Fields)
  PROVE  /\ StoreOK(h, a) => StoreOK(h, b)
         /\ \A left : \A less \in SUBSET left : DeleteOK(a, left) => DeleteOK(b, less)
         /\ \A all, first, all2, first2 \in Int :
              QuotaOK(a, all, first) /\ all2 <= all /\ first2 <= first => QuotaOK(b, all2, first2)
         /\ \A all, second, most, all2, second2, most2 \in Int :
              RefuseOK(a, all, second, most) /\ all2 - all <= most2 - most
                /\ second2 - second <= most2 - most /\ most2 >= most
              => RefuseOK(b, all2, second2, most2)
<1>1. /\ a.pc = b.pc /\ a.rec = b.rec /\ a.slot = b.slot /\ a.frees = b.frees
      /\ a.match = b.match /\ a.slots = b.slots /\ a.todo = b.todo /\ a.gone = b.gone
      /\ a.walk = b.walk /\ a.sum = b.sum /\ a.then = b.then /\ a.usage = b.usage
  BY DEF Alike, Fields
<1>2. At(a) = At(b)
  BY <1>1 DEF At
<1>3. StoreOK(h, a) => StoreOK(h, b)
  BY <1>1, <1>2 DEF StoreOK, Probes, Stores
<1>4. ASSUME NEW left, NEW less \in SUBSET left, DeleteOK(a, left) PROVE DeleteOK(b, less)
  BY <1>1, <1>2, <1>4 DEF DeleteOK
<1>5. ASSUME NEW all \in Int, NEW first \in Int, NEW all2 \in Int, NEW first2 \in Int,
             QuotaOK(a, all, first), all2 <= all, first2 <= first
      PROVE  QuotaOK(b, all2, first2)
  <2>1. a.usage \in Int /\ a.sum \in Int /\ Quota \in Int
    BY SpoolConstants DEF Handle
  <2> QED BY <1>1, <1>5, <2>1 DEF QuotaOK
<1>6. ASSUME NEW all \in Int, NEW second \in Int, NEW most \in Int, NEW all2 \in Int, NEW second2 \in Int,
             NEW most2 \in Int, RefuseOK(a, all, second, most), all2 - all <= most2 - most,
             second2 - second <= most2 - most, most2 >= most
      PROVE  RefuseOK(b, all2, second2, most2)
  <2>1. a.usage \in Int /\ a.sum \in Int /\ Quota \in Int
    BY SpoolConstants DEF Handle
  <2>2. Needed(a.rec) \in Int
    BY SpoolConstants DEF Needed, Handle
  <2> QED BY <1>1, <1>6, <2>1, <2>2 DEF RefuseOK
<1> QED BY <1>3, <1>4, <1>5, <1>6

Looks(s) == s.pc \in {"recheck", "refuse"} \/ s.then = "recheck"

\* A step of one handle: the others are as they were, and what lands is
\* added to what those that look take into account.
LEMMA StepKeeps ==
  ASSUME SpoolInv, Shape', NEW h \in Handles, NEW n \in Nat,
         \A k \in Handles : k # h => Alike(handle'[k], handle[k], Fields),
         \A k \in Handles : k # h => begun'[k] \cap files' \subseteq begun[k] \cap files,
         \A k \in Handles : k # h /\ Looks(handle[k]) => could'[k] = could[k] + n,
         Bytes' <= Bytes + n, BytesIn("rawcalls")' <= BytesIn("rawcalls") + n,
         BytesIn("records")' <= BytesIn("records") + n,
         n = 0 \/ h \in Writers,
         StoreOK(h, handle'[h]), DeleteOK(handle'[h], begun'[h] \cap files'),
         Writers = {h} => QuotaOK(handle'[h], Bytes', BytesIn("rawcalls")'),
         RefuseOK(handle'[h], Bytes', BytesIn("records")', could'[h]),
         PlaceInv', IndexInv'
  PROVE  SpoolInv'
<1>1. /\ Shape /\ StoreInv /\ DeleteInv /\ QuotaInv /\ RefuseInv
  BY DEF SpoolInv
<1>2. \A k \in Handles : handle[k] \in Handle /\ handle'[k] \in Handle /\ could[k] \in Int /\ could'[k] \in Int
  BY <1>1 DEF Shape
<1>3. /\ Bytes \in Int /\ BytesIn("rawcalls") \in Int /\ BytesIn("records") \in Int
      /\ Bytes' \in Int /\ BytesIn("rawcalls")' \in Int /\ BytesIn("records")' \in Int
  <2>1. \A slot : BytesIn(slot) \in Nat /\ Bytes \in Nat
    BY <1>1, BytesAre
  <2>2. (\A slot : BytesIn(slot) \in Nat /\ Bytes \in Nat)'
    <3>1. Weigh(files', temps', lines', "rawcalls") \in Nat /\ Weigh(files', temps', lines', "records") \in Nat
      BY WeighLess DEF Shape
    <3>2. ASSUME NEW slot PROVE BytesIn(slot)' \in Nat
      BY BytesWeigh, WeighLess DEF Shape
    <3> QED BY <3>2 DEF Bytes
  <2> QED BY <2>1, <2>2
<1>4. StoreInv'
  BY <1>1, <1>2, AlikeKeeps DEF StoreInv
<1>5. DeleteInv'
  <2>1. ASSUME NEW k \in Handles, k # h
        PROVE  DeleteOK(handle'[k], begun'[k] \cap files')
    <3>1. DeleteOK(handle[k], begun[k] \cap files) /\ Alike(handle'[k], handle[k], Fields)
          /\ begun'[k] \cap files' \in SUBSET (begun[k] \cap files)
      BY <1>1, <2>1 DEF DeleteInv
    <3> QED BY <1>2, <3>1, AlikeKeeps
  <2> QED BY <2>1 DEF DeleteInv
<1>6. QuotaInv'
  <2>1. ASSUME NEW k \in Handles, k # h, Writers = {k}
        PROVE  QuotaOK(handle'[k], Bytes', BytesIn("rawcalls")')
    <3>1. n = 0
      BY <2>1
    <3>2. QuotaOK(handle[k], Bytes, BytesIn("rawcalls")) /\ Alike(handle'[k], handle[k], Fields)
      BY <1>1, <2>1 DEF QuotaInv
    <3>3. Bytes' <= Bytes /\ BytesIn("rawcalls")' <= BytesIn("rawcalls")
      BY <1>3, <3>1
    <3> QED BY <1>2, <1>3, <3>2, <3>3, AlikeKeeps
  <2> QED BY <2>1 DEF QuotaInv
<1>7. RefuseInv'
  <2>1. ASSUME NEW k \in Handles, k # h
        PROVE  RefuseOK(handle'[k], Bytes', BytesIn("records")', could'[k])
    <3>1. RefuseOK(handle[k], Bytes, BytesIn("records"), could[k]) /\ Alike(handle'[k], handle[k], Fields)
      BY <1>1, <2>1 DEF RefuseInv
    <3>2. CASE Looks(handle[k])
      <4>1. could'[k] = could[k] + n
        BY <2>1, <3>2
      <4>2. Bytes' - Bytes <= could'[k] - could[k] /\ BytesIn("records")' - BytesIn("records") <= could'[k] - could[k]
            /\ could'[k] >= could[k]
        BY <1>2, <1>3, <4>1
      <4> QED BY <1>2, <1>3, <3>1, <4>2, AlikeKeeps
    <3>3. CASE ~Looks(handle[k])
      BY <3>1, <3>3 DEF RefuseOK, Looks, Alike, Fields
    <3> QED BY <3>2, <3>3
  <2> QED BY <2>1 DEF RefuseInv
<1> QED BY <1>4, <1>5, <1>6, <1>7 DEF SpoolInv

\* Nobody but h rewrites an index because of what h does, and lines stay.
LEMMA IndexKeeps ==
  ASSUME IndexInv, NEW h \in Handles, \A k \in Handles : k # h => Alike(handle'[k], handle[k], Fields),
         handle'[h].pc # "put", lines \subseteq lines'
  PROVE  IndexInv'
<1>1. \A k \in Handles : k # h => /\ handle'[k].pc = handle[k].pc /\ handle'[k].slot = handle[k].slot
                                  /\ handle'[k].todo = handle[k].todo
  BY DEF Alike, Fields
<1> QED BY <1>1 DEF IndexInv, HomeOf

\* Nothing is heavier than it was.
Fewer ==
  /\ Bytes \in Nat /\ Bytes' \in Nat /\ Bytes' <= Bytes
  /\ \A slot \in Counted :
       BytesIn(slot) \in Nat /\ BytesIn(slot)' \in Nat /\ BytesIn(slot)' <= BytesIn(slot)

\* A step that leaves files and lines alone.
LEMMA QuietKeeps ==
  ASSUME SpoolInv, NEW h \in Handles, handle' \in [Handles -> Handle],
         \A k \in Handles : k # h => Alike(handle'[k], handle[k], Fields),
         UNCHANGED <<files, lines, owed>>, temps' \in SUBSET temps,
         begun' \in [Handles -> SUBSET Files], \A k \in Handles : k # h => begun'[k] = begun[k],
         could' \in [Handles -> Nat], \A k \in Handles : k # h => could'[k] = could[k],
         handle'[h].pc # "put",
         StoreOK(h, handle'[h]), DeleteOK(handle'[h], begun'[h] \cap files),
         Fewer =>
              /\ Writers = {h} => QuotaOK(handle'[h], Bytes', BytesIn("rawcalls")')
              /\ RefuseOK(handle'[h], Bytes', BytesIn("records")', could'[h])
  PROVE  SpoolInv'
<1>1. Shape /\ PlaceInv /\ IndexInv
  BY DEF SpoolInv
<1>2. Shape'
  BY <1>1 DEF Shape
<1>3. ASSUME NEW slot PROVE BytesIn(slot)' <= BytesIn(slot) /\ BytesIn(slot) \in Nat /\ BytesIn(slot)' \in Nat
  BY <1>1, BytesWeigh, WeighLess DEF Shape
<1>4. Bytes' <= Bytes /\ Bytes \in Nat /\ Bytes' \in Nat
  BY <1>3 DEF Bytes
<1>5. PlaceInv'
  BY <1>1 DEF PlaceInv, HomeOf
<1>6. IndexInv'
  BY <1>1, IndexKeeps
<1>7. /\ Bytes' <= Bytes + 0 /\ BytesIn("rawcalls")' <= BytesIn("rawcalls") + 0
      /\ BytesIn("records")' <= BytesIn("records") + 0
  BY <1>3, <1>4
<1>8. \A k \in Handles : k # h => could'[k] = could[k] + 0
  BY <1>1 DEF Shape
<1>9. /\ Writers = {h} => QuotaOK(handle'[h], Bytes', BytesIn("rawcalls")')
      /\ RefuseOK(handle'[h], Bytes', BytesIn("records")', could'[h])
  BY <1>3, <1>4 DEF Fewer
<1>10. 0 \in Nat
  OBVIOUS
<1> QED BY <1>2, <1>5, <1>6, <1>7, <1>8, <1>9, <1>10, StepKeeps

-----------------------------------------------------------------------------
(* The steps that leave files and lines alone. *)

\* A handle that has its record and slot, or probes.
ForStoring(t) ==
  \/ t.slot = "probe" /\ t.rec = NoRecord /\ ~t.frees
  \/ /\ t.rec \in Records
     /\ t.slot = HomeOf(t.rec) \/ (t.slot = "held" /\ t.rec \notin Rawcalls)

\* A walk that begins, for what is to follow it.
LEMMA WalkKeeps ==
  ASSUME SpoolInv, NEW h \in Handles, NEW t \in Handle, NEW then \in {"idle", "judge", "recheck", "list"},
         StartsWalk(h, t, then), UNCHANGED <<files, lines, owed>>, temps' \in SUBSET temps,
         begun' \in [Handles -> SUBSET Files], \A k \in Handles : k # h => begun'[k] = begun[k],
         t.then = "none", t.frees => then \in Storing /\ t.slot = "records",
         then \in Storing => h \in Writers /\ ForStoring(t),
         then \notin Storing => t.rec = NoRecord,
         then = "list" => \A f \in begun'[h] \cap files :
                            f[1] \in t.match /\ \E i \in DOMAIN t.slots : t.slots[i] = f[2],
         then # "idle" => handle[h].pc \in {"idle", "judge"} /\ handle[h].then = "none" /\ t.usage = handle[h].usage
  PROVE  SpoolInv'
<1>1. Shape
  BY DEF SpoolInv
<1>2. /\ handle' \in [Handles -> Handle]
      /\ \A k \in Handles : k # h => Alike(handle'[k], handle[k], Fields)
      /\ could' \in [Handles -> Nat] /\ \A k \in Handles : k # h => could'[k] = could[k]
      /\ could'[h] = IF then = "recheck" THEN Bytes ELSE 0
      /\ h \in Writers =>
           /\ handle'[h].pc = "walk" /\ handle'[h].then = then /\ handle'[h].sum = 0
           /\ handle'[h].walk = <<"rawcalls", "records">>
           /\ Alike(handle'[h], t, Fields \ {"pc", "then", "sum", "walk"})
      /\ h \notin Writers => handle'[h].pc = then /\ Alike(handle'[h], t, Fields \ {"pc"})
  BY <1>1, WalkStarts
<1>3. /\ handle'[h].rec = t.rec /\ handle'[h].slot = t.slot /\ handle'[h].frees = t.frees
      /\ handle'[h].match = t.match /\ handle'[h].slots = t.slots /\ handle'[h].usage = t.usage
      /\ h \notin Writers => handle'[h].then = "none"
  BY <1>2 DEF Alike, Fields
<1>4. At(handle'[h]) = then /\ handle'[h].pc # "put"
  BY <1>2 DEF At
<1>5. StoreOK(h, handle'[h])
  BY <1>2, <1>3, <1>4 DEF StoreOK, Storing, Probes, Stores, ForStoring
<1>6. DeleteOK(handle'[h], begun'[h] \cap files)
  <2>1. then \in Deleting => then = "list"
    BY DEF Deleting
  <2>2. handle'[h].pc # "deleted" /\ handle'[h].pc # "remove"
    BY <1>2
  <2> QED BY <1>3, <1>4, <2>1, <2>2 DEF DeleteOK
<1>7. Fewer /\ Writers = {h} => QuotaOK(handle'[h], Bytes', BytesIn("rawcalls")')
  <2> SUFFICES ASSUME Fewer, Writers = {h} PROVE QuotaOK(handle'[h], Bytes', BytesIn("rawcalls")')
    OBVIOUS
  <2>1. Bytes <= Quota /\ h \in Writers
    BY DEF SpoolInv, QuotaInv, QuotaOK
  <2>2. Bytes' <= Quota
    BY <2>1, SpoolConstants DEF Fewer
  <2>3. handle'[h].pc = "walk" /\ handle'[h].then = then /\ handle'[h].walk = <<"rawcalls", "records">>
    BY <1>2, <2>1
  <2>4. <<"rawcalls", "records">> # <<"records">> /\ <<"rawcalls", "records">> # <<>>
    OBVIOUS
  <2>5. then # "idle" => Bytes' <= handle'[h].usage
    <3> SUFFICES ASSUME then # "idle" PROVE Bytes' <= handle'[h].usage
      OBVIOUS
    <3>1. QuotaOK(handle[h], Bytes, BytesIn("rawcalls"))
      BY DEF SpoolInv, QuotaInv
    <3>2. Bytes <= handle[h].usage
      BY <3>1 DEF QuotaOK
    <3>3. handle[h].usage \in Int
      BY <1>1 DEF Shape, Handle
    <3> QED BY <1>3, <3>2, <3>3 DEF Fewer
  <2> QED BY <2>2, <2>3, <2>4, <2>5 DEF QuotaOK
<1>8. Fewer => RefuseOK(handle'[h], Bytes', BytesIn("records")', could'[h])
  <2> SUFFICES ASSUME Fewer PROVE RefuseOK(handle'[h], Bytes', BytesIn("records")', could'[h])
    OBVIOUS
  <2>1. CASE h \in Writers
    <3>1. handle'[h].pc = "walk" /\ handle'[h].walk = <<"rawcalls", "records">> /\ handle'[h].sum = 0
          /\ handle'[h].then = then
      BY <1>2, <2>1
    <3>2. <<"rawcalls", "records">> # <<"records">> /\ <<"rawcalls", "records">> # <<>>
      OBVIOUS
    <3>3. then = "recheck" => 0 + Bytes' <= could'[h]
      <4>1. then = "recheck" => could'[h] = Bytes
        BY <1>2
      <4>2. Bytes' \in Int /\ Bytes' <= Bytes
        BY DEF Fewer
      <4>3. \A n \in Int : 0 + n = n
        OBVIOUS
      <4> QED BY <4>1, <4>2, <4>3
    <3> QED BY <3>1, <3>2, <3>3 DEF RefuseOK
  <2>2. CASE h \notin Writers
    BY <1>2, <2>2 DEF RefuseOK, Storing
  <2> QED BY <2>1, <2>2
<1> QED BY <1>2, <1>4, <1>5, <1>6, <1>7, <1>8, QuietKeeps

\* Opening a handle keeps the invariant.
LEMMA OpenKeeps ==
  ASSUME SpoolInv, NEW h \in Handles, Open(h)
  PROVE  SpoolInv'
<1>1. handle[h] \in Handle /\ StoreOK(h, handle[h]) /\ handle[h].pc = "closed"
      /\ UNCHANGED <<files, lines, begun, owed>> /\ temps' \in SUBSET temps
      /\ begun \in [Handles -> SUBSET Files] /\ StartsWalk(h, handle[h], "idle")
  BY DEF SpoolInv, Shape, StoreInv, Open, Sweeps
<1>2. handle[h].then = "none" /\ handle[h].rec = NoRecord /\ ~handle[h].frees
  BY <1>1 DEF StoreOK, At, Storing
<1>3. "idle" \notin Storing
  BY DEF Storing
<1> QED BY <1>1, <1>2, <1>3, WalkKeeps

\* A write begins: with a walk, or without where the signature is as it was.
LEMMA StartsKeeps ==
  ASSUME SpoolInv, NEW h \in Writers, NEW r \in Records \cup {NoRecord}, NEW slot \in Slots \cup {"probe"},
         NEW frees \in BOOLEAN, Starts(h, r, slot, frees), frees => slot = "records",
         \/ slot = "probe" /\ r = NoRecord /\ ~frees
         \/ r \in Records /\ (slot = HomeOf(r) \/ (slot = "held" /\ r \notin Rawcalls))
  PROVE  SpoolInv'
<1> DEFINE s == [handle[h] EXCEPT !.rec = r, !.slot = slot, !.frees = frees]
<1>1. h \in Handles /\ handle[h] \in Handle /\ StoreOK(h, handle[h]) /\ handle[h].pc = "idle"
      /\ UNCHANGED <<files, lines, temps, begun, owed>> /\ Shape
  BY SpoolConstants DEF SpoolInv, Shape, StoreInv, Starts, disk
<1>2. handle[h].then = "none" /\ handle[h].rec = NoRecord /\ ~handle[h].frees
  BY <1>1 DEF StoreOK, At, Storing
<1>3. s \in Handle /\ s.pc = "idle" /\ s.then = "none" /\ s.rec = r /\ s.slot = slot /\ s.frees = frees
      /\ s.usage = handle[h].usage
  BY <1>1, <1>2 DEF Handle
<1>4. ForStoring(s)
  BY <1>3 DEF ForStoring
<1>5. CASE StartsWalk(h, s, "judge")
  <2>1. "judge" \in Storing
    BY DEF Storing
  <2>2. begun' \in [Handles -> SUBSET Files] /\ temps' \in SUBSET temps /\ begun' = begun
    BY <1>1 DEF Shape
  <2> HIDE DEF s
  <2> QED BY <1>1, <1>2, <1>3, <1>4, <1>5, <2>1, <2>2, WalkKeeps
<1>6. CASE Goes(h, [s EXCEPT !.pc = "judge"]) /\ UNCHANGED could
  <2> DEFINE t == [s EXCEPT !.pc = "judge"]
  <2>1. t \in Handle /\ t.pc = "judge" /\ Alike(t, s, Fields \ {"pc"})
    <3> HIDE DEF s
    <3> QED BY <1>3 DEF Handle, Pcs, Alike, Fields
  <2>2. Becomes(h, t)
    <3> HIDE DEF s
    <3>1. Goes(h, t)
      BY <1>6
    <3> HIDE DEF t
    <3> QED BY <1>1, <2>1, <3>1, GoesTo
  <2> HIDE DEF s, t
  <2>3. /\ handle' \in [Handles -> Handle]
        /\ \A k \in Handles : k # h => Alike(handle'[k], handle[k], Fields)
        /\ handle'[h].pc = "judge" /\ handle'[h].then = "none" /\ handle'[h].rec = r
        /\ handle'[h].slot = slot /\ handle'[h].frees = frees /\ handle'[h].usage = handle[h].usage
    BY <1>3, <2>1, <2>2 DEF Becomes, Alike, Fields
  <2>4. At(handle'[h]) = "judge"
    BY <2>3 DEF At
  <2>5. StoreOK(h, handle'[h])
    BY <2>3, <2>4 DEF StoreOK, Storing, Probes, Stores
  <2>6. DeleteOK(handle'[h], begun'[h] \cap files)
    BY <2>3, <2>4 DEF DeleteOK, Deleting
  <2>7. Fewer /\ Writers = {h} => QuotaOK(handle'[h], Bytes', BytesIn("rawcalls")')
    <3> SUFFICES ASSUME Fewer, Writers = {h} PROVE QuotaOK(handle'[h], Bytes', BytesIn("rawcalls")')
      OBVIOUS
    <3>1. QuotaOK(handle[h], Bytes, BytesIn("rawcalls"))
      BY <1>1 DEF SpoolInv, QuotaInv
    <3>2. Bytes <= Quota /\ Bytes <= handle[h].usage
      BY <1>1, <1>2, <3>1 DEF QuotaOK
    <3>3. Quota \in Int /\ handle[h].usage \in Int
      BY <1>1, SpoolConstants DEF Handle
    <3>4. Bytes' <= Quota /\ Bytes' <= handle[h].usage
      BY <3>2, <3>3 DEF Fewer
    <3> QED BY <2>3, <3>4 DEF QuotaOK
  <2>8. RefuseOK(handle'[h], Bytes', BytesIn("records")', could'[h])
    BY <2>3 DEF RefuseOK
  <2>9. /\ begun' \in [Handles -> SUBSET Files] /\ begun' = begun /\ could' \in [Handles -> Nat] /\ could' = could
        /\ temps' \in SUBSET temps /\ handle'[h].pc # "put"
    BY <1>1, <1>6, <2>3 DEF Shape
  <2> QED BY <1>1, <2>3, <2>5, <2>6, <2>7, <2>8, <2>9, QuietKeeps
<1> QED BY <1>5, <1>6 DEF Starts

\* So does the start of a write, a hold, a release and a probe.
LEMMA WritesKeep ==
  ASSUME SpoolInv, NEW h \in Handles,
         Probe(h) \/ \E r \in Records : Write(h, r) \/ WriteRecord(h, r) \/ Hold(h, r) \/ Release(h, r)
  PROVE  SpoolInv'
<1>1. CASE Probe(h)
  BY <1>1, StartsKeeps DEF Probe
<1>2. ASSUME NEW r \in Records, Write(h, r) PROVE SpoolInv'
  <2>1. "rawcalls" \in Slots /\ "rawcalls" = HomeOf(r) /\ h \in Writers
    BY <1>2 DEF Write, Slots, HomeOf
  <2> QED BY <1>2, <2>1, StartsKeeps DEF Write
<1>3. ASSUME NEW r \in Records, WriteRecord(h, r) PROVE SpoolInv'
  <2>1. "records" \in Slots /\ "records" = HomeOf(r) /\ h \in Writers
    BY <1>3 DEF WriteRecord, Slots, HomeOf
  <2> QED BY <1>3, <2>1, StartsKeeps DEF WriteRecord
<1>4. ASSUME NEW r \in Records, Hold(h, r) PROVE SpoolInv'
  <2>1. "held" \in Slots /\ r \notin Rawcalls /\ h \in Writers
    BY <1>4 DEF Hold, Slots
  <2> QED BY <1>4, <2>1, StartsKeeps DEF Hold
<1>5. ASSUME NEW r \in Records, Release(h, r) PROVE SpoolInv'
  <2>1. r \notin Rawcalls
    <3>1. PlaceInv /\ <<r, "held">> \in files
      BY <1>5 DEF SpoolInv, Release
    <3> QED BY <3>1 DEF PlaceInv, HomeOf
  <2>2. "records" \in Slots /\ "records" = HomeOf(r) /\ h \in Writers
    BY <1>5, <2>1 DEF Release, Slots, HomeOf
  <2> QED BY <1>5, <2>2, StartsKeeps DEF Release
<1> QED BY <1>1, <1>2, <1>3, <1>4, <1>5

\* A deletion begins: what it addresses is in a slot it will come to.
LEMMA StartingKeeps ==
  ASSUME SpoolInv, NEW h \in Handles, NEW match \in SUBSET Records, NEW slots \in Orders,
         Starting(h, match, slots)
  PROVE  SpoolInv'
<1> DEFINE s == [handle[h] EXCEPT !.match = match, !.slots = slots]
<1>1. handle[h] \in Handle /\ StoreOK(h, handle[h]) /\ handle[h].pc = "idle" /\ Shape
      /\ UNCHANGED <<files, lines, owed>> /\ temps' \in SUBSET temps /\ StartsWalk(h, s, "list")
  BY DEF SpoolInv, Shape, StoreInv, Starting, Sweeps
<1>2. handle[h].then = "none" /\ handle[h].rec = NoRecord /\ ~handle[h].frees
  BY <1>1 DEF StoreOK, At, Storing
<1>3. s \in Handle /\ s.then = "none" /\ s.rec = NoRecord /\ ~s.frees /\ s.usage = handle[h].usage
      /\ s.match = match /\ s.slots = slots
  BY <1>1, <1>2 DEF Handle
<1>4. /\ begun' \in [Handles -> SUBSET Files] /\ \A k \in Handles : k # h => begun'[k] = begun[k]
      /\ begun'[h] = {f \in files : f[1] \in match /\ \E i \in DOMAIN slots : slots[i] = f[2]}
  BY <1>1 DEF Shape, Starting
<1>5. \A f \in begun'[h] \cap files : f[1] \in s.match /\ \E i \in DOMAIN s.slots : s.slots[i] = f[2]
  BY <1>3, <1>4
<1>6. "list" \notin Storing
  BY DEF Storing
<1> HIDE DEF s
<1> QED BY <1>1, <1>2, <1>3, <1>4, <1>5, <1>6, WalkKeeps

\* So does the start of a deletion.
LEMMA DeletionsKeep ==
  ASSUME SpoolInv, NEW h \in Handles,
         \/ \E p \in Projects : DeleteProject(h, p)
         \/ \E s \in Sessions : DeleteSession(h, s)
         \/ \E r \in Records : DeleteEntry(h, r)
  PROVE  SpoolInv'
<1>1. <<"rawcalls", "records", "held">> \in Orders /\ \A r : <<HomeOf(r)>> \in Orders
  BY DEF Orders, HomeOf
<1>2. ASSUME NEW p \in Projects, DeleteProject(h, p) PROVE SpoolInv'
  BY <1>1, <1>2, StartingKeeps DEF DeleteProject
<1>3. ASSUME NEW s \in Sessions, DeleteSession(h, s) PROVE SpoolInv'
  BY <1>1, <1>3, StartingKeeps DEF DeleteSession
<1>4. ASSUME NEW r \in Records, DeleteEntry(h, r) PROVE SpoolInv'
  BY <1>1, <1>4, StartingKeeps DEF DeleteEntry
<1> QED BY <1>2, <1>3, <1>4

\* A walk adds a slot up while the rest of the disk can only lose, or gain
\* what the walker is told of.
LEMMA WalkSlotKeeps ==
  ASSUME SpoolInv, NEW h \in Handles, WalkSlot(h)
  PROVE  SpoolInv'
<1> DEFINE s == handle[h]
           t == [s EXCEPT !.sum = @ + BytesIn(Head(s.walk)), !.walk = Tail(@)]
<1>1. s \in Handle /\ StoreOK(h, s) /\ s.pc = "walk" /\ s.walk # <<>> /\ Shape
      /\ UNCHANGED <<files, lines, temps, owed, begun, could>> /\ Goes(h, t)
  BY DEF SpoolInv, Shape, StoreInv, WalkSlot, disk, history
<1>2. s.walk \in {<<"records">>, <<"rawcalls", "records">>}
  BY <1>1 DEF Handle, Walks
<1>3. /\ s.walk = <<"records">> => Head(s.walk) = "records" /\ Tail(s.walk) = <<>>
      /\ s.walk = <<"rawcalls", "records">> => Head(s.walk) = "rawcalls" /\ Tail(s.walk) = <<"records">>
  <2>1. Head(<<"records">>) = "records" /\ Tail(<<"records">>) = <<>>
    OBVIOUS
  <2>2. Head(<<"rawcalls", "records">>) = "rawcalls" /\ Tail(<<"rawcalls", "records">>) = <<"records">>
    OBVIOUS
  <2> HIDE DEF s
  <2> QED BY <2>1, <2>2
<1>4. BytesIn("rawcalls") \in Nat /\ BytesIn("records") \in Nat /\ Bytes = BytesIn("rawcalls") + BytesIn("records")
  BY <1>1, BytesAre DEF Bytes
<1>5. s.sum + BytesIn(Head(s.walk)) \in Nat /\ Tail(s.walk) \in Walks
  <2>1. s.sum \in Nat
    BY <1>1 DEF Handle
  <2> QED BY <1>2, <1>3, <1>4, <2>1, SMTT(20) DEF Walks
<1>6. t \in Handle /\ t.sum = s.sum + BytesIn(Head(s.walk)) /\ t.walk = Tail(s.walk)
      /\ Alike(t, s, Fields \ {"sum", "walk"})
  <2> DEFINE a == s.sum + BytesIn(Head(s.walk))   b == Tail(s.walk)
  <2>1. a \in Nat /\ b \in Walks
    BY <1>5
  <2>2. t = [s EXCEPT !.sum = a, !.walk = b]
    OBVIOUS
  <2> HIDE DEF a, b, s, t
  <2>3. t \in Handle /\ t.sum = a /\ t.walk = b /\ Alike(t, s, Fields \ {"sum", "walk"})
    BY <1>1, <2>1, <2>2 DEF Handle, Alike, Fields
  <2> QED BY <2>3 DEF a, b
<1>7. Becomes(h, t)
  <2> HIDE DEF t
  <2> QED BY <1>1, <1>6, GoesTo
<1> HIDE DEF t
<1>8. /\ handle' \in [Handles -> Handle]
      /\ \A k \in Handles : k # h => Alike(handle'[k], handle[k], Fields)
      /\ handle'[h].sum = s.sum + BytesIn(Head(s.walk)) /\ handle'[h].walk = Tail(s.walk)
      /\ Alike(handle'[h], s, Fields \ {"sum", "walk"})
  BY <1>6, <1>7 DEF Becomes, Alike, Fields
<1>9. /\ handle'[h].pc = "walk" /\ handle'[h].then = s.then /\ handle'[h].rec = s.rec /\ handle'[h].slot = s.slot
      /\ handle'[h].frees = s.frees /\ handle'[h].match = s.match /\ handle'[h].slots = s.slots
      /\ handle'[h].usage = s.usage
  BY <1>1, <1>8 DEF Alike, Fields
<1>10. At(handle'[h]) = At(s)
  BY <1>1, <1>9 DEF At
<1>11. StoreOK(h, handle'[h])
  BY <1>1, <1>9, <1>10 DEF StoreOK, Probes, Stores
<1>12. DeleteOK(handle'[h], begun'[h] \cap files)
  <2>1. DeleteOK(s, begun[h] \cap files)
    BY DEF SpoolInv, DeleteInv
  <2> QED BY <1>1, <1>9, <1>10, <2>1 DEF DeleteOK
<1>13. UNCHANGED Bytes /\ UNCHANGED BytesIn("rawcalls") /\ UNCHANGED BytesIn("records")
  BY <1>1 DEF Bytes, BytesIn, In, HomeOf
<1>20. \/ /\ s.walk = <<"records">> /\ handle'[h].walk = <<>>
          /\ handle'[h].sum = s.sum + BytesIn("records")
       \/ /\ s.walk = <<"rawcalls", "records">> /\ handle'[h].walk = <<"records">>
          /\ handle'[h].sum = s.sum + BytesIn("rawcalls")
  <2> HIDE DEF s
  <2> QED BY <1>2, <1>3, <1>8
<1>21. <<"records">> # <<>> /\ <<"rawcalls", "records">> # <<>> /\ <<"rawcalls", "records">> # <<"records">>
  OBVIOUS
<1>14. Fewer /\ Writers = {h} => QuotaOK(handle'[h], Bytes', BytesIn("rawcalls")')
  <2> SUFFICES ASSUME Writers = {h} PROVE QuotaOK(handle'[h], Bytes', BytesIn("rawcalls")')
    OBVIOUS
  <2>1. QuotaOK(s, Bytes, BytesIn("rawcalls"))
    BY DEF SpoolInv, QuotaInv
  <2>2. s.sum \in Nat
    BY <1>1 DEF Handle
  <2>3. handle'[h].walk = <<"records">> => BytesIn("rawcalls") <= handle'[h].sum
    <3> HIDE DEF s
    <3> QED BY <1>4, <1>20, <1>21, <2>2
  <2>4. handle'[h].walk = <<>> => Bytes <= handle'[h].sum
    <3>1. s.walk = <<"records">> => BytesIn("rawcalls") <= s.sum
      BY <1>1, <2>1 DEF QuotaOK
    <3> HIDE DEF s
    <3> QED BY <1>4, <1>20, <1>21, <2>2, <3>1
  <2>5. Bytes <= Quota /\ s.then # "idle" => Bytes <= s.usage
    BY <1>1, <2>1 DEF QuotaOK
  <2>6. Bytes <= Quota
    BY <2>1 DEF QuotaOK
  <2> QED BY <1>9, <1>13, <2>3, <2>4, <2>5, <2>6 DEF QuotaOK
<1>15. RefuseOK(handle'[h], Bytes', BytesIn("records")', could'[h])
  <2>1. RefuseOK(s, Bytes, BytesIn("records"), could[h])
    BY DEF SpoolInv, RefuseInv
  <2>2. s.sum \in Nat /\ could[h] \in Nat
    BY <1>1 DEF Handle, Shape
  <2>3. s.then = "recheck" => /\ s.walk = <<"rawcalls", "records">> => s.sum + Bytes <= could[h]
                              /\ s.walk = <<"records">> => s.sum + BytesIn("records") <= could[h]
    BY <1>1, <2>1 DEF RefuseOK
  <2>4. s.then = "recheck" => /\ handle'[h].walk # <<"rawcalls", "records">>
                              /\ handle'[h].walk = <<"records">> => handle'[h].sum + BytesIn("records") <= could[h]
                              /\ handle'[h].walk = <<>> => handle'[h].sum <= could[h]
    <3> HIDE DEF s
    <3>1. \A a, b, c, n, m \in Int : a = b + c /\ n + a <= m => (n + b) + c <= m
      OBVIOUS
    <3>2. /\ BytesIn("rawcalls") \in Int /\ BytesIn("records") \in Int /\ Bytes \in Int /\ s.sum \in Int
          /\ could[h] \in Int
      BY <1>4, <2>2
    <3>3. CASE s.walk = <<"records">> /\ handle'[h].walk = <<>> /\ handle'[h].sum = s.sum + BytesIn("records")
      BY <1>21, <2>3, <3>3
    <3>4. CASE /\ s.walk = <<"rawcalls", "records">> /\ handle'[h].walk = <<"records">>
               /\ handle'[h].sum = s.sum + BytesIn("rawcalls")
      <4>1. s.then = "recheck" => (s.sum + BytesIn("rawcalls")) + BytesIn("records") <= could[h]
        BY <1>4, <2>3, <3>1, <3>2, <3>4
      <4> QED BY <1>21, <3>4, <4>1
    <3> QED BY <1>20, <3>3, <3>4
  <2> QED BY <1>1, <1>9, <1>13, <2>4 DEF RefuseOK
<1>16. /\ begun' \in [Handles -> SUBSET Files] /\ begun' = begun /\ could' \in [Handles -> Nat] /\ could' = could
       /\ temps' \in SUBSET temps /\ handle'[h].pc # "put"
  BY <1>1, <1>9 DEF Shape
<1> QED BY <1>1, <1>8, <1>11, <1>12, <1>14, <1>15, <1>16, QuietKeeps

\* A walk that ends puts what it added up in the place of the figure.
LEMMA WalkEndsKeeps ==
  ASSUME SpoolInv, NEW h \in Handles, WalkEnds(h)
  PROVE  SpoolInv'
<1> DEFINE s == handle[h]
           t == [s EXCEPT !.usage = s.sum, !.fresh = s.snap, !.snap = FALSE,
                          !.sum = 0, !.pc = s.then, !.then = "none"]
<1>1. s \in Handle /\ StoreOK(h, s) /\ s.pc = "walk" /\ s.walk = <<>> /\ Shape
      /\ UNCHANGED <<files, lines, temps, owed, begun, could>> /\ Goes(h, t)
  BY DEF SpoolInv, Shape, StoreInv, WalkEnds, disk, history
<1>2. s.then \in {"idle", "judge", "recheck", "list"} /\ s.sum \in Nat /\ s.snap \in BOOLEAN
  BY <1>1 DEF StoreOK, Handle
<1>3. t \in Handle /\ t.pc = s.then /\ t.then = "none" /\ t.usage = s.sum
      /\ Alike(t, s, Fields \ {"pc", "then", "sum", "usage"})
  <2> DEFINE a == s.sum   b == s.snap   c == s.then
  <2>1. a \in Int /\ b \in BOOLEAN /\ c \in Pcs
    BY <1>2 DEF Pcs
  <2>2. t = [s EXCEPT !.usage = a, !.fresh = b, !.snap = FALSE, !.sum = 0, !.pc = c, !.then = "none"]
    OBVIOUS
  <2> HIDE DEF a, b, c, s, t
  <2>3. t \in Handle /\ t.pc = c /\ t.then = "none" /\ t.usage = a /\ Alike(t, s, Fields \ {"pc", "then", "sum", "usage"})
    BY <1>1, <2>1, <2>2 DEF Handle, Alike, Fields
  <2> QED BY <2>3 DEF a, c
<1>4. Becomes(h, t)
  <2> HIDE DEF t
  <2> QED BY <1>1, <1>3, GoesTo
<1> HIDE DEF t
<1>5. /\ handle' \in [Handles -> Handle]
      /\ \A k \in Handles : k # h => Alike(handle'[k], handle[k], Fields)
      /\ handle'[h].pc = s.then /\ handle'[h].then = "none" /\ handle'[h].usage = s.sum
      /\ handle'[h].rec = s.rec /\ handle'[h].slot = s.slot /\ handle'[h].frees = s.frees
      /\ handle'[h].match = s.match /\ handle'[h].slots = s.slots
  BY <1>3, <1>4 DEF Becomes, Alike, Fields
<1>6. At(handle'[h]) = At(s)
  BY <1>1, <1>2, <1>5 DEF At
<1>7. StoreOK(h, handle'[h])
  BY <1>1, <1>2, <1>5, <1>6 DEF StoreOK, Probes, Stores
<1>8. DeleteOK(handle'[h], begun'[h] \cap files)
  <2>1. DeleteOK(s, begun[h] \cap files)
    BY DEF SpoolInv, DeleteInv
  <2> QED BY <1>1, <1>2, <1>5, <1>6, <2>1 DEF DeleteOK
<1>9. UNCHANGED Bytes /\ UNCHANGED BytesIn("rawcalls") /\ UNCHANGED BytesIn("records")
  BY <1>1 DEF Bytes, BytesIn, In, HomeOf
<1>10. Writers = {h} => QuotaOK(handle'[h], Bytes', BytesIn("rawcalls")')
  <2> SUFFICES ASSUME Writers = {h} PROVE QuotaOK(handle'[h], Bytes', BytesIn("rawcalls")')
    OBVIOUS
  <2>1. QuotaOK(s, Bytes, BytesIn("rawcalls"))
    BY DEF SpoolInv, QuotaInv
  <2>2. Bytes <= Quota /\ Bytes <= s.sum
    BY <1>1, <2>1 DEF QuotaOK
  <2> QED BY <1>2, <1>5, <1>9, <2>2 DEF QuotaOK
<1>11. RefuseOK(handle'[h], Bytes', BytesIn("records")', could'[h])
  <2>1. RefuseOK(s, Bytes, BytesIn("records"), could[h])
    BY DEF SpoolInv, RefuseInv
  <2>2. s.then = "recheck" => s.sum <= could[h]
    BY <1>1, <2>1 DEF RefuseOK
  <2> QED BY <1>1, <1>2, <1>5, <2>2 DEF RefuseOK
<1>12. /\ begun' \in [Handles -> SUBSET Files] /\ begun' = begun /\ could' \in [Handles -> Nat] /\ could' = could
       /\ temps' \in SUBSET temps /\ handle'[h].pc # "put"
  BY <1>1, <1>2, <1>5 DEF Shape
<1> QED BY <1>1, <1>5, <1>7, <1>8, <1>10, <1>11, <1>12, QuietKeeps

\* A handle that only turns to another place.
LEMMA TurnKeeps ==
  ASSUME SpoolInv, NEW h \in Handles, NEW pc \in Pcs \ {"put", "walk", "remove"},
         Goes(h, [handle[h] EXCEPT !.pc = pc]), UNCHANGED <<disk, owed, begun>>,
         could' \in [Handles -> Nat], \A k \in Handles : k # h => could'[k] = could[k],
         handle[h].pc \notin {"walk", "closed", "remove"}, handle[h].pc \in Storing <=> pc \in Storing,
         handle[h].pc \in Storing => \/ Stores(handle[h]) /\ pc # "line"
                                     \/ handle[h].slot = "probe" /\ pc \in {"refuse", "land"},
         pc = "unhold" => handle[h].frees,
         pc \in Deleting => handle[h].pc \in Deleting, pc = "deleted" => handle[h].slots = <<>>,
         pc = "land" /\ handle[h].slot \in Counted =>
           handle[h].usage + Size[handle[h].rec] + LineSize <= Quota,
         pc = "recheck" => handle[h].usage <= could'[h],
         pc = "refuse" => could'[h] + Needed(handle[h].rec) > Quota
  PROVE  SpoolInv'
<1> DEFINE s == handle[h]
<1>1. s \in Handle /\ StoreOK(h, s) /\ Shape /\ UNCHANGED <<files, lines, temps>>
  BY DEF SpoolInv, Shape, StoreInv, disk
<1>2. Turns(h, pc)
  BY <1>1, Turning
<1>3. /\ handle' \in [Handles -> Handle]
      /\ \A k \in Handles : k # h => Alike(handle'[k], handle[k], Fields)
      /\ handle'[h].pc = pc /\ handle'[h].then = s.then /\ handle'[h].usage = s.usage
      /\ handle'[h].rec = s.rec /\ handle'[h].slot = s.slot /\ handle'[h].frees = s.frees
      /\ handle'[h].match = s.match /\ handle'[h].slots = s.slots
  BY <1>2 DEF Turns, Alike, Fields
<1>4. At(handle'[h]) = pc /\ At(s) = s.pc /\ s.then = "none"
  BY <1>1, <1>3 DEF At, StoreOK
<1>5. StoreOK(h, handle'[h])
  <2>1. s.pc \in Storing => Probes(s) \/ Stores(s)
    BY <1>1, <1>4 DEF StoreOK
  <2>2. pc \in Storing => Probes(handle'[h]) \/ Stores(handle'[h])
    BY <1>1, <1>3, <1>4, <2>1 DEF Probes, Stores, HomeOf
  <2> QED BY <1>1, <1>3, <1>4, <2>2 DEF StoreOK
<1>6. DeleteOK(handle'[h], begun'[h] \cap files)
  <2>1. DeleteOK(s, begun[h] \cap files)
    BY DEF SpoolInv, DeleteInv
  <2> QED BY <1>1, <1>3, <1>4, <2>1 DEF DeleteOK
<1>7. UNCHANGED Bytes /\ UNCHANGED BytesIn("rawcalls") /\ UNCHANGED BytesIn("records")
  BY <1>1 DEF Bytes, BytesIn, In, HomeOf
<1>8. Writers = {h} => QuotaOK(handle'[h], Bytes', BytesIn("rawcalls")')
  <2> SUFFICES ASSUME Writers = {h} PROVE QuotaOK(handle'[h], Bytes', BytesIn("rawcalls")')
    OBVIOUS
  <2>1. QuotaOK(s, Bytes, BytesIn("rawcalls"))
    BY DEF SpoolInv, QuotaInv
  <2>2. Bytes <= Quota /\ Bytes <= s.usage
    BY <1>4, <2>1 DEF QuotaOK
  <2>3. pc # "line"
    BY DEF Storing
  <2> QED BY <1>3, <1>4, <1>7, <2>2, <2>3 DEF QuotaOK
<1>9. RefuseOK(handle'[h], Bytes', BytesIn("records")', could'[h])
  BY <1>3 DEF RefuseOK
<1>10. begun' \in [Handles -> SUBSET Files] /\ begun' = begun /\ temps' \in SUBSET temps /\ handle'[h].pc # "put"
  BY <1>1, <1>3 DEF Shape
<1> QED BY <1>1, <1>3, <1>5, <1>6, <1>8, <1>9, <1>10, QuietKeeps

\* What a handle has that stores, and where it may stand.
LEMMA StoringHas ==
  ASSUME SpoolInv, NEW h \in Handles, handle[h].pc \in Storing
  PROVE  /\ handle[h] \in Handle /\ h \in Writers /\ handle[h].then = "none"
         /\ \/ handle[h].slot = "probe" /\ handle[h].rec = NoRecord /\ ~handle[h].frees
            \/ Stores(handle[h]) /\ handle[h].slot \in Slots
         /\ handle[h].slot \in Counted <=> Stores(handle[h]) /\ handle[h].slot # "held"
         /\ handle[h].frees => handle[h].slot = "records"
         /\ handle[h].usage \in Int /\ Quota \in Int /\ Needed(handle[h].rec) \in Int
         /\ Stores(handle[h]) => /\ handle[h].rec \in Records /\ Size[handle[h].rec] \in Nat /\ LineSize \in Nat
                                 /\ Needed(handle[h].rec) = Size[handle[h].rec] + LineSize
<1>1. handle[h] \in Handle /\ StoreOK(h, handle[h])
  BY DEF SpoolInv, Shape, StoreInv
<1>2. handle[h].then = "none" /\ At(handle[h]) = handle[h].pc /\ h \in Writers
  BY <1>1 DEF StoreOK, Storing, At
<1>3. \/ handle[h].slot = "probe" /\ handle[h].rec = NoRecord /\ ~handle[h].frees
      \/ Stores(handle[h]) /\ handle[h].slot \in Slots
  BY <1>1, <1>2 DEF StoreOK, Probes, Stores, HomeOf, Slots
<1>4. handle[h].slot \in Counted <=> Stores(handle[h]) /\ handle[h].slot # "held"
  BY <1>3, SpoolConstants DEF Counted, Stores, HomeOf, Slots
<1>5. handle[h].frees => handle[h].slot = "records"
  BY <1>1 DEF StoreOK
<1>6. handle[h].usage \in Int /\ Quota \in Int /\ Needed(handle[h].rec) \in Int
  BY <1>1, SpoolConstants DEF Handle, Needed
<1>7. Stores(handle[h]) => /\ handle[h].rec \in Records /\ Size[handle[h].rec] \in Nat /\ LineSize \in Nat
                           /\ Needed(handle[h].rec) = Size[handle[h].rec] + LineSize
  BY SpoolConstants DEF Stores, Needed
<1> QED BY <1>1, <1>2, <1>3, <1>4, <1>5, <1>6, <1>7

\* A write that looks at what the figure says.
LEMMA JudgeKeeps ==
  ASSUME SpoolInv, NEW h \in Handles, Judge(h)
  PROVE  SpoolInv'
<1> DEFINE s == handle[h]
<1>1. s.pc = "judge" /\ s.pc \in Storing /\ UNCHANGED <<disk, begun, owed>> /\ Shape
  BY DEF Judge, Storing, SpoolInv
<1>2. /\ s \in Handle /\ h \in Writers /\ s.then = "none"
      /\ \/ s.slot = "probe" /\ s.rec = NoRecord /\ ~s.frees
         \/ Stores(s) /\ s.slot \in Slots
      /\ s.slot \in Counted <=> Stores(s) /\ s.slot # "held"
      /\ s.frees => s.slot = "records"
      /\ Stores(s) => Needed(s.rec) = Size[s.rec] + LineSize /\ Size[s.rec] \in Nat /\ LineSize \in Nat
      /\ s.usage \in Int
  BY <1>1, StoringHas
<1>3. {"done", "land"} \subseteq Pcs \ {"put", "walk", "remove"} /\ "done" \in Storing /\ "land" \in Storing
      /\ "done" \notin Deleting /\ "land" \notin Deleting /\ "recheck" \in Storing
  BY DEF Pcs, Storing, Deleting
<1>4. UNCHANGED could => could' \in [Handles -> Nat]
  BY <1>1 DEF Shape
<1>5. CASE Stored(s) /\ Goes(h, [s EXCEPT !.pc = "done"]) /\ UNCHANGED could
  <2>1. Stores(s)
    <3>1. <<s.rec, s.slot>> \in Files
      BY <1>1, <1>5 DEF Stored, Shape
    <3>2. s.slot # "probe"
      BY <3>1 DEF Files, Slots
    <3> QED BY <1>2, <3>2
  <2>2. ~(s.slot \in Counted /\ "done" = "land")
    OBVIOUS
  <2> HIDE DEF s
  <2> QED BY <1>1, <1>3, <1>4, <1>5, <2>1, TurnKeeps DEF s
<1>6. CASE /\ ~Counts(s) \/ s.usage + Needed(s.rec) <= Quota
           /\ Goes(h, [s EXCEPT !.pc = "land"]) /\ UNCHANGED could
  <2>1. s.slot \in Counted => s.usage + Size[s.rec] + LineSize <= Quota
    <3>1. \A a, b, c, d \in Int : a + (b + c) <= d => a + b + c <= d
      OBVIOUS
    <3>2. s.slot \in Counted => s.usage + (Size[s.rec] + LineSize) <= Quota
      BY <1>2, <1>6 DEF Counts
    <3> QED BY <1>2, <3>1, <3>2, SpoolConstants
  <2> HIDE DEF s
  <2> QED BY <1>1, <1>2, <1>3, <1>4, <1>6, <2>1, TurnKeeps DEF s
<1>7. CASE StartsWalk(h, s, "recheck")
  <2>1. ForStoring(s)
    BY <1>2 DEF ForStoring, Stores
  <2>2. begun' \in [Handles -> SUBSET Files] /\ begun' = begun /\ temps' \in SUBSET temps
        /\ UNCHANGED <<files, lines, owed>>
    BY <1>1 DEF Shape, disk
  <2> QED BY <1>1, <1>2, <1>3, <1>7, <2>1, <2>2, WalkKeeps
<1> QED BY <1>5, <1>6, <1>7 DEF Judge

\* A write that looks at what it derived from the disk.
LEMMA RecheckKeeps ==
  ASSUME SpoolInv, NEW h \in Handles, Recheck(h)
  PROVE  SpoolInv'
<1> DEFINE s == handle[h]
<1>1. s.pc = "recheck" /\ s.pc \in Storing /\ UNCHANGED <<disk, begun, owed>> /\ Shape
      /\ RefuseOK(s, Bytes, BytesIn("records"), could[h]) /\ could \in [Handles -> Nat]
  BY DEF Recheck, Storing, SpoolInv, RefuseInv, Shape
<1>2. /\ \/ s.slot = "probe" /\ s.rec = NoRecord /\ ~s.frees
         \/ Stores(s) /\ s.slot \in Slots
      /\ s.slot \in Counted <=> Stores(s) /\ s.slot # "held"
      /\ Stores(s) => Needed(s.rec) = Size[s.rec] + LineSize /\ Size[s.rec] \in Int /\ LineSize \in Int
      /\ s.usage \in Int /\ Needed(s.rec) \in Int /\ Quota \in Int
  BY <1>1, StoringHas
<1>3. {"refuse", "land"} \subseteq Pcs \ {"put", "walk", "remove"} /\ "refuse" \in Storing /\ "land" \in Storing
      /\ "refuse" \notin Deleting /\ "land" \notin Deleting
  BY DEF Pcs, Storing, Deleting
<1>4. s.usage <= could[h] /\ could[h] \in Int
  BY <1>1 DEF RefuseOK
<1> HIDE DEF s
<1>5. CASE s.usage + Needed(s.rec) > Quota
  <2>1. Goes(h, [s EXCEPT !.pc = "refuse"]) /\ UNCHANGED could
    BY <1>5 DEF Recheck, s
  <2>2. could'[h] + Needed(s.rec) > Quota
    BY <1>2, <1>4, <1>5, <2>1
  <2> QED BY <1>1, <1>2, <1>3, <2>1, <2>2, TurnKeeps DEF s
<1>6. CASE ~(s.usage + Needed(s.rec) > Quota)
  <2>1. Goes(h, [s EXCEPT !.pc = "land"]) /\ could' = [could EXCEPT ![h] = 0]
    BY <1>6 DEF Recheck, s
  <2>2. s.slot \in Counted => s.usage + Size[s.rec] + LineSize <= Quota
    <3>1. \A a, b, c, d \in Int : ~(a + (b + c) > d) => a + b + c <= d
      OBVIOUS
    <3> QED BY <1>2, <1>6, <3>1
  <2>3. could' \in [Handles -> Nat] /\ \A k \in Handles : k # h => could'[k] = could[k]
    BY <1>1, <2>1
  <2> QED BY <1>1, <1>2, <1>3, <2>1, <2>2, <2>3, TurnKeeps DEF s
<1> QED BY <1>5, <1>6

\* An operation that ends, or dies, leaves its handle at rest.
LEMMA RestKeeps ==
  ASSUME SpoolInv, NEW h \in Handles, NEW t \in Handle, NEW pc \in {"idle", "closed"},
         Rests(t, pc, t.usage), pc = "idle" => t.usage = handle[h].usage /\ handle[h].pc # "closed" /\ handle[h].then = "none",
         Goes(h, t), UNCHANGED <<disk, owed>>,
         begun' \in [Handles -> SUBSET Files], \A k \in Handles : k # h => begun'[k] = begun[k],
         could' \in [Handles -> Nat], \A k \in Handles : k # h => could'[k] = could[k]
  PROVE  SpoolInv'
<1>1. Shape /\ UNCHANGED <<files, lines, temps>>
  BY DEF SpoolInv, disk
<1>2. Becomes(h, t)
  BY <1>1, GoesTo
<1>3. /\ handle' \in [Handles -> Handle]
      /\ \A k \in Handles : k # h => Alike(handle'[k], handle[k], Fields)
      /\ handle'[h].pc = pc /\ handle'[h].then = "none" /\ handle'[h].usage = t.usage
      /\ handle'[h].rec = NoRecord /\ ~handle'[h].frees
  BY <1>2 DEF Becomes, Alike, Fields, Rests
<1>4. At(handle'[h]) = pc /\ pc \notin Storing /\ pc \notin Deleting /\ pc # "deleted" /\ pc # "remove"
      /\ pc # "put" /\ pc # "walk" /\ pc # "unhold"
  BY <1>3 DEF At, Storing, Deleting
<1>5. StoreOK(h, handle'[h])
  BY <1>3, <1>4 DEF StoreOK
<1>6. DeleteOK(handle'[h], begun'[h] \cap files)
  BY <1>3, <1>4 DEF DeleteOK
<1>7. UNCHANGED Bytes /\ UNCHANGED BytesIn("rawcalls") /\ UNCHANGED BytesIn("records")
  BY <1>1 DEF Bytes, BytesIn, In, HomeOf
<1>8. Writers = {h} => QuotaOK(handle'[h], Bytes', BytesIn("rawcalls")')
  <2> SUFFICES ASSUME Writers = {h} PROVE QuotaOK(handle'[h], Bytes', BytesIn("rawcalls")')
    OBVIOUS
  <2>1. QuotaOK(handle[h], Bytes, BytesIn("rawcalls"))
    BY DEF SpoolInv, QuotaInv
  <2>2. Bytes <= Quota /\ (pc = "idle" => Bytes <= handle'[h].usage)
    BY <1>3, <2>1 DEF QuotaOK
  <2> QED BY <1>3, <1>7, <2>2 DEF QuotaOK
<1>9. RefuseOK(handle'[h], Bytes', BytesIn("records")', could'[h])
  BY <1>3 DEF RefuseOK
<1> QED BY <1>1, <1>3, <1>4, <1>5, <1>6, <1>8, <1>9, QuietKeeps

\* The steps that end an operation, and a death that leaves no file behind.
LEMMA EndsKeep ==
  ASSUME SpoolInv, NEW h \in Handles,
         \/ Refuse(h) \/ Probed(h) \/ Done(h) \/ Deleted(h)
         \/ Crash(h) /\ UNCHANGED temps /\ could' = [could EXCEPT ![h] = 0]
  PROVE  SpoolInv'
<1> DEFINE s == handle[h]
<1>1. s \in Handle /\ StoreOK(h, s) /\ Shape /\ begun \in [Handles -> SUBSET Files] /\ could \in [Handles -> Nat]
  BY DEF SpoolInv, Shape, StoreInv
<1>2. /\ Ended(s) \in Handle /\ Left(s) \in Handle /\ Closed \in Handle
      /\ Rests(Ended(s), "idle", s.usage) /\ Rests(Left(s), "idle", s.usage) /\ Rests(Closed, "closed", 0)
      /\ Ended(s).usage = s.usage /\ Left(s).usage = s.usage /\ Closed.usage = 0
  BY <1>1, Resting DEF Rests
<1>3. s.pc # "walk" => s.then = "none"
  BY <1>1 DEF StoreOK
<1>4. /\ [begun EXCEPT ![h] = {}] \in [Handles -> SUBSET Files]
      /\ \A k \in Handles : k # h => [begun EXCEPT ![h] = {}][k] = begun[k]
      /\ [could EXCEPT ![h] = 0] \in [Handles -> Nat]
      /\ \A k \in Handles : k # h => [could EXCEPT ![h] = 0][k] = could[k]
  BY <1>1
<1> HIDE DEF s
<1>5. CASE Refuse(h)
  <2>1. s.pc = "refuse" /\ Goes(h, Left(s)) /\ could' = [could EXCEPT ![h] = 0] /\ UNCHANGED <<disk, owed, begun>>
    BY <1>5 DEF Refuse, s
  <2> QED BY <1>1, <1>2, <1>3, <1>4, <2>1, RestKeeps DEF s
<1>6. CASE Probed(h)
  <2>1. s.pc = "land" /\ Goes(h, Left(s)) /\ UNCHANGED <<disk, owed, begun, could>>
    BY <1>6 DEF Probed, s, history
  <2> QED BY <1>1, <1>2, <1>3, <2>1, RestKeeps DEF s
<1>7. CASE Done(h) /\ ~s.frees
  <2>1. s.pc = "done" /\ Goes(h, Ended(s)) /\ UNCHANGED <<disk, owed, begun, could>>
    BY <1>7 DEF Done, s, history
  <2> QED BY <1>1, <1>2, <1>3, <2>1, RestKeeps DEF s
<1>8. CASE Done(h) /\ s.frees
  <2>1. s.pc = "done" /\ Goes(h, [s EXCEPT !.pc = "unhold"]) /\ UNCHANGED <<disk, owed, begun>> /\ could' = could
    BY <1>8 DEF Done, s, history
  <2>2. "unhold" \in Pcs \ {"put", "walk", "remove"} /\ "unhold" \in Storing /\ "done" \in Storing /\ "unhold" \notin Deleting
    BY DEF Pcs, Storing, Deleting
  <2>3. Stores(s)
    <3>1. At(s) = "done"
      BY <2>1 DEF At
    <3> QED BY <1>1, <2>2, <3>1 DEF StoreOK, Probes
  <2>4. could' \in [Handles -> Nat] /\ \A k \in Handles : k # h => could'[k] = could[k]
    BY <1>1, <2>1
  <2> QED BY <1>8, <2>1, <2>2, <2>3, <2>4, TurnKeeps DEF s
<1>9. CASE Deleted(h)
  <2>1. s.pc = "deleted" /\ Goes(h, Ended(s)) /\ UNCHANGED <<disk, owed, could>> /\ begun' = [begun EXCEPT ![h] = {}]
    BY <1>9 DEF Deleted, s
  <2> QED BY <1>1, <1>2, <1>3, <1>4, <2>1, RestKeeps DEF s
<1>10. CASE Crash(h) /\ UNCHANGED temps /\ could' = [could EXCEPT ![h] = 0]
  <2>1. Goes(h, Closed) /\ UNCHANGED <<disk, owed>> /\ begun' = [begun EXCEPT ![h] = {}]
    BY <1>10 DEF Crash, disk
  <2> QED BY <1>1, <1>2, <1>4, <1>10, <2>1, RestKeeps
<1> QED BY <1>5, <1>6, <1>7, <1>8, <1>9, <1>10

\* A deletion moves on from slot to slot.
LEMMA DeletingKeeps ==
  ASSUME SpoolInv, NEW h \in Handles, NEW t \in Handle, Goes(h, t), UNCHANGED <<disk, history>>,
         handle[h].pc \in Deleting, t.pc \in Deleting \ {"put"},
         Alike(t, handle[h], Fields \ {"pc", "slot", "slots", "todo", "gone"}),
         DeleteOK(t, begun[h] \cap files)
  PROVE  SpoolInv'
<1> DEFINE s == handle[h]
<1>1. s \in Handle /\ StoreOK(h, s) /\ Shape /\ UNCHANGED <<files, lines, temps, owed, begun, could>>
  BY DEF SpoolInv, Shape, StoreInv, disk, history
<1>2. Becomes(h, t)
  BY <1>1, GoesTo
<1>3. /\ handle' \in [Handles -> Handle]
      /\ \A k \in Handles : k # h => Alike(handle'[k], handle[k], Fields)
      /\ Alike(handle'[h], t, Fields)
      /\ handle'[h].pc = t.pc /\ handle'[h].then = s.then /\ handle'[h].usage = s.usage
      /\ handle'[h].rec = s.rec /\ handle'[h].frees = s.frees
  BY <1>2 DEF Becomes, Alike, Fields
<1>4. /\ s.pc \notin Storing /\ s.pc # "walk" /\ t.pc \notin Storing /\ t.pc # "walk" /\ t.pc # "put"
      /\ t.pc \notin {"closed", "land", "line", "refuse", "recheck", "unhold"} /\ s.pc # "closed"
  BY DEF Deleting, Storing
<1>5. s.then = "none" /\ s.rec = NoRecord /\ ~s.frees
  BY <1>1, <1>4 DEF StoreOK, At
<1>6. StoreOK(h, handle'[h])
  BY <1>3, <1>4, <1>5 DEF StoreOK, At
<1>7. DeleteOK(handle'[h], begun'[h] \cap files)
  <2>1. begun'[h] \cap files \in SUBSET (begun[h] \cap files)
    BY <1>1
  <2>2. handle'[h] \in Handle
    BY <1>3
  <2> QED BY <1>3, <2>1, <2>2, AlikeKeeps
<1>8. UNCHANGED Bytes /\ UNCHANGED BytesIn("rawcalls") /\ UNCHANGED BytesIn("records")
  BY <1>1 DEF Bytes, BytesIn, In, HomeOf
<1>9. Writers = {h} => QuotaOK(handle'[h], Bytes', BytesIn("rawcalls")')
  <2> SUFFICES ASSUME Writers = {h} PROVE QuotaOK(handle'[h], Bytes', BytesIn("rawcalls")')
    OBVIOUS
  <2>1. QuotaOK(handle[h], Bytes, BytesIn("rawcalls"))
    BY DEF SpoolInv, QuotaInv
  <2>2. Bytes <= Quota /\ Bytes <= handle'[h].usage
    BY <1>3, <1>4, <1>5, <2>1 DEF QuotaOK
  <2> QED BY <1>3, <1>4, <1>8, <2>2 DEF QuotaOK
<1>10. RefuseOK(handle'[h], Bytes', BytesIn("records")', could'[h])
  BY <1>3, <1>4 DEF RefuseOK
<1>11. /\ begun' \in [Handles -> SUBSET Files] /\ begun' = begun /\ could' \in [Handles -> Nat] /\ could' = could
       /\ temps' \in SUBSET temps /\ handle'[h].pc # "put"
  BY <1>1, <1>3, <1>4 DEF Shape
<1> QED BY <1>1, <1>3, <1>6, <1>7, <1>9, <1>10, <1>11, QuietKeeps

\* The next slot is listed: what was addressed there is to do.
LEMMA ListKeeps ==
  ASSUME SpoolInv, NEW h \in Handles, List(h)
  PROVE  SpoolInv'
<1> DEFINE s == handle[h]
           to == Head(s.slots)   rest == Tail(s.slots)   todo == s.match \cap In(to)
           t == [s EXCEPT !.pc = "remove", !.slot = to, !.slots = rest, !.todo = todo, !.gone = {}]
<1>1. s \in Handle /\ StoreOK(h, s) /\ s.pc = "list" /\ s.slots # <<>> /\ s.slots \in Orders
      /\ UNCHANGED <<disk, history>> /\ begun \in [Handles -> SUBSET Files]
      /\ DeleteOK(s, begun[h] \cap files)
  BY DEF SpoolInv, Shape, StoreInv, DeleteInv, List, Handle
<1>2. Goes(h, t)
  BY DEF List
<1>3. to \in Slots /\ rest \in Orders /\ \A f : (\E i \in DOMAIN s.slots : s.slots[i] = f)
                                               => f = to \/ \E i \in DOMAIN rest : rest[i] = f
  <2>1. CASE s.slots \in {<<"rawcalls">>, <<"records">>, <<"held">>}
    <3>1. PICK a \in Slots : s.slots = <<a>>
      BY <2>1 DEF Slots
    <3>2. Head(<<a>>) = a /\ Tail(<<a>>) = <<>> /\ DOMAIN <<a>> = {1} /\ <<a>>[1] = a
      OBVIOUS
    <3> HIDE DEF s
    <3>3. to = a /\ rest = <<>> /\ \A i \in DOMAIN s.slots : s.slots[i] = a
      BY <3>1, <3>2
    <3> HIDE DEF to, rest
    <3> QED BY <3>3 DEF Orders
  <2>2. CASE s.slots = <<"records", "held">>
    BY <2>2 DEF Orders, Slots
  <2>3. CASE s.slots = <<"rawcalls", "records", "held">>
    BY <2>3 DEF Orders, Slots
  <2> QED BY <1>1, <2>1, <2>2, <2>3 DEF Orders
<1>4. todo \in SUBSET Records
  BY DEF In
<1>5. t \in Handle /\ t.pc = "remove" /\ t.slot = to /\ t.slots = rest /\ t.todo = todo /\ t.match = s.match
      /\ t.then = s.then /\ Alike(t, s, Fields \ {"pc", "slot", "slots", "todo", "gone"})
  <2> HIDE DEF s, to, rest, todo
  <2> QED BY <1>1, <1>3, <1>4 DEF Handle, Alike, Fields, Pcs
<1>6. DeleteOK(t, begun[h] \cap files)
  <2>1. At(s) = "list" /\ At(t) = "remove" /\ "list" \in Deleting
    BY <1>1, <1>5 DEF At, Deleting
  <2>2. ASSUME NEW f \in begun[h] \cap files
        PROVE  /\ f[1] \in t.match
               /\ \/ \E i \in DOMAIN t.slots : t.slots[i] = f[2]
                  \/ t.pc = "remove" /\ f[2] = t.slot /\ f[1] \in t.todo
    <3>1. f[1] \in s.match /\ \E i \in DOMAIN s.slots : s.slots[i] = f[2]
      BY <1>1, <2>1 DEF DeleteOK
    <3>2. f \in Files /\ f \in files
      BY <1>1
    <3>3. f = <<f[1], f[2]>> /\ f[1] \in Records
      BY <3>2 DEF Files
    <3>4. f[2] = to => f[1] \in todo
      BY <3>1, <3>2, <3>3 DEF In
    <3> HIDE DEF s, to, rest, todo, t
    <3> QED BY <1>3, <1>5, <3>1, <3>4
  <2> HIDE DEF t, to
  <2> QED BY <1>3, <1>5, <2>2 DEF DeleteOK
<1>7. "list" \in Deleting /\ "remove" \in Deleting \ {"put"}
  BY DEF Deleting
<1> HIDE DEF t
<1> QED BY <1>1, <1>2, <1>5, <1>6, <1>7, DeletingKeeps

\* A deletion has no slot left, or nothing to take out of an index.
LEMMA MovesOn ==
  ASSUME SpoolInv, NEW h \in Handles,
         \/ Listed(h)
         \/ ReadIndex(h) /\ Goes(h, [handle[h] EXCEPT !.pc = "list"])
  PROVE  SpoolInv'
<1> DEFINE s == handle[h]
           t(pc) == [s EXCEPT !.pc = pc]
<1>1. s \in Handle /\ StoreOK(h, s) /\ DeleteOK(s, begun[h] \cap files)
  BY DEF SpoolInv, Shape, StoreInv, DeleteInv
<1>2. ASSUME NEW pc \in {"list", "deleted"}
      PROVE  t(pc) \in Handle /\ t(pc).pc = pc /\ t(pc).slots = s.slots /\ t(pc).match = s.match /\ t(pc).then = s.then
             /\ Alike(t(pc), s, Fields \ {"pc", "slot", "slots", "todo", "gone"})
  <2> HIDE DEF s
  <2> QED BY <1>1 DEF Handle, Alike, Fields, Pcs
<1>3. {"list", "remove", "deleted"} \subseteq Deleting /\ {"list", "deleted"} \subseteq Deleting \ {"put"}
  BY DEF Deleting
<1> HIDE DEF t
<1>4. CASE Listed(h)
  <2>1. s.pc = "list" /\ s.slots = <<>> /\ Goes(h, t("deleted")) /\ UNCHANGED <<disk, history>>
    BY <1>4 DEF Listed, t
  <2>2. At(s) = "list" /\ At(t("deleted")) = "deleted"
    BY <1>2, <2>1 DEF At
  <2>3. DeleteOK(t("deleted"), begun[h] \cap files)
    BY <1>1, <1>2, <1>3, <2>1, <2>2 DEF DeleteOK
  <2> QED BY <1>2, <1>3, <2>1, <2>3, DeletingKeeps
<1>5. CASE ReadIndex(h) /\ Goes(h, t("list"))
  <2>1. s.pc = "remove" /\ s.todo = {} /\ Goes(h, t("list")) /\ UNCHANGED <<disk, history>>
    BY <1>5 DEF ReadIndex
  <2>2. At(s) = "remove" /\ At(t("list")) = "list"
    BY <1>2, <2>1 DEF At
  <2>3. DeleteOK(t("list"), begun[h] \cap files)
    BY <1>1, <1>2, <1>3, <2>1, <2>2 DEF DeleteOK
  <2> QED BY <1>2, <1>3, <2>1, <2>3, DeletingKeeps
<1> QED BY <1>4, <1>5 DEF t

-----------------------------------------------------------------------------
(* The steps that change files or lines. *)

\* What a step adds to one slot is the most it adds to any, and to both that
\* are counted.
LEMMA Grew ==
  ASSUME Shape, Shape', NEW n \in Nat, NEW at,
         \A slot : BytesIn(slot)' <= BytesIn(slot) + (IF slot = at THEN n ELSE 0)
  PROVE  /\ Bytes \in Nat /\ Bytes' \in Nat /\ Bytes' <= Bytes + n
         /\ at \notin Counted => Bytes' <= Bytes
         /\ BytesIn("rawcalls")' <= BytesIn("rawcalls") + n
         /\ BytesIn("records")' <= BytesIn("records") + n
<1>1. \A slot : BytesIn(slot) \in Nat /\ BytesIn(slot)' \in Nat
  BY BytesWeigh, WeighLess DEF Shape
<1>2. /\ BytesIn("rawcalls")' <= BytesIn("rawcalls") + (IF "rawcalls" = at THEN n ELSE 0)
      /\ BytesIn("records")' <= BytesIn("records") + (IF "records" = at THEN n ELSE 0)
  OBVIOUS
<1>3. /\ BytesIn("rawcalls") \in Nat /\ BytesIn("rawcalls")' \in Nat
      /\ BytesIn("records") \in Nat /\ BytesIn("records")' \in Nat
  BY <1>1
<1>4. Bytes = BytesIn("rawcalls") + BytesIn("records") /\ Bytes' = BytesIn("rawcalls")' + BytesIn("records")'
  BY DEF Bytes
<1>5. \A a, b, c, d, m \in Nat : \A x, y \in {0, m} :
        a <= b + x /\ c <= d + y /\ (x = 0 \/ y = 0)
        => a + c <= (b + d) + m /\ a <= b + m /\ c <= d + m /\ (x = 0 /\ y = 0 => a + c <= b + d)
  OBVIOUS
<1> DEFINE x == IF "rawcalls" = at THEN n ELSE 0
           y == IF "records" = at THEN n ELSE 0
<1>6. x \in {0, n} /\ y \in {0, n} /\ (x = 0 \/ y = 0) /\ (at \notin Counted => x = 0 /\ y = 0)
  BY DEF Counted
<1>7. BytesIn("rawcalls")' <= BytesIn("rawcalls") + x /\ BytesIn("records")' <= BytesIn("records") + y
  BY <1>2
<1> HIDE DEF x, y
<1> QED BY <1>3, <1>4, <1>5, <1>6, <1>7

\* Where bytes land, those that look take them into account.
LEMMA LandsAre ==
  ASSUME Shape, NEW n \in Nat, Lands(n)
  PROVE  /\ could' \in [Handles -> Nat]
         /\ \A k \in Handles : Looks(handle[k]) => could'[k] = could[k] + n
<1>1. could \in [Handles -> Nat]
  BY DEF Shape
<1>2. \A k \in Handles : could'[k] = IF Looks(handle[k]) THEN could[k] + n ELSE 0
  BY DEF Lands, Looks
<1>3. could' = [k \in Handles |-> IF Looks(handle[k]) THEN could[k] + n ELSE 0]
  BY DEF Lands, Looks
<1> QED BY <1>1, <1>2, <1>3

\* A file lands.
LEMMA LandKeeps ==
  ASSUME SpoolInv, NEW h \in Handles, Land(h)
  PROVE  SpoolInv'
<1> DEFINE s == handle[h]
           pc == IF Counts(s) THEN "line" ELSE "done"
           usage == IF Counts(s) THEN s.usage + Size[s.rec] ELSE s.usage
           t == [s EXCEPT !.pc = pc, !.usage = usage]
           n == Size[s.rec]
<1>1. s.pc = "land" /\ s.pc \in Storing /\ s.slot # "probe" /\ Shape /\ PlaceInv /\ IndexInv
      /\ files' = files \cup {<<s.rec, s.slot>>} /\ owed' = owed \cup {s.rec} /\ UNCHANGED <<lines, temps>>
      /\ Lands(Size[s.rec])
  BY DEF Land, Storing, SpoolInv
<1>2. begun' = [k \in Handles |-> {f \in begun[k] : f # <<s.rec, s.slot>> /\ (s.frees \/ f[1] # s.rec)}]
  BY DEF Land
<1>3. /\ s \in Handle /\ h \in Writers /\ s.then = "none" /\ Stores(s) /\ s.slot \in Slots
      /\ s.slot \in Counted <=> s.slot # "held"
      /\ s.frees => s.slot = "records"
      /\ s.usage \in Int /\ Quota \in Int
      /\ s.rec \in Records /\ Size[s.rec] \in Nat /\ LineSize \in Nat
  BY <1>1, StoringHas
<1>4. PICK missed \in SUBSET (Writers \ {h}) : Changes(h, t, missed)
  BY DEF Land
<1>5. t \in Handle /\ t.pc = pc /\ t.usage = usage /\ Alike(t, s, Fields \ {"pc", "usage"})
  <2>1. pc \in Pcs /\ usage \in Int
    BY <1>3 DEF Pcs
  <2> HIDE DEF s, pc, usage
  <2> QED BY <1>3, <2>1 DEF Handle, Alike, Fields
<1>6. Becomes(h, t)
  <2> HIDE DEF t
  <2> QED BY <1>1, <1>4, <1>5, ChangesTo
<1> HIDE DEF t
<1>7. /\ handle' \in [Handles -> Handle]
      /\ \A k \in Handles : k # h => Alike(handle'[k], handle[k], Fields)
      /\ handle'[h].pc = pc /\ handle'[h].then = "none" /\ handle'[h].usage = usage
      /\ handle'[h].rec = s.rec /\ handle'[h].slot = s.slot /\ handle'[h].frees = s.frees
  BY <1>3, <1>5, <1>6 DEF Becomes, Alike, Fields
<1>8. /\ could' \in [Handles -> Nat] /\ \A k \in Handles : k # h /\ Looks(handle[k]) => could'[k] = could[k] + n
      /\ n \in Nat
  BY <1>1, <1>3, LandsAre
<1>9. Shape'
  <2>1. files' \in SUBSET Files /\ owed' \in SUBSET Records
    BY <1>1, <1>3 DEF Shape, Files
  <2>2. begun' \in [Handles -> SUBSET Files]
    BY <1>1, <1>2 DEF Shape
  <2> QED BY <1>1, <1>7, <1>8, <2>1, <2>2 DEF Shape
<1>10. \A k \in Handles : begun'[k] \cap files' \subseteq begun[k] \cap files
  BY <1>1, <1>2
<1>11. ASSUME NEW slot PROVE BytesIn(slot)' <= BytesIn(slot) + (IF slot = s.slot THEN n ELSE 0)
  <2>1. Weigh(files \cup {<<s.rec, s.slot>>}, temps, lines, slot) <= Weigh(files, temps, lines, slot) + (IF slot = s.slot THEN Size[s.rec] ELSE 0)
    BY <1>1, <1>3, WeighMore DEF Shape
  <2> QED BY <1>1, <2>1, BytesWeigh
<1>12. /\ Bytes \in Nat /\ Bytes' \in Nat /\ Bytes' <= Bytes + n
       /\ s.slot \notin Counted => Bytes' <= Bytes
       /\ BytesIn("rawcalls")' <= BytesIn("rawcalls") + n
       /\ BytesIn("records")' <= BytesIn("records") + n
  <2> HIDE DEF n
  <2> QED BY <1>1, <1>8, <1>9, <1>11, Grew
<1>13. PlaceInv'
  BY <1>1, <1>3 DEF PlaceInv, Stores, HomeOf
<1>14. pc # "put" /\ pc \in Storing /\ pc # "unhold" /\ pc # "walk" /\ pc \notin Deleting /\ At(handle'[h]) = pc
       /\ pc \notin {"recheck", "refuse", "land", "closed", "deleted", "remove"}
  BY <1>7 DEF Storing, Deleting, At
<1>15. IndexInv'
  BY <1>1, <1>7, <1>14, IndexKeeps
<1>16. StoreOK(h, handle'[h])
  <2>1. Stores(handle'[h])
    BY <1>3, <1>7, <1>14 DEF Stores, Counts, HomeOf
  <2> QED BY <1>3, <1>7, <1>14, <2>1 DEF StoreOK
<1>17. DeleteOK(handle'[h], begun'[h] \cap files')
  BY <1>7, <1>14 DEF DeleteOK
<1>18. RefuseOK(handle'[h], Bytes', BytesIn("records")', could'[h])
  BY <1>7, <1>14 DEF RefuseOK
<1>19. Writers = {h} => QuotaOK(handle'[h], Bytes', BytesIn("rawcalls")')
  <2> SUFFICES ASSUME Writers = {h} PROVE QuotaOK(handle'[h], Bytes', BytesIn("rawcalls")')
    OBVIOUS
  <2>1. QuotaOK(s, Bytes, BytesIn("rawcalls"))
    BY DEF SpoolInv, QuotaInv
  <2>2. Bytes <= Quota /\ Bytes <= s.usage /\ (s.slot \in Counted => s.usage + Size[s.rec] + LineSize <= Quota)
    BY <1>1, <1>3, <2>1 DEF QuotaOK
  <2>3. Bytes' <= Quota /\ Bytes' <= usage /\ (pc = "line" => usage + LineSize <= Quota)
    <3> HIDE DEF s
    <3>1. CASE Counts(s)
      <4>1. s.slot \in Counted /\ usage = s.usage + n
        BY <1>3, <3>1 DEF Counts
      <4> HIDE DEF usage
      <4>2. s.usage + n + LineSize <= Quota
        BY <2>2, <4>1
      <4> HIDE DEF n
      <4> QED BY <1>3, <1>8, <1>12, <2>2, <4>1, <4>2
    <3>2. CASE ~Counts(s)
      <4>1. s.slot \notin Counted /\ usage = s.usage /\ pc # "line"
        BY <1>3, <3>2 DEF Counts
      <4> HIDE DEF usage, pc
      <4> QED BY <1>3, <1>12, <2>2, <4>1
    <3> QED BY <3>1, <3>2
  <2> QED BY <1>7, <1>14, <2>3 DEF QuotaOK
<1> HIDE DEF n
<1> QED BY <1>3, <1>7, <1>8, <1>9, <1>10, <1>12, <1>13, <1>15, <1>16, <1>17, <1>18, <1>19, StepKeeps

\* A line follows its file.
LEMMA AddLineKeeps ==
  ASSUME SpoolInv, NEW h \in Handles, AddLine(h)
  PROVE  SpoolInv'
<1> DEFINE s == handle[h]
           usage == s.usage + LineSize
           t == [s EXCEPT !.pc = "done", !.usage = usage]
<1>1. s.pc = "line" /\ s.pc \in Storing /\ Shape /\ PlaceInv /\ IndexInv
      /\ lines' = lines \cup {s.rec} /\ UNCHANGED <<files, temps, begun, owed>>
      /\ Lands(LineSize)
  BY DEF AddLine, Storing, SpoolInv
<1>2. /\ s \in Handle /\ h \in Writers /\ s.then = "none"
      /\ s.frees => s.slot = "records"
      /\ s.usage \in Int /\ Quota \in Int /\ LineSize \in Nat
  BY <1>1, StoringHas, SpoolConstants
<1>3. Stores(s) /\ s.rec \in Records /\ s.slot = HomeOf(s.rec)
  <2>1. StoreOK(h, s) /\ At(s) = "line"
    BY <1>1 DEF SpoolInv, StoreInv, At
  <2> QED BY <1>1, <2>1 DEF StoreOK, Probes, Stores
<1>4. PICK missed : Changes(h, t, missed)
  BY DEF AddLine
<1>5. t \in Handle /\ t.pc = "done" /\ t.usage = usage /\ Alike(t, s, Fields \ {"pc", "usage"})
  <2>1. usage \in Int
    BY <1>2
  <2> HIDE DEF s, usage
  <2> QED BY <1>2, <2>1 DEF Handle, Alike, Fields, Pcs
<1>6. Becomes(h, t)
  <2> HIDE DEF t
  <2> QED BY <1>1, <1>4, <1>5, ChangesTo
<1> HIDE DEF t
<1>7. /\ handle' \in [Handles -> Handle]
      /\ \A k \in Handles : k # h => Alike(handle'[k], handle[k], Fields)
      /\ handle'[h].pc = "done" /\ handle'[h].then = "none" /\ handle'[h].usage = usage
      /\ handle'[h].rec = s.rec /\ handle'[h].slot = s.slot /\ handle'[h].frees = s.frees
  BY <1>2, <1>5, <1>6 DEF Becomes, Alike, Fields
<1>8. /\ could' \in [Handles -> Nat]
      /\ \A k \in Handles : k # h /\ Looks(handle[k]) => could'[k] = could[k] + LineSize
  BY <1>1, <1>2, LandsAre
<1>9. Shape'
  BY <1>1, <1>3, <1>7, <1>8 DEF Shape
<1>10. \A k \in Handles : begun'[k] \cap files' \subseteq begun[k] \cap files
  BY <1>1
<1>11. ASSUME NEW slot PROVE BytesIn(slot)' <= BytesIn(slot) + (IF slot = s.slot THEN LineSize ELSE 0)
  <2>1. Weigh(files, temps, lines \cup {s.rec}, slot) <= Weigh(files, temps, lines, slot) + (IF slot = HomeOf(s.rec) THEN LineSize ELSE 0)
    BY <1>1, <1>3, WeighMore DEF Shape
  <2> QED BY <1>1, <1>3, <2>1, BytesWeigh
<1>12. /\ Bytes \in Nat /\ Bytes' \in Nat /\ Bytes' <= Bytes + LineSize
       /\ BytesIn("rawcalls")' <= BytesIn("rawcalls") + LineSize
       /\ BytesIn("records")' <= BytesIn("records") + LineSize
  BY <1>1, <1>2, <1>9, <1>11, Grew
<1>13. PlaceInv'
  BY <1>1 DEF PlaceInv, HomeOf
<1>14. "done" \in Storing /\ "done" \notin Deleting /\ At(handle'[h]) = "done"
  BY <1>7 DEF Storing, Deleting, At
<1>15. IndexInv'
  BY <1>1, <1>7, IndexKeeps
<1>16. StoreOK(h, handle'[h])
  <2>1. Stores(handle'[h])
    BY <1>3, <1>7, <1>14 DEF Stores, HomeOf
  <2> QED BY <1>2, <1>7, <1>14, <2>1 DEF StoreOK
<1>17. DeleteOK(handle'[h], begun'[h] \cap files')
  BY <1>7, <1>14 DEF DeleteOK
<1>18. RefuseOK(handle'[h], Bytes', BytesIn("records")', could'[h])
  BY <1>7 DEF RefuseOK
<1>19. Writers = {h} => QuotaOK(handle'[h], Bytes', BytesIn("rawcalls")')
  <2> SUFFICES ASSUME Writers = {h} PROVE QuotaOK(handle'[h], Bytes', BytesIn("rawcalls")')
    OBVIOUS
  <2>1. QuotaOK(s, Bytes, BytesIn("rawcalls"))
    BY DEF SpoolInv, QuotaInv
  <2>2. Bytes <= s.usage /\ s.usage + LineSize <= Quota
    BY <1>1, <1>2, <2>1 DEF QuotaOK
  <2>3. Bytes' <= Quota /\ Bytes' <= usage
    <3> HIDE DEF s
    <3> QED BY <1>2, <1>12, <2>2
  <2> QED BY <1>7, <2>3 DEF QuotaOK
<1> QED BY <1>2, <1>7, <1>8, <1>9, <1>10, <1>12, <1>13, <1>15, <1>16, <1>17, <1>18, <1>19, StepKeeps

\* A temporary file a writer that dies leaves behind.
LEMMA StrandedKeeps ==
  ASSUME SpoolInv, NEW h \in Handles, Crash(h),
         handle[h].pc = "land", handle[h].slot # "probe", Counts(handle[h]),
         temps' = temps \cup {handle[h].rec}, Lands(Size[handle[h].rec])
  PROVE  SpoolInv'
<1> DEFINE s == handle[h]
           n == Size[s.rec]
<1>1. s.pc \in Storing /\ Shape /\ PlaceInv /\ IndexInv /\ Goes(h, Closed)
      /\ UNCHANGED <<files, lines, owed>> /\ begun' = [begun EXCEPT ![h] = {}]
  BY DEF Crash, Storing, SpoolInv
<1>2. /\ s \in Handle /\ h \in Writers /\ Stores(s) /\ s.slot \in Counted /\ s.then = "none"
      /\ s.rec \in Records /\ n \in Nat /\ LineSize \in Nat /\ s.usage \in Int /\ Quota \in Int
  BY <1>1, StoringHas DEF Counts
<1>3. Closed \in Handle /\ Rests(Closed, "closed", 0)
  BY <1>2, Resting
<1>4. Becomes(h, Closed)
  BY <1>1, <1>3, GoesTo
<1>5. /\ handle' \in [Handles -> Handle]
      /\ \A k \in Handles : k # h => Alike(handle'[k], handle[k], Fields)
      /\ handle'[h].pc = "closed" /\ handle'[h].then = "none" /\ handle'[h].rec = NoRecord /\ ~handle'[h].frees
  BY <1>3, <1>4 DEF Becomes, Alike, Fields, Rests
<1>6. /\ could' \in [Handles -> Nat] /\ \A k \in Handles : k # h /\ Looks(handle[k]) => could'[k] = could[k] + n
  BY <1>1, <1>2, LandsAre
<1>7. Shape'
  BY <1>1, <1>2, <1>5, <1>6 DEF Shape
<1>8. \A k \in Handles : k # h => begun'[k] \cap files' \subseteq begun[k] \cap files
  BY <1>1 DEF Shape
<1>9. ASSUME NEW slot PROVE BytesIn(slot)' <= BytesIn(slot) + (IF slot = HomeOf(s.rec) THEN n ELSE 0)
  <2>1. Weigh(files, temps \cup {s.rec}, lines, slot) <= Weigh(files, temps, lines, slot) + (IF slot = HomeOf(s.rec) THEN Size[s.rec] ELSE 0)
    BY <1>1, <1>2, WeighMore DEF Shape
  <2> QED BY <1>1, <2>1, BytesWeigh
<1> HIDE DEF n
<1>10. /\ Bytes \in Nat /\ Bytes' \in Nat /\ Bytes' <= Bytes + n
       /\ BytesIn("rawcalls")' <= BytesIn("rawcalls") + n
       /\ BytesIn("records")' <= BytesIn("records") + n
  BY <1>1, <1>2, <1>7, <1>9, Grew
<1>11. PlaceInv'
  BY <1>1 DEF PlaceInv, HomeOf
<1>12. "closed" \notin Storing /\ "closed" \notin Deleting /\ At(handle'[h]) = "closed"
  BY <1>5 DEF Storing, Deleting, At
<1>13. IndexInv'
  BY <1>1, <1>5, IndexKeeps
<1>14. StoreOK(h, handle'[h])
  BY <1>5, <1>12 DEF StoreOK
<1>15. DeleteOK(handle'[h], begun'[h] \cap files')
  BY <1>5, <1>12 DEF DeleteOK
<1>16. RefuseOK(handle'[h], Bytes', BytesIn("records")', could'[h])
  BY <1>5 DEF RefuseOK
<1>17. Writers = {h} => QuotaOK(handle'[h], Bytes', BytesIn("rawcalls")')
  <2> SUFFICES ASSUME Writers = {h} PROVE QuotaOK(handle'[h], Bytes', BytesIn("rawcalls")')
    OBVIOUS
  <2>1. QuotaOK(s, Bytes, BytesIn("rawcalls"))
    BY DEF SpoolInv, QuotaInv
  <2>2. Bytes <= s.usage /\ s.usage + n + LineSize <= Quota
    BY <1>2, <2>1 DEF QuotaOK, n
  <2>3. Bytes' <= Quota
    <3> HIDE DEF s
    <3> QED BY <1>2, <1>10, <2>2
  <2> QED BY <1>5, <2>3 DEF QuotaOK
<1> QED BY <1>2, <1>5, <1>6, <1>7, <1>8, <1>10, <1>11, <1>13, <1>14, <1>15, <1>16, <1>17, StepKeeps

\* The held file of a released record goes.
LEMMA UnholdKeeps ==
  ASSUME SpoolInv, NEW h \in Handles, Unhold(h)
  PROVE  SpoolInv'
<1> DEFINE s == handle[h]
<1>1. s.pc = "unhold" /\ s.pc \in Storing /\ Shape /\ PlaceInv /\ IndexInv
      /\ files' = files \ {<<s.rec, "held">>} /\ UNCHANGED <<lines, temps, begun, could, owed>>
  BY DEF Unhold, Storing, SpoolInv, history
<1>2. s \in Handle /\ s.then = "none" /\ s.usage \in Int
  BY <1>1, StoringHas
<1>3. Ended(s) \in Handle /\ Rests(Ended(s), "idle", s.usage)
  BY <1>2, Resting
<1>4. PICK missed : Changes(h, Ended(s), missed)
  BY DEF Unhold
<1>5. Becomes(h, Ended(s))
  BY <1>1, <1>3, <1>4, ChangesTo
<1>6. /\ handle' \in [Handles -> Handle]
      /\ \A k \in Handles : k # h => Alike(handle'[k], handle[k], Fields)
      /\ handle'[h].pc = "idle" /\ handle'[h].then = "none" /\ handle'[h].rec = NoRecord /\ ~handle'[h].frees
      /\ handle'[h].usage = s.usage
  BY <1>3, <1>5 DEF Becomes, Alike, Fields, Rests
<1>7. Shape' /\ PlaceInv'
  BY <1>1, <1>6 DEF Shape, PlaceInv, HomeOf
<1>8. \A k \in Handles : begun'[k] \cap files' \subseteq begun[k] \cap files
  BY <1>1
<1>9. \A k \in Handles : could'[k] = could[k] + 0
  BY <1>1 DEF Shape
<1>10. ASSUME NEW slot PROVE BytesIn(slot)' <= BytesIn(slot) /\ BytesIn(slot) \in Nat /\ BytesIn(slot)' \in Nat
  <2>1. files' \in SUBSET files
    BY <1>1
  <2> QED BY <1>1, <2>1, BytesWeigh, WeighLess DEF Shape
<1>11. /\ Bytes' <= Bytes + 0 /\ BytesIn("rawcalls")' <= BytesIn("rawcalls") + 0
       /\ BytesIn("records")' <= BytesIn("records") + 0 /\ Bytes \in Nat /\ Bytes' \in Nat /\ 0 \in Nat
  BY <1>10 DEF Bytes
<1>12. "idle" \notin Storing /\ "idle" \notin Deleting /\ At(handle'[h]) = "idle"
  BY <1>6 DEF Storing, Deleting, At
<1>13. IndexInv'
  BY <1>1, <1>6, IndexKeeps
<1>14. StoreOK(h, handle'[h])
  BY <1>6, <1>12 DEF StoreOK
<1>15. DeleteOK(handle'[h], begun'[h] \cap files')
  BY <1>6, <1>12 DEF DeleteOK
<1>16. RefuseOK(handle'[h], Bytes', BytesIn("records")', could'[h])
  BY <1>6 DEF RefuseOK
<1>17. Writers = {h} => QuotaOK(handle'[h], Bytes', BytesIn("rawcalls")')
  <2> SUFFICES ASSUME Writers = {h} PROVE QuotaOK(handle'[h], Bytes', BytesIn("rawcalls")')
    OBVIOUS
  <2>1. QuotaOK(s, Bytes, BytesIn("rawcalls"))
    BY DEF SpoolInv, QuotaInv
  <2>2. Bytes <= s.usage /\ Bytes <= Quota
    BY <1>1, <1>2, <2>1 DEF QuotaOK
  <2>3. Bytes' <= Quota /\ Bytes' <= s.usage
    <3> HIDE DEF s
    <3> QED BY <1>2, <1>11, <2>2, SpoolConstants
  <2> QED BY <1>6, <2>3 DEF QuotaOK
<1> QED BY <1>6, <1>7, <1>8, <1>9, <1>11, <1>13, <1>14, <1>15, <1>16, <1>17, StepKeeps

\* What a handle is while it deletes.
LEMMA DeletingHas ==
  ASSUME SpoolInv, NEW h \in Handles, handle[h].pc \in Deleting
  PROVE  /\ handle[h] \in Handle /\ handle[h].then = "none" /\ handle[h].rec = NoRecord /\ ~handle[h].frees
         /\ handle[h].usage \in Int /\ At(handle[h]) = handle[h].pc
         /\ DeleteOK(handle[h], begun[h] \cap files)
         /\ Writers = {h} => Bytes <= Quota /\ Bytes <= handle[h].usage
<1>1. handle[h] \in Handle /\ StoreOK(h, handle[h]) /\ DeleteOK(handle[h], begun[h] \cap files)
  BY DEF SpoolInv, Shape, StoreInv, DeleteInv
<1>2. /\ handle[h].then = "none" /\ At(handle[h]) = handle[h].pc /\ handle[h].pc \notin Storing
      /\ handle[h].pc # "closed"
  BY <1>1 DEF StoreOK, Storing, Deleting, At
<1>3. Writers = {h} => Bytes <= Quota /\ Bytes <= handle[h].usage
  <2>1. Writers = {h} => QuotaOK(handle[h], Bytes, BytesIn("rawcalls"))
    BY DEF SpoolInv, QuotaInv
  <2> QED BY <1>2, <2>1 DEF QuotaOK
<1> QED BY <1>1, <1>2, <1>3 DEF StoreOK, Handle

\* A step of a deletion that takes files or lines away, or only reads them.
LEMMA TakingKeeps ==
  ASSUME SpoolInv, NEW h \in Handles, NEW t \in Handle, Becomes(h, t),
         handle[h].pc \in Deleting, t.pc \in Deleting,
         t.then = "none", t.rec = NoRecord, ~t.frees,
         files' \subseteq files, lines' \subseteq lines, owed' \subseteq owed, UNCHANGED <<temps, begun, could>>,
         DeleteOK(t, begun[h] \cap files'), IndexInv',
         Writers = {h} /\ Bytes' \in Nat /\ Bytes' <= Bytes => Bytes' <= t.usage
  PROVE  SpoolInv'
<1>1. Shape /\ PlaceInv
  BY DEF SpoolInv
<1>2. /\ handle' \in [Handles -> Handle]
      /\ \A k \in Handles : k # h => Alike(handle'[k], handle[k], Fields)
      /\ Alike(handle'[h], t, Fields)
      /\ handle'[h].pc = t.pc /\ handle'[h].then = "none" /\ handle'[h].rec = NoRecord /\ ~handle'[h].frees
      /\ handle'[h].usage = t.usage
  BY DEF Becomes, Alike, Fields
<1>3. Shape' /\ PlaceInv'
  BY <1>1, <1>2 DEF Shape, PlaceInv, HomeOf
<1>4. \A k \in Handles : begun'[k] \cap files' \subseteq begun[k] \cap files
  OBVIOUS
<1>5. \A k \in Handles : could'[k] = could[k] + 0
  BY <1>1 DEF Shape
<1>6. ASSUME NEW slot PROVE BytesIn(slot)' <= BytesIn(slot) /\ BytesIn(slot) \in Nat /\ BytesIn(slot)' \in Nat
  BY <1>1, BytesWeigh, WeighLess DEF Shape
<1>7. /\ Bytes' <= Bytes + 0 /\ BytesIn("rawcalls")' <= BytesIn("rawcalls") + 0 /\ Bytes' <= Bytes
      /\ BytesIn("records")' <= BytesIn("records") + 0 /\ Bytes \in Nat /\ Bytes' \in Nat /\ 0 \in Nat
  BY <1>6 DEF Bytes
<1>8. /\ t.pc \notin Storing /\ t.pc # "unhold" /\ t.pc # "walk" /\ At(handle'[h]) = t.pc
      /\ t.pc \notin {"land", "line", "recheck", "refuse"}
  BY <1>2 DEF Storing, Deleting, At
<1>9. StoreOK(h, handle'[h])
  BY <1>2, <1>8 DEF StoreOK
<1>10. DeleteOK(handle'[h], begun'[h] \cap files')
  <2>1. handle'[h] \in Handle /\ begun'[h] \cap files' \in SUBSET (begun[h] \cap files')
    BY <1>2
  <2> QED BY <1>2, <2>1, AlikeKeeps
<1>11. RefuseOK(handle'[h], Bytes', BytesIn("records")', could'[h])
  BY <1>2, <1>8 DEF RefuseOK
<1>12. Writers = {h} => QuotaOK(handle'[h], Bytes', BytesIn("rawcalls")')
  <2> SUFFICES ASSUME Writers = {h} PROVE QuotaOK(handle'[h], Bytes', BytesIn("rawcalls")')
    OBVIOUS
  <2>1. Bytes <= Quota /\ Bytes' <= t.usage
    BY <1>7, DeletingHas
  <2>2. Bytes' <= Quota
    BY <1>7, <2>1, SpoolConstants
  <2> QED BY <1>2, <1>8, <2>1, <2>2 DEF QuotaOK
<1> QED BY <1>2, <1>3, <1>4, <1>5, <1>7, <1>9, <1>10, <1>11, <1>12, StepKeeps

\* A file goes.
LEMMA RemoveKeeps ==
  ASSUME SpoolInv, NEW h \in Handles, NEW r \in Records, Remove(h, r)
  PROVE  SpoolInv'
<1> DEFINE s == handle[h]
           there == <<r, s.slot>> \in files
           d == IF there /\ Counts(s) THEN -Size[r] ELSE 0
           todo == s.todo \ {r}
           gone == IF there THEN s.gone \cup {r} ELSE s.gone
           usage == IF h \in Writers THEN s.usage + d ELSE s.usage
           v == [s EXCEPT !.todo = todo, !.gone = gone]
           t == Charged(h, v, d)
<1>1. s.pc = "remove" /\ s.pc \in Deleting /\ r \in s.todo /\ Shape /\ IndexInv
      /\ files' = files \ {<<r, s.slot>>} /\ owed' = owed \ {r} /\ UNCHANGED <<lines, temps, begun, could>>
  BY DEF Remove, SpoolInv, Deleting
<1>2. /\ s \in Handle /\ s.then = "none" /\ s.rec = NoRecord /\ ~s.frees /\ s.usage \in Int /\ At(s) = "remove"
      /\ DeleteOK(s, begun[h] \cap files)
      /\ Writers = {h} => Bytes <= Quota /\ Bytes <= s.usage
  BY <1>1, DeletingHas
<1>3. d \in Int /\ todo \in SUBSET Records /\ gone \in SUBSET Records
  BY <1>2, SpoolConstants DEF Handle
<1>4. PICK missed : Changes(h, t, missed)
  BY DEF Remove
<1>5. t \in Handle /\ t.todo = todo /\ t.usage = usage /\ Alike(t, s, Fields \ {"todo", "gone", "usage"})
  <2> HIDE DEF s, d, todo, gone, v
  <2>1. v \in Handle /\ v.todo = todo /\ v.usage = s.usage /\ Alike(v, s, Fields \ {"todo", "gone", "usage"})
    BY <1>2, <1>3 DEF Handle, Alike, Fields, v
  <2>2. t = IF h \in Writers THEN [v EXCEPT !.usage = v.usage + d] ELSE v
    BY DEF Charged
  <2>3. v.usage + d \in Int
    BY <1>2, <1>3, <2>1
  <2>4. ASSUME NEW u \in Int
        PROVE  /\ [v EXCEPT !.usage = u] \in Handle /\ [v EXCEPT !.usage = u].todo = v.todo
               /\ [v EXCEPT !.usage = u].usage = u /\ Alike([v EXCEPT !.usage = u], v, Fields \ {"usage"})
    BY <2>1 DEF Handle, Alike, Fields
  <2> HIDE DEF t
  <2> QED BY <2>1, <2>2, <2>3, <2>4 DEF Alike, Fields
<1>6. Becomes(h, t)
  <2> HIDE DEF t
  <2> QED BY <1>1, <1>4, <1>5, ChangesTo
<1> HIDE DEF t
<1>7. /\ t.pc = "remove" /\ t.then = "none" /\ t.rec = NoRecord /\ ~t.frees /\ t.slot = s.slot
      /\ t.match = s.match /\ t.slots = s.slots
  BY <1>1, <1>2, <1>5 DEF Alike, Fields
<1>8. DeleteOK(t, begun[h] \cap files')
  <2>1. At(t) = "remove" /\ "remove" \in Deleting
    BY <1>7 DEF At, Deleting
  <2>2. ASSUME NEW f \in begun[h] \cap files'
        PROVE  /\ f[1] \in t.match
               /\ \/ \E i \in DOMAIN t.slots : t.slots[i] = f[2]
                  \/ t.pc = "remove" /\ f[2] = t.slot /\ f[1] \in t.todo
    <3>1. /\ f[1] \in s.match
          /\ \/ \E i \in DOMAIN s.slots : s.slots[i] = f[2]
             \/ f[2] = s.slot /\ f[1] \in s.todo
      BY <1>1, <1>2, <2>1 DEF DeleteOK
    <3>2. f \in Files /\ f # <<r, s.slot>>
      BY <1>1 DEF Shape
    <3>3. f = <<f[1], f[2]>>
      BY <3>2 DEF Files
    <3> HIDE DEF s
    <3> QED BY <1>5, <1>7, <3>1, <3>2, <3>3
  <2>3. t.slot \in Slots
    BY <1>1, <1>2, <1>7 DEF DeleteOK
  <2> QED BY <1>7, <2>2, <2>3 DEF DeleteOK
<1>9. IndexInv'
  <2>1. handle'[h].pc = "remove" /\ \A k \in Handles : k # h => Alike(handle'[k], handle[k], Fields)
    BY <1>6, <1>7 DEF Becomes, Alike, Fields
  <2> QED BY <1>1, <2>1, IndexKeeps
<1>10. ASSUME Writers = {h}, Bytes' \in Nat, Bytes' <= Bytes
       PROVE  Bytes' <= t.usage
  <2>1. Bytes <= s.usage /\ usage = s.usage + d
    BY <1>2, <1>10
  <2>2. \A slot : BytesIn(slot) \in Nat /\ Bytes \in Nat
    BY <1>1, BytesAre
  <2>5. s.usage \in Int /\ d \in Int /\ Bytes \in Int
    BY <1>2, <1>3, <2>2
  <2>3. CASE there /\ Counts(s)
    <3>1. s.slot \in Counted
      <4>1. s.slot \in Slots
        BY <1>1, <1>2 DEF DeleteOK
      <4> QED BY <2>3, <4>1 DEF Slots, Counted, Counts
    <3>2. ASSUME NEW slot PROVE BytesIn(slot)' = BytesIn(slot) - (IF slot = s.slot THEN Size[r] ELSE 0)
      <4>1. Weigh(files \ {<<r, s.slot>>}, temps, lines, slot) = Weigh(files, temps, lines, slot) - (IF slot = s.slot THEN Size[r] ELSE 0)
        <5>1. files \in SUBSET Files /\ temps \in SUBSET Records /\ lines \in SUBSET Records /\ <<r, s.slot>> \in files
          BY <1>1, <2>3 DEF Shape
        <5>2. ASSUME NEW at, <<r, at>> \in files
              PROVE  Weigh(files \ {<<r, at>>}, temps, lines, slot) = Weigh(files, temps, lines, slot) - (IF slot = at THEN Size[r] ELSE 0)
          BY <5>1, <5>2, WeighOff
        <5> QED BY <5>1, <5>2
      <4> QED BY <1>1, <4>1, BytesWeigh
    <3>3. /\ BytesIn("rawcalls")' = BytesIn("rawcalls") - (IF "rawcalls" = s.slot THEN Size[r] ELSE 0)
          /\ BytesIn("records")' = BytesIn("records") - (IF "records" = s.slot THEN Size[r] ELSE 0)
      BY <3>2
    <3>4. Size[r] \in Nat /\ d = -Size[r] /\ BytesIn("rawcalls") \in Nat /\ BytesIn("records") \in Nat
      BY <2>2, <2>3, SpoolConstants
    <3>5. Bytes = BytesIn("rawcalls") + BytesIn("records") /\ Bytes' = BytesIn("rawcalls")' + BytesIn("records")'
      BY DEF Bytes
    <3> HIDE DEF s, d, usage
    <3>6. CASE s.slot = "rawcalls"
      <4>1. BytesIn("rawcalls")' = BytesIn("rawcalls") - Size[r] /\ BytesIn("records")' = BytesIn("records") - 0
        BY <3>3, <3>6
      <4>2. \A a, b, c : a \in Int /\ b \in Int /\ c \in Int => (a - c) + (b - 0) = (a + b) + (-c)
        OBVIOUS
      <4>3. Bytes' = Bytes + d
        BY <3>4, <3>5, <4>1, <4>2
      <4> QED BY <1>5, <2>1, <2>5, <4>3
    <3>7. CASE s.slot = "records"
      <4>1. BytesIn("rawcalls")' = BytesIn("rawcalls") - 0 /\ BytesIn("records")' = BytesIn("records") - Size[r]
        BY <3>3, <3>7
      <4>2. \A a, b, c : a \in Int /\ b \in Int /\ c \in Int => (a - 0) + (b - c) = (a + b) + (-c)
        OBVIOUS
      <4>3. Bytes' = Bytes + d
        BY <3>4, <3>5, <4>1, <4>2
      <4> QED BY <1>5, <2>1, <2>5, <4>3
    <3> QED BY <3>1, <3>6, <3>7 DEF Counted
  <2>4. CASE ~(there /\ Counts(s))
    <3>1. d = 0
      BY <2>4
    <3> HIDE DEF s, d, usage
    <3> QED BY <1>2, <1>5, <1>10, <2>1, <2>2, <3>1
  <2> QED BY <2>3, <2>4
<1>11. files' \subseteq files /\ owed' \subseteq owed /\ lines' \subseteq lines /\ "remove" \in Deleting
  BY <1>1 DEF Deleting
<1> HIDE DEF s
<1> QED BY <1>1, <1>5, <1>6, <1>7, <1>8, <1>9, <1>10, <1>11, TakingKeeps DEF s

\* An index is read to be rewritten.
LEMMA ReadIndexKeeps ==
  ASSUME SpoolInv, NEW h \in Handles, ReadIndex(h)
  PROVE  SpoolInv'
<1> DEFINE s == handle[h]
           todo == {r \in lines : HomeOf(r) = s.slot}
           t == [s EXCEPT !.pc = "put", !.todo = todo]
<1>1. CASE Goes(h, [s EXCEPT !.pc = "list"])
  BY <1>1, MovesOn
<1>2. CASE ~Goes(h, [s EXCEPT !.pc = "list"])
  <2>1. s.pc = "remove" /\ s.pc \in Deleting /\ s.todo = {} /\ Shape /\ IndexInv
        /\ UNCHANGED <<files, lines, temps, begun, could, owed>>
    BY DEF ReadIndex, SpoolInv, Deleting, disk, history
  <2>2. Counts(s) /\ Goes(h, t) /\ \A k \in Handles : ~(handle[k].pc = "put" /\ handle[k].slot = s.slot)
    BY <1>2 DEF ReadIndex
  <2>3. /\ s \in Handle /\ s.then = "none" /\ s.rec = NoRecord /\ ~s.frees /\ s.usage \in Int /\ At(s) = "remove"
        /\ DeleteOK(s, begun[h] \cap files)
        /\ Writers = {h} => Bytes <= Quota /\ Bytes <= s.usage
    BY <2>1, DeletingHas
  <2>4. s.slot \in Counted
    <3>1. s.slot \in Slots
      BY <2>1, <2>3 DEF DeleteOK
    <3> QED BY <2>2, <3>1 DEF Slots, Counted, Counts
  <2>5. t \in Handle /\ t.pc = "put" /\ t.todo = todo /\ t.slot = s.slot /\ t.match = s.match /\ t.slots = s.slots
        /\ t.then = "none" /\ t.rec = NoRecord /\ ~t.frees /\ t.usage = s.usage
    <3>1. todo \in SUBSET Records
      BY <2>1 DEF Shape
    <3> HIDE DEF s, todo
    <3> QED BY <2>3, <3>1 DEF Handle, Pcs
  <2>6. Becomes(h, t)
    <3> HIDE DEF t
    <3> QED BY <2>1, <2>2, <2>5, GoesTo
  <2> HIDE DEF t
  <2>7. DeleteOK(t, begun[h] \cap files')
    <3>1. At(t) = "put" /\ "remove" \in Deleting
      BY <2>5 DEF At, Deleting
    <3> QED BY <2>1, <2>3, <2>5, <3>1 DEF DeleteOK
  <2>8. IndexInv'
    <3>1. \A k \in Handles : k # h => /\ handle'[k].pc = handle[k].pc /\ handle'[k].slot = handle[k].slot
                                      /\ handle'[k].todo = handle[k].todo
      BY <2>6 DEF Becomes, Alike, Fields
    <3>2. handle'[h].pc = "put" /\ handle'[h].slot = s.slot /\ handle'[h].todo = todo
      BY <2>5, <2>6 DEF Becomes, Alike, Fields
    <3>3. ASSUME NEW k \in Handles, handle'[k].pc = "put"
          PROVE  handle'[k].slot \in Counted /\ handle'[k].todo \subseteq {r \in lines' : HomeOf(r) = handle'[k].slot}
      BY <2>1, <2>4, <3>1, <3>2, <3>3 DEF IndexInv, HomeOf
    <3>4. ASSUME NEW k \in Handles, NEW j \in Handles, handle'[k].pc = "put", handle'[j].pc = "put",
                 handle'[k].slot = handle'[j].slot
          PROVE  k = j
      <4> HIDE DEF s
      <4> QED BY <2>1, <2>2, <3>1, <3>2, <3>4 DEF IndexInv
    <3> QED BY <3>3, <3>4 DEF IndexInv, HomeOf
  <2>9. ASSUME Writers = {h}, Bytes' \in Nat, Bytes' <= Bytes
        PROVE  Bytes' <= t.usage
    <3>1. Bytes \in Nat
      BY <2>1, BytesAre
    <3> QED BY <2>3, <2>5, <2>9, <3>1
  <2>10. files' \subseteq files /\ owed' \subseteq owed /\ lines' \subseteq lines /\ "put" \in Deleting
    BY <2>1 DEF Deleting
  <2> HIDE DEF s
  <2> QED BY <2>1, <2>5, <2>6, <2>7, <2>8, <2>9, <2>10, TakingKeeps DEF s
<1> QED BY <1>1, <1>2

\* The index is put back without the lines of what went.
LEMMA PutIndexKeeps ==
  ASSUME SpoolInv, NEW h \in Handles, PutIndex(h)
  PROVE  SpoolInv'
<1> DEFINE s == handle[h]
           c == LineSize * Cardinality(s.todo \cap s.gone)
           d == -LineSize * Cardinality(s.todo \cap s.gone)
           put == {r \in lines : HomeOf(r) # s.slot} \cup (s.todo \ s.gone)
           usage == IF h \in Writers THEN s.usage + d ELSE s.usage
           v == [s EXCEPT !.pc = "list", !.todo = {}, !.gone = {}]
           t == Charged(h, v, d)
<1>1. s.pc = "put" /\ s.pc \in Deleting /\ Shape /\ IndexInv
      /\ lines' = put /\ UNCHANGED <<files, temps, begun, could, owed>>
  BY DEF PutIndex, SpoolInv, Deleting, history
<1>2. /\ s \in Handle /\ s.then = "none" /\ s.rec = NoRecord /\ ~s.frees /\ s.usage \in Int /\ At(s) = "put"
      /\ DeleteOK(s, begun[h] \cap files)
      /\ Writers = {h} => Bytes <= Quota /\ Bytes <= s.usage
  BY <1>1, DeletingHas
<1>3. /\ s.slot \in Counted /\ s.todo \in SUBSET {r \in lines : HomeOf(r) = s.slot} /\ s.gone \in SUBSET Records
      /\ files \in SUBSET Files /\ temps \in SUBSET Records /\ lines \in SUBSET Records
  BY <1>1, <1>2 DEF IndexInv, Handle, Shape
<1>4. /\ put \in SUBSET lines /\ c \in Nat
      /\ \A slot : Weigh(files, temps, put, slot) <= Weigh(files, temps, lines, slot) - (IF slot = s.slot THEN c ELSE 0)
  <2>1. put = PutBack(lines, s.slot, s.todo, s.gone)
    BY DEF PutBack
  <2> HIDE DEF s, put
  <2>2. \A slot : /\ PutBack(lines, s.slot, s.todo, s.gone) \in SUBSET lines
                  /\ LineSize * Cardinality(s.todo \cap s.gone) \in Nat
                  /\ Weigh(files, temps, PutBack(lines, s.slot, s.todo, s.gone), slot) <=
                       Weigh(files, temps, lines, slot) - (IF slot = s.slot THEN c ELSE 0)
    BY <1>3, WeighIndex
  <2> QED BY <2>1, <2>2
<1>5. d = -c /\ d \in Int
  <2>1. Cardinality(s.todo \cap s.gone) \in Nat
    <3>1. s.todo \cap s.gone \in SUBSET Records
      BY <1>3
    <3> HIDE DEF s
    <3> QED BY <3>1, SizesGrow
  <2>2. \A a, b \in Nat : (-a) * b = -(a * b)
    OBVIOUS
  <2> HIDE DEF s
  <2> QED BY <1>4, <2>1, <2>2, SpoolConstants
<1>6. PICK missed : Changes(h, t, missed)
  BY DEF PutIndex
<1>7. t \in Handle /\ t.pc = "list" /\ t.usage = usage /\ Alike(t, s, Fields \ {"pc", "todo", "gone", "usage"})
  <2> HIDE DEF s, d, v
  <2>1. v \in Handle /\ v.pc = "list" /\ v.usage = s.usage /\ Alike(v, s, Fields \ {"pc", "todo", "gone", "usage"})
    BY <1>2 DEF Handle, Alike, Fields, v, Pcs
  <2>2. t = IF h \in Writers THEN [v EXCEPT !.usage = v.usage + d] ELSE v
    BY DEF Charged
  <2>3. v.usage + d \in Int
    BY <1>2, <1>5, <2>1
  <2>4. ASSUME NEW u \in Int
        PROVE  /\ [v EXCEPT !.usage = u] \in Handle /\ [v EXCEPT !.usage = u].pc = v.pc
               /\ [v EXCEPT !.usage = u].usage = u /\ Alike([v EXCEPT !.usage = u], v, Fields \ {"usage"})
    BY <2>1 DEF Handle, Alike, Fields
  <2> HIDE DEF t
  <2> QED BY <2>1, <2>2, <2>3, <2>4 DEF Alike, Fields
<1>8. Becomes(h, t)
  <2> HIDE DEF t
  <2> QED BY <1>1, <1>6, <1>7, ChangesTo
<1> HIDE DEF t
<1>9. /\ t.then = "none" /\ t.rec = NoRecord /\ ~t.frees /\ t.match = s.match /\ t.slots = s.slots
  BY <1>2, <1>7 DEF Alike, Fields
<1>10. DeleteOK(t, begun[h] \cap files')
  <2>1. At(t) = "list" /\ "put" \in Deleting
    BY <1>7 DEF At, Deleting
  <2> QED BY <1>1, <1>2, <1>7, <1>9, <2>1 DEF DeleteOK
<1>11. IndexInv'
  <2>1. \A k \in Handles : k # h => /\ handle'[k].pc = handle[k].pc /\ handle'[k].slot = handle[k].slot
                                    /\ handle'[k].todo = handle[k].todo
    BY <1>8 DEF Becomes, Alike, Fields
  <2>2. handle'[h].pc = "list"
    BY <1>7, <1>8 DEF Becomes, Alike, Fields
  <2>3. ASSUME NEW k \in Handles, handle'[k].pc = "put"
        PROVE  handle'[k].slot \in Counted /\ handle'[k].todo \subseteq {r \in lines' : HomeOf(r) = handle'[k].slot}
    <3>1. k # h /\ handle[k].pc = "put" /\ handle[k].slot # s.slot
      BY <1>1, <2>1, <2>2, <2>3 DEF IndexInv
    <3>2. handle[k].slot \in Counted /\ handle[k].todo \subseteq {r \in lines : HomeOf(r) = handle[k].slot}
      BY <1>1, <3>1 DEF IndexInv
    <3> QED BY <1>1, <2>1, <3>1, <3>2
  <2>4. \A j, k \in Handles : handle'[j].pc = "put" /\ handle'[k].pc = "put" /\ handle'[j].slot = handle'[k].slot => j = k
    BY <1>1, <2>1, <2>2 DEF IndexInv
  <2> QED BY <2>3, <2>4 DEF IndexInv, HomeOf
<1>12. ASSUME Writers = {h}, Bytes' \in Nat, Bytes' <= Bytes
       PROVE  Bytes' <= t.usage
  <2>1. Bytes <= s.usage /\ usage = s.usage + d
    BY <1>2, <1>12
  <2>2. ASSUME NEW slot
        PROVE  BytesIn(slot)' <= BytesIn(slot) - (IF slot = s.slot THEN c ELSE 0) /\ BytesIn(slot) \in Nat
               /\ BytesIn(slot)' \in Nat
    <3> HIDE DEF s, c
    <3>1. BytesIn(slot)' = Weigh(files, temps, put, slot) /\ BytesIn(slot) = Weigh(files, temps, lines, slot)
      BY <1>1, BytesWeigh
    <3>2. Weigh(files, temps, put, slot) \in Nat /\ Weigh(files, temps, lines, slot) \in Nat
      BY <1>3, <1>4, WeighLess
    <3> QED BY <1>4, <3>1, <3>2
  <2> HIDE DEF s, c, d, usage
  <2>3. /\ BytesIn("rawcalls")' <= BytesIn("rawcalls") - (IF "rawcalls" = s.slot THEN c ELSE 0)
        /\ BytesIn("records")' <= BytesIn("records") - (IF "records" = s.slot THEN c ELSE 0)
        /\ BytesIn("rawcalls") \in Nat /\ BytesIn("records") \in Nat
        /\ BytesIn("rawcalls")' \in Nat /\ BytesIn("records")' \in Nat
    BY <2>2
  <2>4. Bytes = BytesIn("rawcalls") + BytesIn("records") /\ Bytes' = BytesIn("rawcalls")' + BytesIn("records")'
    BY DEF Bytes
  <2>5. Bytes' <= Bytes - c
    <3>1. CASE s.slot = "rawcalls"
      BY <1>4, <2>3, <2>4, <3>1
    <3>2. CASE s.slot = "records"
      BY <1>4, <2>3, <2>4, <3>2
    <3> QED BY <1>3, <3>1, <3>2 DEF Counted
  <2>6. Bytes \in Int
    BY <2>3, <2>4
  <2> QED BY <1>2, <1>4, <1>5, <1>7, <1>12, <2>1, <2>5, <2>6
<1>13. files' \subseteq files /\ owed' \subseteq owed /\ lines' \subseteq lines /\ "list" \in Deleting
  BY <1>1, <1>4 DEF Deleting
<1> HIDE DEF s
<1> QED BY <1>1, <1>7, <1>8, <1>9, <1>10, <1>11, <1>12, <1>13, TakingKeeps DEF s

-----------------------------------------------------------------------------
(* The invariant, and what follows from it. *)

\* An empty spool weighs nothing.
LEMMA InitHolds == Init => SpoolInv
<1> SUFFICES ASSUME Init PROVE SpoolInv
  OBVIOUS
<1>1. files = {} /\ lines = {} /\ temps = {} /\ owed = {} /\ begun = [h \in Handles |-> {}]
      /\ could = [h \in Handles |-> 0] /\ handle = [h \in Handles |-> Closed]
  BY DEF Init
<1>2. \A h \in Handles : handle[h] = Closed /\ begun[h] = {}
  BY <1>1
<1>3. Closed \in Handle
  BY DEF Closed, Handle, Pcs, Walks, Orders
<1>4. /\ Closed.pc = "closed" /\ Closed.then = "none" /\ Closed.rec = NoRecord /\ Closed.frees = FALSE
      /\ At(Closed) = "closed" /\ "closed" \notin Storing /\ "closed" \notin Deleting
  BY DEF Closed, At, Storing, Deleting
<1>5. Shape
  BY <1>1, <1>3 DEF Shape
<1>6. PlaceInv /\ IndexInv
  BY <1>1, <1>2, <1>4 DEF PlaceInv, IndexInv
<1>7. \A h \in Handles : StoreOK(h, handle[h])
  BY <1>2, <1>4 DEF StoreOK
<1>8. \A h \in Handles : DeleteOK(handle[h], begun[h] \cap files)
  BY <1>2, <1>4 DEF DeleteOK
<1>9. \A h \in Handles : RefuseOK(handle[h], Bytes, BytesIn("records"), could[h])
  BY <1>2, <1>4 DEF RefuseOK
<1>10. Bytes = 0
  <2>1. ASSUME NEW slot PROVE BytesIn(slot) = 0
    <3>1. IsFiniteSet({}) /\ Cardinality({}) = 0
      BY FS_EmptySet
    <3>2. SumFunctionOnSet(Size, {}) = 0
      BY <3>1, SumStep
    <3>3. /\ {r \in Records : <<r, slot>> \in files} = {} /\ {r \in temps : HomeOf(r) = slot} = {}
          /\ {r \in lines : HomeOf(r) = slot} = {}
      BY <1>1
    <3>4. Weigh(files, temps, lines, slot) = 0 + 0 + LineSize * 0
      BY <3>1, <3>2, <3>3 DEF Weigh
    <3> QED BY <3>4, BytesWeigh, SpoolConstants
  <2>2. BytesIn("rawcalls") = 0 /\ BytesIn("records") = 0
    BY <2>1
  <2> QED BY <2>2 DEF Bytes
<1>11. \A h \in Handles : QuotaOK(handle[h], Bytes, BytesIn("rawcalls"))
  BY <1>2, <1>4, <1>10, SpoolConstants DEF QuotaOK
<1> QED BY <1>5, <1>6, <1>7, <1>8, <1>9, <1>11 DEF SpoolInv, StoreInv, DeleteInv, RefuseInv, QuotaInv

\* No step breaks it.
LEMMA StepHolds == SpoolInv /\ [Next]_vars => SpoolInv'
<1> SUFFICES ASSUME SpoolInv, [Next]_vars PROVE SpoolInv'
  OBVIOUS
<1>1. CASE Next
  <2> PICK h \in Handles :
        \/ Open(h) \/ WalkSlot(h) \/ WalkEnds(h)
        \/ Judge(h) \/ Recheck(h) \/ Refuse(h) \/ Land(h) \/ AddLine(h) \/ Done(h) \/ Unhold(h)
        \/ List(h) \/ ReadIndex(h) \/ PutIndex(h) \/ Listed(h) \/ Deleted(h) \/ Crash(h)
        \/ \E r \in Records : Write(h, r) \/ WriteRecord(h, r) \/ Hold(h, r) \/ Release(h, r)
                               \/ DeleteEntry(h, r) \/ Remove(h, r)
        \/ \E p \in Projects : DeleteProject(h, p)
        \/ \E s \in Sessions : DeleteSession(h, s)
        \/ Probe(h) \/ Probed(h)
    BY <1>1 DEF Next
  <2>1. CASE Open(h)
    BY <2>1, OpenKeeps
  <2>2. CASE WalkSlot(h)
    BY <2>2, WalkSlotKeeps
  <2>3. CASE WalkEnds(h)
    BY <2>3, WalkEndsKeeps
  <2>4. CASE Judge(h)
    BY <2>4, JudgeKeeps
  <2>5. CASE Recheck(h)
    BY <2>5, RecheckKeeps
  <2>6. CASE Refuse(h) \/ Probed(h) \/ Done(h) \/ Deleted(h)
    BY <2>6, EndsKeep
  <2>7. CASE Land(h)
    BY <2>7, LandKeeps
  <2>8. CASE AddLine(h)
    BY <2>8, AddLineKeeps
  <2>9. CASE Unhold(h)
    BY <2>9, UnholdKeeps
  <2>10. CASE List(h)
    BY <2>10, ListKeeps
  <2>11. CASE ReadIndex(h)
    BY <2>11, ReadIndexKeeps
  <2>12. CASE PutIndex(h)
    BY <2>12, PutIndexKeeps
  <2>13. CASE Listed(h)
    BY <2>13, MovesOn
  <2>14. CASE Crash(h)
    <3>1. CASE UNCHANGED temps /\ could' = [could EXCEPT ![h] = 0]
      BY <2>14, <3>1, EndsKeep
    <3>2. CASE /\ handle[h].pc = "land" /\ Counts(handle[h]) /\ handle[h].slot # "probe"
               /\ temps' = temps \cup {handle[h].rec} /\ Lands(Size[handle[h].rec])
      BY <2>14, <3>2, StrandedKeeps
    <3> QED BY <2>14, <3>1, <3>2 DEF Crash
  <2>15. CASE Probe(h) \/ \E r \in Records : Write(h, r) \/ WriteRecord(h, r) \/ Hold(h, r) \/ Release(h, r)
    BY <2>15, WritesKeep
  <2>16. CASE \/ \E p \in Projects : DeleteProject(h, p)
              \/ \E s \in Sessions : DeleteSession(h, s)
              \/ \E r \in Records : DeleteEntry(h, r)
    BY <2>16, DeletionsKeep
  <2>17. ASSUME NEW r \in Records, Remove(h, r) PROVE SpoolInv'
    BY <2>17, RemoveKeeps
  <2> QED BY <2>1, <2>2, <2>3, <2>4, <2>5, <2>6, <2>7, <2>8, <2>9, <2>10, <2>11, <2>12, <2>13, <2>14,
             <2>15, <2>16, <2>17
<1>2. CASE UNCHANGED vars
  <2>1. UNCHANGED <<files, lines, temps, handle, begun, could, owed>>
    BY <1>2 DEF vars, disk, history
  <2>2. UNCHANGED Bytes /\ UNCHANGED BytesIn("rawcalls") /\ UNCHANGED BytesIn("records")
    BY <2>1 DEF Bytes, BytesIn, In, HomeOf
  <2>3. Shape' /\ PlaceInv' /\ IndexInv'
    BY <2>1 DEF SpoolInv, Shape, PlaceInv, IndexInv, HomeOf
  <2>4. StoreInv' /\ DeleteInv' /\ QuotaInv' /\ RefuseInv'
    BY <2>1, <2>2 DEF SpoolInv, StoreInv, DeleteInv, QuotaInv, RefuseInv
  <2> QED BY <2>3, <2>4 DEF SpoolInv
<1> QED BY <1>1, <1>2

\* The inductive invariant of the spool, for any records, handles and quota:
\* what each handle has seen of the disk bounds what is there.
THEOREM SpoolInvariance == Spec => []SpoolInv
BY InitHolds, StepHolds, PTL DEF Spec

\* With one handle that writes, what is counted never exceeds the quota,
\* whoever deletes and whenever a process dies (spool.go).
THEOREM QuotaHolds == Spec => []WithinQuota
<1>1. SpoolInv => WithinQuota
  <2> SUFFICES ASSUME SpoolInv, Cardinality(Writers) = 1 PROVE Bytes <= Quota
    BY DEF WithinQuota
  <2>1. PICK w : Writers = {w}
    <3>1. IsFiniteSet(Writers)
      BY SpoolConstants, FS_Subset
    <3> QED BY <3>1, FS_Singleton
  <2>2. w \in Handles
    BY <2>1, SpoolConstants
  <2> QED BY <2>1, <2>2 DEF SpoolInv, QuotaInv, QuotaOK
<1> QED BY <1>1, SpoolInvariance, PTL

\* A write refused for want of room was one the disk could not take, with any
\* number of handles writing and deleting beside it (spool.go).
THEOREM RefusalHolds == Spec => []RefusalIsTrue
<1>1. SpoolInv => RefusalIsTrue
  BY DEF SpoolInv, RefuseInv, RefuseOK, RefusalIsTrue
<1> QED BY <1>1, SpoolInvariance, PTL

\* A deletion that reports its end has taken every file it addressed that was
\* there when it began (read.go).
THEOREM DeletionHolds == Spec => []DeletedIsGone
<1>1. SpoolInv => DeletedIsGone
  <2> SUFFICES ASSUME SpoolInv, NEW h \in Handles, handle[h].pc = "deleted" PROVE begun[h] \cap files = {}
    BY DEF DeletedIsGone
  <2>1. handle[h].pc \in Deleting
    BY DEF Deleting
  <2>2. DeleteOK(handle[h], begun[h] \cap files) /\ At(handle[h]) = "deleted"
    BY <2>1, DeletingHas
  <2>3. handle[h].slots = <<>>
    BY <2>2 DEF DeleteOK
  <2>4. DOMAIN <<>> = {}
    OBVIOUS
  <2> QED BY <2>1, <2>2, <2>3, <2>4 DEF DeleteOK
<1> QED BY <1>1, SpoolInvariance, PTL

-----------------------------------------------------------------------------
(* A record is not lost between the slots. *)

\* No handle holds a record back that another is releasing: the release read
\* the held file, and takes it away at its end whoever wrote it last.
Apart ==
  \A h, k \in Handles : handle[k].frees /\ handle[h].rec = handle[k].rec => handle[h].slot # "held"

After == {"line", "done", "unhold"}

\* What a release has stored is there, or was deleted, until the held file goes.
ReleaseInv ==
  \A h \in Handles : handle[h].frees /\ handle[h].pc \in After =>
    <<handle[h].rec, "records">> \in files \/ handle[h].rec \notin owed

\* What a handle is after a step of one of them.
LEMMA GoesIs ==
  ASSUME Shape, NEW h \in Handles, NEW t, Goes(h, t)
  PROVE  handle'[h] = t /\ \A k \in Handles : k # h => handle'[k] = handle[k]
BY DEF Shape, Goes

\* What a change of files leaves of each handle, given the fields of a handle.
LEMMA ChangesIs ==
  ASSUME Shape, NEW h \in Handles, NEW t, NEW missed, Changes(h, t, missed), DOMAIN t = DOMAIN Closed
  PROVE  /\ handle'[h].pc = t.pc /\ handle'[h].rec = t.rec
         /\ \A k \in Handles : k # h =>
              /\ handle'[k].pc = handle[k].pc /\ handle'[k].rec = handle[k].rec
              /\ handle'[k].frees = handle[k].frees
<1>1. ASSUME NEW k \in Handles, NEW u, u = (IF k = h THEN t ELSE handle[k])
      PROVE  /\ handle'[k].pc = u.pc /\ handle'[k].rec = u.rec /\ handle'[k].frees = u.frees
  <2>1. handle'[k] = [u EXCEPT !.fresh = u.fresh /\ k \in missed \cap Writers, !.snap = u.snap /\ k \in missed]
    BY <1>1 DEF Changes
  <2>2. DOMAIN u = DOMAIN Closed
    <3>1. handle[k] \in Handle
      BY DEF Shape
    <3>2. DOMAIN handle[k] = DOMAIN Closed
      BY <3>1 DEF Handle, Closed
    <3> QED BY <1>1, <3>2
  <2>3. {"pc", "rec", "frees"} \subseteq DOMAIN u
    BY <2>2 DEF Closed
  <2> QED BY <2>1, <2>3
<1> QED BY <1>1

\* The steps of a handle that leave what is stored and what is owed alone, and
\* do not bring a release further.
LEMMA ElsewhereKeeps ==
  ASSUME ReleaseInv, StoredOrHeld, NEW h \in Handles,
         \A k \in Handles : k # h =>
           /\ handle'[k].pc = handle[k].pc /\ handle'[k].rec = handle[k].rec
           /\ handle'[k].frees = handle[k].frees,
         UNCHANGED <<files, owed>>,
         handle'[h].frees /\ handle'[h].pc \in After =>
           \/ handle[h].frees /\ handle[h].pc \in After /\ handle'[h].rec = handle[h].rec
           \/ <<handle'[h].rec, "records">> \in files
  PROVE  ReleaseInv' /\ StoredOrHeld'
BY DEF ReleaseInv, StoredOrHeld, Slots

\* The steps that write no file.
LEMMA OthersKeep ==
  ASSUME SpoolInv, ReleaseInv, StoredOrHeld, NEW h \in Handles,
         \/ Open(h) \/ WalkSlot(h) \/ WalkEnds(h) \/ Judge(h) \/ Recheck(h) \/ Refuse(h) \/ Done(h)
         \/ List(h) \/ ReadIndex(h) \/ Listed(h) \/ Deleted(h) \/ Crash(h) \/ Probe(h) \/ Probed(h)
         \/ \E r \in Records : Write(h, r) \/ WriteRecord(h, r) \/ Hold(h, r) \/ Release(h, r) \/ DeleteEntry(h, r)
         \/ \E p \in Projects : DeleteProject(h, p)
         \/ \E s \in Sessions : DeleteSession(h, s)
  PROVE  ReleaseInv' /\ StoredOrHeld'
<1> DEFINE s == handle[h]
<1>1. Shape /\ s \in Handle /\ s.then \notin After /\ DOMAIN s = DOMAIN Closed
  BY DEF SpoolInv, Shape, Handle, After, Closed
<1>2. ASSUME NEW t, Goes(h, t), UNCHANGED <<files, owed>>,
             t.frees /\ t.pc \in After =>
               \/ s.frees /\ s.pc \in After /\ t.rec = s.rec
               \/ <<t.rec, "records">> \in files
      PROVE  ReleaseInv' /\ StoredOrHeld'
  <2>1. handle'[h] = t /\ \A k \in Handles : k # h => handle'[k] = handle[k]
    BY <1>1, <1>2, GoesIs
  <2> QED BY <1>2, <2>1, ElsewhereKeeps
<1>3. ASSUME NEW t, Goes(h, t), UNCHANGED <<files, owed>>, t.pc \notin After
      PROVE  ReleaseInv' /\ StoredOrHeld'
  BY <1>2, <1>3
<1>4. ASSUME NEW u \in Handle, NEW pc, pc \notin After, Goes(h, [u EXCEPT !.pc = pc]), UNCHANGED <<files, owed>>
      PROVE  ReleaseInv' /\ StoredOrHeld'
  <2>1. [u EXCEPT !.pc = pc].pc = pc
    BY DEF Handle
  <2> HIDE DEF s
  <2> QED BY <1>3, <1>4, <2>1
<1>5. ASSUME NEW u \in Handle, NEW then, then \notin After, StartsWalk(h, u, then), UNCHANGED <<files, owed>>
      PROVE  ReleaseInv' /\ StoredOrHeld'
  <2>1. Walking(u, then).pc = "walk" /\ "walk" \notin After
    BY DEF Walking, Handle, After
  <2>2. CASE Goes(h, Walking(u, then))
    BY <1>3, <1>5, <2>1, <2>2
  <2>3. CASE Goes(h, [u EXCEPT !.pc = then])
    BY <1>4, <1>5, <2>3
  <2> QED BY <1>5, <2>2, <2>3 DEF StartsWalk
<1>6. /\ Ended(s).pc = "idle" /\ Left(s).pc = "idle" /\ Closed.pc = "closed"
      /\ {"idle", "closed", "walk", "land", "refuse", "remove", "put", "list", "deleted", "judge", "recheck"} \cap After = {}
  BY <1>1, Resting DEF Rests, After
<1>7. CASE Open(h)
  <2>1. StartsWalk(h, s, "idle") /\ UNCHANGED <<files, owed>>
    BY <1>7 DEF Open
  <2> HIDE DEF s
  <2> QED BY <1>1, <1>5, <1>6, <2>1
<1>8. CASE WalkSlot(h)
  <2> DEFINE t == [s EXCEPT !.sum = @ + BytesIn(Head(s.walk)), !.walk = Tail(@)]
  <2>1. Goes(h, t) /\ UNCHANGED <<files, owed>> /\ s.pc = "walk"
    BY <1>8 DEF WalkSlot, disk, history
  <2>2. t.pc = "walk"
    BY <1>1, <2>1 DEF Closed
  <2> HIDE DEF s, t
  <2> QED BY <1>3, <1>6, <2>1, <2>2
<1>9. CASE WalkEnds(h)
  <2> DEFINE t == [s EXCEPT !.usage = s.sum, !.fresh = s.snap, !.snap = FALSE,
                            !.sum = 0, !.pc = s.then, !.then = "none"]
  <2>1. Goes(h, t) /\ UNCHANGED <<files, owed>>
    BY <1>9 DEF WalkEnds, disk, history
  <2>2. t.pc = s.then
    BY <1>1 DEF Closed
  <2> HIDE DEF s, t
  <2> QED BY <1>1, <1>3, <2>1, <2>2
<1>10. CASE Judge(h)
  <2>1. UNCHANGED <<files, owed>> /\ s.pc = "judge" /\ "judge" \in Storing
    BY <1>10 DEF Judge, disk, Storing
  <2>2. s.frees => s.slot = "records"
    BY <2>1, StoringHas
  <2>3. CASE Stored(s) /\ Goes(h, [s EXCEPT !.pc = "done"])
    <3>1. /\ [s EXCEPT !.pc = "done"].frees = s.frees /\ [s EXCEPT !.pc = "done"].rec = s.rec
      BY <1>1 DEF Closed
    <3>2. s.frees => <<s.rec, "records">> \in files
      BY <2>2, <2>3 DEF Stored
    <3> HIDE DEF s
    <3> QED BY <1>2, <2>1, <2>3, <3>1, <3>2
  <2>4. CASE Goes(h, [s EXCEPT !.pc = "land"])
    BY <1>1, <1>4, <1>6, <2>1, <2>4
  <2>5. CASE StartsWalk(h, s, "recheck")
    BY <1>1, <1>5, <1>6, <2>1, <2>5
  <2> QED BY <1>10, <2>3, <2>4, <2>5 DEF Judge
<1>11. CASE Recheck(h)
  <2>1. UNCHANGED <<files, owed>> /\ (Goes(h, [s EXCEPT !.pc = "refuse"]) \/ Goes(h, [s EXCEPT !.pc = "land"]))
    BY <1>11 DEF Recheck, disk
  <2> HIDE DEF s
  <2> QED BY <1>1, <1>4, <1>6, <2>1
<1>12. CASE Refuse(h) \/ Probed(h)
  <2>1. UNCHANGED <<files, owed>> /\ Goes(h, Left(s))
    BY <1>12 DEF Refuse, Probed, disk, history
  <2> HIDE DEF s
  <2> QED BY <1>3, <1>6, <2>1
<1>13. CASE Done(h)
  <2>1. UNCHANGED <<files, owed>> /\ s.pc = "done" /\ "done" \in After
    BY <1>13 DEF Done, disk, history, After
  <2>2. CASE s.frees /\ Goes(h, [s EXCEPT !.pc = "unhold"])
    <3>1. [s EXCEPT !.pc = "unhold"].rec = s.rec
      BY <1>1 DEF Closed
    <3> HIDE DEF s
    <3> QED BY <1>2, <2>1, <2>2, <3>1
  <2>3. CASE Goes(h, Ended(s))
    BY <1>3, <1>6, <2>1, <2>3
  <2> QED BY <1>13, <2>2, <2>3 DEF Done
<1>14. CASE List(h)
  <2> DEFINE t == [s EXCEPT !.pc = "remove", !.slot = Head(s.slots), !.slots = Tail(@),
                            !.todo = s.match \cap In(Head(s.slots)), !.gone = {}]
  <2>1. Goes(h, t) /\ UNCHANGED <<files, owed>>
    BY <1>14 DEF List, disk, history
  <2>2. t.pc = "remove"
    BY <1>1 DEF Closed
  <2> HIDE DEF s, t
  <2> QED BY <1>3, <1>6, <2>1, <2>2
<1>15. CASE ReadIndex(h)
  <2> DEFINE t == [s EXCEPT !.pc = "put", !.todo = {r \in lines : HomeOf(r) = s.slot}]
  <2>1. (Goes(h, t) \/ Goes(h, [s EXCEPT !.pc = "list"])) /\ UNCHANGED <<files, owed>>
    BY <1>15 DEF ReadIndex, disk, history
  <2>2. t.pc = "put"
    BY <1>1 DEF Closed
  <2> HIDE DEF s, t
  <2> QED BY <1>1, <1>3, <1>4, <1>6, <2>1, <2>2
<1>16. CASE Listed(h) \/ Deleted(h) \/ Crash(h)
  <2>1. /\ Goes(h, [s EXCEPT !.pc = "deleted"]) \/ Goes(h, Ended(s)) \/ Goes(h, Closed)
        /\ UNCHANGED <<files, owed>>
    BY <1>16 DEF Listed, Deleted, Crash, disk, history
  <2> HIDE DEF s
  <2> QED BY <1>1, <1>3, <1>4, <1>6, <2>1
<1>17. ASSUME NEW r \in Records \cup {NoRecord}, NEW slot \in Slots \cup {"probe"}, NEW frees \in BOOLEAN,
              Starts(h, r, slot, frees)
       PROVE  ReleaseInv' /\ StoredOrHeld'
  <2> DEFINE u == [s EXCEPT !.rec = r, !.slot = slot, !.frees = frees]
  <2>1. u \in Handle
    BY <1>1 DEF Handle
  <2>2. (Goes(h, [u EXCEPT !.pc = "judge"]) \/ StartsWalk(h, u, "judge")) /\ UNCHANGED <<files, owed>>
    BY <1>17 DEF Starts, disk
  <2> HIDE DEF s, u
  <2> QED BY <1>4, <1>5, <1>6, <2>1, <2>2
<1>18. CASE Probe(h)
  BY <1>17, <1>18 DEF Probe
<1>19. ASSUME NEW r \in Records, Write(h, r) \/ WriteRecord(h, r) \/ Hold(h, r) \/ Release(h, r)
       PROVE  ReleaseInv' /\ StoredOrHeld'
  <2>1. \E slot \in Slots : \E frees \in BOOLEAN : Starts(h, r, slot, frees)
    BY <1>19 DEF Write, WriteRecord, Hold, Release, Slots
  <2> QED BY <1>17, <2>1
<1>20. ASSUME NEW match \in SUBSET Records, NEW slots \in Orders, Starting(h, match, slots)
       PROVE  ReleaseInv' /\ StoredOrHeld'
  <2> DEFINE u == [s EXCEPT !.match = match, !.slots = slots]
  <2>1. u \in Handle
    BY <1>1 DEF Handle
  <2>2. StartsWalk(h, u, "list") /\ UNCHANGED <<files, owed>>
    BY <1>20 DEF Starting
  <2> HIDE DEF s, u
  <2> QED BY <1>5, <1>6, <2>1, <2>2
<1>21. <<"rawcalls", "records", "held">> \in Orders /\ \A r : <<HomeOf(r)>> \in Orders
  BY DEF Orders, HomeOf
<1>22. ASSUME NEW r \in Records, DeleteEntry(h, r) PROVE ReleaseInv' /\ StoredOrHeld'
  BY <1>20, <1>21, <1>22 DEF DeleteEntry
<1>23. ASSUME NEW p \in Projects, DeleteProject(h, p) PROVE ReleaseInv' /\ StoredOrHeld'
  BY <1>20, <1>21, <1>23 DEF DeleteProject
<1>24. ASSUME NEW c \in Sessions, DeleteSession(h, c) PROVE ReleaseInv' /\ StoredOrHeld'
  BY <1>20, <1>21, <1>24 DEF DeleteSession
<1> QED BY <1>7, <1>8, <1>9, <1>10, <1>11, <1>12, <1>13, <1>14, <1>15, <1>16, <1>18, <1>19, <1>22, <1>23, <1>24

\* The steps that write or take a file or a line.
LEMMA FileStepsKeep ==
  ASSUME SpoolInv, ReleaseInv, StoredOrHeld, Apart, NEW h \in Handles,
         Land(h) \/ AddLine(h) \/ Unhold(h) \/ PutIndex(h) \/ \E r \in Records : Remove(h, r)
  PROVE  ReleaseInv' /\ StoredOrHeld'
<1> DEFINE s == handle[h]
<1>1. Shape /\ s \in Handle /\ DOMAIN s = DOMAIN Closed
      /\ DOMAIN Closed = {"pc", "rec", "slot", "frees", "match", "slots", "todo", "gone", "walk", "sum",
                          "snap", "then", "usage", "fresh"}
  BY DEF SpoolInv, Shape, Handle, Closed
<1>2. CASE Land(h)
  <2> DEFINE t == [s EXCEPT !.pc = IF Counts(s) THEN "line" ELSE "done",
                            !.usage = IF Counts(s) THEN @ + Size[s.rec] ELSE @]
  <2>1. PICK missed : Changes(h, t, missed)
    BY <1>2 DEF Land
  <2>2. DOMAIN t = DOMAIN Closed /\ t.rec = s.rec
    <3> HIDE DEF s
    <3> QED BY <1>1
  <2>3. /\ handle'[h].rec = s.rec
        /\ \A k \in Handles : k # h =>
             /\ handle'[k].pc = handle[k].pc /\ handle'[k].rec = handle[k].rec
             /\ handle'[k].frees = handle[k].frees
    <3> HIDE DEF t
    <3> QED BY <1>1, <2>1, <2>2, ChangesIs
  <2>4. /\ files' = files \cup {<<s.rec, s.slot>>} /\ owed' = owed \cup {s.rec} /\ s.pc = "land" /\ s.slot # "probe"
    BY <1>2 DEF Land
  <2>5. s.slot \in Slots /\ Stores(s) /\ (s.frees => s.slot = "records")
    BY <2>4, StoringHas DEF Storing
  <2>6. StoredOrHeld'
    BY <2>4, <2>5 DEF StoredOrHeld
  <2>7. ASSUME NEW k \in Handles, handle'[k].frees, handle'[k].pc \in After
        PROVE  <<handle'[k].rec, "records">> \in files' \/ handle'[k].rec \notin owed'
    <3>1. CASE k = h
      <4>1. s.frees
        <5>1. handle'[h].frees = t.frees
          <6>1. handle'[h] = [t EXCEPT !.fresh = t.fresh /\ h \in missed \cap Writers, !.snap = t.snap /\ h \in missed]
            BY <2>1 DEF Changes
          <6>2. "frees" \in DOMAIN t
            BY <1>1, <2>2
          <6> HIDE DEF t
          <6> QED BY <6>1, <6>2
        <5>2. t.frees = s.frees
          <6> HIDE DEF s
          <6> QED BY <1>1
        <5> QED BY <2>7, <3>1, <5>1, <5>2
      <4> HIDE DEF s
      <4> QED BY <2>3, <2>4, <2>5, <3>1, <4>1
    <3>2. CASE k # h
      <4>1. handle[k].frees /\ handle[k].pc \in After /\ handle'[k].rec = handle[k].rec
        BY <2>3, <2>7, <3>2
      <4>2. <<handle[k].rec, "records">> \in files \/ handle[k].rec \notin owed
        BY <4>1 DEF ReleaseInv
      <4>3. s.rec = handle[k].rec => s.slot = "records"
        <5>1. s.rec = handle[k].rec => s.slot # "held"
          BY <4>1 DEF Apart
        <5>2. handle[k].rec \notin Rawcalls
          <6>1. handle[k].pc \in Storing
            BY <4>1 DEF After, Storing
          <6>2. handle[k].slot = "records" /\ Stores(handle[k])
            BY <4>1, <6>1, StoringHas
          <6> QED BY <6>2 DEF Stores, HomeOf
        <5> QED BY <2>5, <5>1, <5>2 DEF Stores, HomeOf
      <4> HIDE DEF s
      <4> QED BY <2>4, <4>1, <4>2, <4>3
    <3> QED BY <3>1, <3>2
  <2> QED BY <2>6, <2>7 DEF ReleaseInv
<1>3. CASE AddLine(h)
  <2> DEFINE t == [s EXCEPT !.pc = "done", !.usage = @ + LineSize]
  <2>1. PICK missed : Changes(h, t, missed)
    BY <1>3 DEF AddLine
  <2>2. DOMAIN t = DOMAIN Closed /\ t.rec = s.rec /\ t.frees = s.frees
    <3> HIDE DEF s
    <3> QED BY <1>1
  <2>3. /\ handle'[h].rec = s.rec
        /\ \A k \in Handles : k # h =>
             /\ handle'[k].pc = handle[k].pc /\ handle'[k].rec = handle[k].rec
             /\ handle'[k].frees = handle[k].frees
    <3> HIDE DEF t
    <3> QED BY <1>1, <2>1, <2>2, ChangesIs
  <2>4. handle'[h].frees = s.frees
    <3>1. handle'[h] = [t EXCEPT !.fresh = t.fresh /\ h \in missed \cap Writers, !.snap = t.snap /\ h \in missed]
      BY <2>1 DEF Changes
    <3>2. "frees" \in DOMAIN t
      BY <1>1, <2>2
    <3> HIDE DEF t
    <3> QED BY <2>2, <3>1, <3>2
  <2>5. UNCHANGED <<files, owed>> /\ s.pc = "line" /\ "line" \in After
    BY <1>3 DEF AddLine, After
  <2> QED BY <2>3, <2>4, <2>5, ElsewhereKeeps
<1>4. CASE Unhold(h)
  <2>1. PICK missed : Changes(h, Ended(s), missed)
    BY <1>4 DEF Unhold
  <2>2. DOMAIN Ended(s) = DOMAIN Closed /\ Ended(s).pc = "idle"
    BY <1>1 DEF Ended, Closed
  <2>3. /\ handle'[h].pc = "idle"
        /\ \A k \in Handles : k # h =>
             /\ handle'[k].pc = handle[k].pc /\ handle'[k].rec = handle[k].rec
             /\ handle'[k].frees = handle[k].frees
    BY <1>1, <2>1, <2>2, ChangesIs
  <2>4. files' = files \ {<<s.rec, "held">>} /\ owed' = owed /\ s.pc = "unhold" /\ "unhold" \in After /\ "idle" \notin After
    BY <1>4 DEF Unhold, history, After
  <2>5. s.frees
    <3>1. StoreOK(h, s) /\ At(s) = "unhold"
      BY <2>4 DEF SpoolInv, StoreInv, At
    <3> QED BY <3>1 DEF StoreOK
  <2>6. <<s.rec, "records">> \in files \/ s.rec \notin owed
    BY <2>4, <2>5 DEF ReleaseInv
  <2> HIDE DEF s
  <2>7. StoredOrHeld'
    BY <2>4, <2>6 DEF StoredOrHeld, Slots
  <2>8. ReleaseInv'
    BY <2>3, <2>4 DEF ReleaseInv
  <2> QED BY <2>7, <2>8
<1>5. CASE PutIndex(h)
  <2> DEFINE d == -LineSize * Cardinality(s.todo \cap s.gone)
             v == [s EXCEPT !.pc = "list", !.todo = {}, !.gone = {}]
             t == Charged(h, v, d)
  <2>1. PICK missed : Changes(h, t, missed)
    BY <1>5 DEF PutIndex
  <2>2. DOMAIN t = DOMAIN Closed /\ t.pc = "list"
    <3> HIDE DEF s, d
    <3>1. DOMAIN v = DOMAIN Closed /\ v.pc = "list"
      BY <1>1
    <3> HIDE DEF v
    <3> QED BY <1>1, <3>1 DEF Charged
  <2>3. /\ handle'[h].pc = "list"
        /\ \A k \in Handles : k # h =>
             /\ handle'[k].pc = handle[k].pc /\ handle'[k].rec = handle[k].rec
             /\ handle'[k].frees = handle[k].frees
    <3> HIDE DEF t
    <3> QED BY <1>1, <2>1, <2>2, ChangesIs
  <2>4. UNCHANGED <<files, owed>> /\ "list" \notin After
    BY <1>5 DEF PutIndex, history, After
  <2> QED BY <2>3, <2>4, ElsewhereKeeps
<1>6. ASSUME NEW r \in Records, Remove(h, r) PROVE ReleaseInv' /\ StoredOrHeld'
  <2> DEFINE there == <<r, s.slot>> \in files
             d == IF there /\ Counts(s) THEN -Size[r] ELSE 0
             v == [s EXCEPT !.todo = @ \ {r}, !.gone = IF there THEN @ \cup {r} ELSE @]
             t == Charged(h, v, d)
  <2>1. PICK missed : Changes(h, t, missed)
    BY <1>6 DEF Remove
  <2>2. DOMAIN t = DOMAIN Closed /\ t.pc = s.pc
    <3> HIDE DEF s, d, there
    <3>1. DOMAIN v = DOMAIN Closed /\ v.pc = s.pc
      BY <1>1
    <3> HIDE DEF v
    <3> QED BY <1>1, <3>1 DEF Charged
  <2>3. /\ handle'[h].pc = s.pc
        /\ \A k \in Handles : k # h =>
             /\ handle'[k].pc = handle[k].pc /\ handle'[k].rec = handle[k].rec
             /\ handle'[k].frees = handle[k].frees
    <3> HIDE DEF t
    <3> QED BY <1>1, <2>1, <2>2, ChangesIs
  <2>4. files' = files \ {<<r, s.slot>>} /\ owed' = owed \ {r} /\ s.pc = "remove" /\ "remove" \notin After
    BY <1>6 DEF Remove, After
  <2> HIDE DEF s
  <2>5. StoredOrHeld'
    BY <2>4 DEF StoredOrHeld
  <2>6. ReleaseInv'
    BY <2>3, <2>4 DEF ReleaseInv
  <2> QED BY <2>5, <2>6
<1> QED BY <1>2, <1>3, <1>4, <1>5, <1>6

\* No step of handles that stay apart breaks them.
LEMMA KeptHolds == SpoolInv /\ Apart /\ ReleaseInv /\ StoredOrHeld /\ [Next]_vars => ReleaseInv' /\ StoredOrHeld'
<1> SUFFICES ASSUME SpoolInv, Apart, ReleaseInv, StoredOrHeld, [Next]_vars PROVE ReleaseInv' /\ StoredOrHeld'
  OBVIOUS
<1>1. CASE Next
  <2>1. PICK h \in Handles :
          \/ Open(h) \/ WalkSlot(h) \/ WalkEnds(h) \/ Judge(h) \/ Recheck(h) \/ Refuse(h) \/ Done(h)
          \/ List(h) \/ ReadIndex(h) \/ Listed(h) \/ Deleted(h) \/ Crash(h) \/ Probe(h) \/ Probed(h)
          \/ \E r \in Records : Write(h, r) \/ WriteRecord(h, r) \/ Hold(h, r) \/ Release(h, r) \/ DeleteEntry(h, r)
          \/ \E p \in Projects : DeleteProject(h, p)
          \/ \E s \in Sessions : DeleteSession(h, s)
          \/ Land(h) \/ AddLine(h) \/ Unhold(h) \/ PutIndex(h) \/ \E r \in Records : Remove(h, r)
    BY <1>1 DEF Next
  <2> QED BY <2>1, OthersKeep, FileStepsKeep
<1>2. CASE UNCHANGED vars
  <2>1. UNCHANGED <<files, owed, handle>>
    BY <1>2 DEF vars, disk, history
  <2> QED BY <2>1 DEF ReleaseInv, StoredOrHeld
<1> QED BY <1>1, <1>2

\* A record stored or held back stays in some slot until it is deleted, where
\* no handle holds a record back that another is releasing (held.go).
THEOREM StoredIsKept == Spec /\ []Apart => []StoredOrHeld
<1>1. Init => ReleaseInv /\ StoredOrHeld
  <2> SUFFICES ASSUME Init PROVE ReleaseInv /\ StoredOrHeld
    OBVIOUS
  <2>1. owed = {} /\ \A h \in Handles : handle[h] = Closed
    BY DEF Init
  <2>2. Closed.frees = FALSE
    BY DEF Closed
  <2> QED BY <2>1, <2>2 DEF ReleaseInv, StoredOrHeld
<1>2. Spec /\ []Apart => [](ReleaseInv /\ StoredOrHeld)
  BY <1>1, KeptHolds, SpoolInvariance, PTL DEF Spec
<1> QED BY <1>2, PTL

\* With one handle that writes nothing more need be assumed: a handle does one
\* thing at a time.
THEOREM StoredIsKeptByOne ==
  ASSUME Cardinality(Writers) = 1
  PROVE  Spec => []StoredOrHeld
<1>1. SpoolInv => Apart
  <2> SUFFICES ASSUME SpoolInv, NEW h \in Handles, NEW k \in Handles, handle[k].frees,
                      handle[h].rec = handle[k].rec
               PROVE  handle[h].slot # "held"
    BY DEF Apart
  <2>1. StoreOK(h, handle[h]) /\ StoreOK(k, handle[k])
    BY DEF SpoolInv, StoreInv
  <2>2. PICK w : Writers = {w}
    <3>1. IsFiniteSet(Writers)
      BY SpoolConstants, FS_Subset
    <3> QED BY <3>1, FS_Singleton
  <2>3. At(handle[k]) \in Storing /\ handle[k].slot = "records" /\ handle[k].rec \in Records /\ k \in Writers
    BY <2>1 DEF StoreOK, Probes, Stores
  <2>4. At(handle[h]) \in Storing /\ h \in Writers
    BY <2>1, <2>3, SpoolConstants DEF StoreOK
  <2> QED BY <2>2, <2>3, <2>4
<1>2. Spec => []Apart
  BY <1>1, SpoolInvariance, PTL
<1> QED BY <1>2, StoredIsKept, PTL
=============================================================================
