---- MODULE StageProofs ----
(***************************************************************************)
(* What TLAPS proves about Stage, for any views, names, columns, bounds of *)
(* the commands and lengths of the queue: every booted document was told   *)
(* the place its view has, the keyboard is where the page says it is, and  *)
(* the stored list is what is open.                                        *)
(*                                                                         *)
(* The methods of WorkspaceViews call one another, so the proof goes by    *)
(* method: what each makes of a stage, from what it needs of it.  Settled  *)
(* is what holds of a stage between two calls; Holds adds what the queue   *)
(* of operations and the boot are up to; IInv is Holds of the variables.   *)
(***************************************************************************)
EXTENDS Stage, FiniteSetTheorems, WellFoundedInduction, TLAPS

\* Of numbers there is a least one.
LEMMA Least ==
    ASSUME NEW T \in SUBSET Nat, T # {}
    PROVE  \E x \in T : \A y \in T : x <= y
<1>. DEFINE Below == {0 .. x : x \in T}
<1>1. Below \subseteq FiniteSubsetsOf(Nat) /\ Below # {}
  <2>1. \A x \in T : IsFiniteSet(0 .. x) /\ 0 .. x \subseteq Nat
    BY FS_Interval
  <2>. QED  BY <2>1 DEF FiniteSubsetsOf
<1>2. IsWellFoundedOn(StrictSubsetOrdering(Nat), FiniteSubsetsOf(Nat))
  BY FS_StrictSubsetOrderingWellFounded
<1>. HIDE DEF Below
<1>3. PICK s \in Below : \A t \in Below : ~ (<<t, s>> \in StrictSubsetOrdering(Nat))
  BY <1>1, <1>2, WFMin
<1>4. PICK x \in T : s = 0 .. x
  BY DEF Below
<1>5. ASSUME NEW y \in T PROVE x <= y
  <2>1. SUFFICES ASSUME y < x PROVE FALSE
    OBVIOUS
  <2>2. 0 .. y \in Below /\ 0 .. y \in SUBSET (0 .. x) /\ 0 .. y # 0 .. x
    BY <2>1 DEF Below
  <2>3. <<0 .. y, s>> \in StrictSubsetOrdering(Nat)
    <3>1. 0 .. y \in SUBSET Nat /\ s \in SUBSET Nat /\ 0 .. y \subseteq s /\ 0 .. y # s
      BY <1>4, <2>2
    <3>. HIDE <1>3, <1>4, <2>2
    <3>. QED  BY ONLY <3>1 DEF StrictSubsetOrdering
  <2>. QED  BY <1>3, <2>2, <2>3
<1>. QED  BY <1>5

\* Of positions there is a k-th: the least one up to which k are counted.
LEMMA NthCounts ==
    ASSUME NEW n \in Nat, NEW I \in SUBSET (1 .. n), NEW k \in 1 .. Cardinality(I)
    PROVE  Nth(I, k) \in I /\ Cardinality({j \in I : j <= Nth(I, k)}) = k
<1>. DEFINE Upto(m) == {j \in I : j <= m}
            T == {m \in Nat : Cardinality(Upto(m)) >= k}
<1>0. \A j \in I : j \in Nat /\ 1 <= j /\ j <= n
  OBVIOUS
<1>1. IsFiniteSet(I) /\ \A m \in Nat : IsFiniteSet(Upto(m)) /\ Cardinality(Upto(m)) \in Nat
  <2>1. IsFiniteSet(1 .. n)
    BY FS_Interval
  <2>2. IsFiniteSet(I)
    BY <2>1, FS_Subset
  <2>3. \A m \in Nat : Upto(m) \subseteq I
    OBVIOUS
  <2>4. \A m \in Nat : IsFiniteSet(Upto(m))
    BY <2>2, <2>3, FS_Subset
  <2>. QED  BY <2>2, <2>4, FS_CardinalityType
<1>2. n \in T
  <2>1. Upto(n) = I
    BY <1>0
  <2>2. Cardinality(I) \in Nat
    BY <1>1, FS_CardinalityType
  <2>. QED  BY <2>1, <2>2
<1>. HIDE DEF T
<1>3. PICK m \in T : \A y \in T : m <= y
  <2>1. T \in SUBSET Nat /\ T # {}
    BY <1>2 DEF T
  <2>. QED  BY <2>1, Least
<1>4. m \in Nat /\ Cardinality(Upto(m)) >= k /\ k \in Nat /\ k >= 1
  <2>1. Cardinality(I) \in Nat
    BY <1>1, FS_CardinalityType
  <2>. QED  BY <2>1 DEF T
<1>5. m # 0
  <2>1. Upto(0) = {}
    <3>1. \A j \in I : ~ (j <= 0)
      BY <1>0
    <3>. QED  BY <3>1
  <2>2. Cardinality(Upto(0)) = 0
    BY <2>1, FS_EmptySet
  <2>. QED  BY <1>4, <2>2
<1>6. m - 1 \in Nat /\ Cardinality(Upto(m - 1)) < k /\ Cardinality(Upto(m - 1)) \in Nat
  <2>1. m - 1 \in Nat /\ ~ (m <= m - 1)
    BY <1>4, <1>5
  <2>2. Cardinality(Upto(m - 1)) \in Nat
    BY <1>1, <2>1
  <2>3. m - 1 \notin T
    BY <1>3, <2>1
  <2>. QED  BY <1>4, <2>1, <2>2, <2>3 DEF T
<1>7. m \in I
  <2>1. SUFFICES ASSUME m \notin I PROVE FALSE
    OBVIOUS
  <2>2. Upto(m) = Upto(m - 1)
    <3>1. \A j \in I : j <= m <=> j <= m - 1
      BY <1>0, <1>4, <2>1
    <3>. QED  BY <3>1
  <2>. QED  BY <1>4, <1>6, <2>2
<1>8. Cardinality(Upto(m)) = k
  <2>1. Upto(m) = Upto(m - 1) \cup {m} /\ m \notin Upto(m - 1)
    <3>1. \A j \in I : j <= m <=> j <= m - 1 \/ j = m
      BY <1>0, <1>4
    <3>2. ~ (m <= m - 1)
      BY <1>4
    <3>. QED  BY <1>7, <3>1, <3>2
  <2>2. Cardinality(Upto(m - 1) \cup {m}) = Cardinality(Upto(m - 1)) + 1
    BY <1>1, <1>6, <2>1, FS_AddElement
  <2>. QED  BY <1>4, <1>6, <2>1, <2>2
<1>. QED  BY <1>7, <1>8 DEF Nth

\* What is picked of a list is a list of some of its elements.
LEMMA PickedOfIt ==
    ASSUME NEW S, NEW rows \in Seq(S), NEW I \in SUBSET DOMAIN rows
    PROVE  /\ Picked(rows, I) \in Seq(S) /\ Len(Picked(rows, I)) = Cardinality(I) /\ Cardinality(I) \in Nat
           /\ \A k \in 1 .. Cardinality(I) : Nth(I, k) \in I /\ Picked(rows, I)[k] = rows[Nth(I, k)]
<1>1. Len(rows) \in Nat /\ I \subseteq 1 .. Len(rows)
  OBVIOUS
<1>2. IsFiniteSet(1 .. Len(rows))
  BY <1>1, FS_Interval
<1>3. IsFiniteSet(I) /\ Cardinality(I) \in Nat
  BY <1>1, <1>2, FS_Subset, FS_CardinalityType
<1>4. \A k \in 1 .. Cardinality(I) : Nth(I, k) \in I
  BY <1>1, NthCounts
<1>5. \A k \in 1 .. Cardinality(I) : Picked(rows, I)[k] = rows[Nth(I, k)] /\ rows[Nth(I, k)] \in S
  BY <1>1, <1>4 DEF Picked
<1>6. Picked(rows, I) = [k \in 1 .. Cardinality(I) |-> Picked(rows, I)[k]]
  BY DEF Picked
<1>. QED  BY <1>3, <1>4, <1>5, <1>6

\* Every position that is picked is somewhere in what is picked.
LEMMA PickedAll ==
    ASSUME NEW S, NEW rows \in Seq(S), NEW I \in SUBSET DOMAIN rows, NEW i \in I
    PROVE  \E k \in 1 .. Cardinality(I) : Picked(rows, I)[k] = rows[i]
<1>. DEFINE Upto(m) == {j \in I : j <= m}
            k == Cardinality(Upto(i))
<1>1. Len(rows) \in Nat /\ I \subseteq 1 .. Len(rows) /\ IsFiniteSet(1 .. Len(rows))
  BY FS_Interval
<1>2. IsFiniteSet(I) /\ \A j \in I : j \in Nat
  BY <1>1, FS_Subset
<1>3. \A m : Upto(m) \subseteq I
  OBVIOUS
<1>4. \A m : IsFiniteSet(Upto(m)) /\ Cardinality(Upto(m)) \in Nat /\ Cardinality(Upto(m)) <= Cardinality(I)
  BY <1>2, <1>3, FS_Subset, FS_CardinalityType
<1>5. i \in Upto(i)
  BY <1>2
<1>6. k \in 1 .. Cardinality(I)
  <2>1. Cardinality(I) \in Nat /\ k \in Nat /\ k <= Cardinality(I)
    BY <1>2, <1>4, FS_CardinalityType
  <2>2. k # 0
    BY <1>4, <1>5, FS_EmptySet
  <2>. HIDE DEF k
  <2>. QED  BY <2>1, <2>2
<1>7. ASSUME NEW a \in I, NEW b \in I, a < b PROVE Cardinality(Upto(a)) # Cardinality(Upto(b))
  <2>1. Upto(a) \subseteq Upto(b) /\ b \in Upto(b) /\ b \notin Upto(a)
    BY <1>2, <1>7
  <2>. QED  BY <1>4, <2>1, FS_Subset
<1>8. Nth(I, k) \in I /\ Cardinality(Upto(Nth(I, k))) = k
  <2>1. PICK l \in 1 .. Cardinality(I) : l = k
    BY <1>6
  <2>2. Nth(I, l) \in I /\ Cardinality({j \in I : j <= Nth(I, l)}) = l
    BY <1>1, NthCounts
  <2>. QED  BY <2>1, <2>2
<1>9. Nth(I, k) = i
  <2>1. PICK n \in I : n = Nth(I, k)
    BY <1>8
  <2>2. ~ (n < i) /\ ~ (i < n)
    BY <1>7, <1>8, <2>1
  <2>. QED  BY <1>2, <2>1, <2>2
<1>. HIDE DEF k
<1>. QED  BY <1>6, <1>9 DEF Picked

\* What is in a list that is picked of another, and that it has no twice what that has once.
LEMMA PickedHolds ==
    ASSUME NEW S, NEW rows \in Seq(S), NEW I \in SUBSET DOMAIN rows
    PROVE  /\ ToSet(Picked(rows, I)) = {rows[i] : i \in I}
           /\ (\A i, j \in I : rows[i] = rows[j] => i = j) => IsInjective(Picked(rows, I))
<1>1. DOMAIN Picked(rows, I) = 1 .. Cardinality(I)
  BY DEF Picked
<1>2. \A k \in 1 .. Cardinality(I) : Nth(I, k) \in I /\ Picked(rows, I)[k] = rows[Nth(I, k)]
  BY PickedOfIt
<1>3. \A i \in I : \E k \in 1 .. Cardinality(I) : Picked(rows, I)[k] = rows[i]
  BY PickedAll
<1>4. ToSet(Picked(rows, I)) = {rows[i] : i \in I}
  <2>1. ToSet(Picked(rows, I)) = {Picked(rows, I)[k] : k \in 1 .. Cardinality(I)}
    BY <1>1 DEF ToSet
  <2>2. ASSUME NEW k \in 1 .. Cardinality(I) PROVE Picked(rows, I)[k] \in {rows[i] : i \in I}
    BY <1>2
  <2>. QED  BY <1>3, <2>1, <2>2
<1>5. ASSUME NEW k \in 1 .. Cardinality(I), NEW l \in 1 .. Cardinality(I), Nth(I, k) = Nth(I, l) PROVE k = l
  <2>1. Len(rows) \in Nat /\ I \in SUBSET (1 .. Len(rows))
    OBVIOUS
  <2>2. Cardinality({j \in I : j <= Nth(I, k)}) = k /\ Cardinality({j \in I : j <= Nth(I, l)}) = l
    BY <2>1, NthCounts
  <2>. QED  BY <1>5, <2>2
<1>6. ASSUME \A i, j \in I : rows[i] = rows[j] => i = j,
             NEW k \in 1 .. Cardinality(I), NEW l \in 1 .. Cardinality(I), Picked(rows, I)[k] = Picked(rows, I)[l]
      PROVE  k = l
  <2>1. PICK i \in I, j \in I : i = Nth(I, k) /\ j = Nth(I, l)
    BY <1>2
  <2>2. rows[i] = rows[j]
    BY <1>2, <1>6, <2>1
  <2>. QED  BY <1>5, <1>6, <2>1, <2>2
<1>. QED  BY <1>1, <1>4, <1>6 DEF IsInjective

\* A list without one of its elements.
LEMMA WithoutIs ==
    ASSUME NEW S, NEW rows \in Seq(S), NEW x
    PROVE  /\ Without(rows, x) \in Seq(S)
           /\ ToSet(Without(rows, x)) = ToSet(rows) \ {x}
           /\ IsInjective(rows) => IsInjective(Without(rows, x))
           /\ IsInjective(rows) /\ Has(rows, x) => Len(Without(rows, x)) = Len(rows) - 1
           /\ Len(Without(rows, x)) \in Nat /\ Len(rows) \in Nat
<1>. DEFINE I == {i \in DOMAIN rows : rows[i] # x}
<1>1. I \in SUBSET DOMAIN rows /\ Without(rows, x) = Picked(rows, I)
  BY DEF Without
<1>. HIDE DEF I
<1>2. Picked(rows, I) \in Seq(S) /\ Len(Picked(rows, I)) = Cardinality(I) /\ Cardinality(I) \in Nat
  BY <1>1, PickedOfIt
<1>3. ToSet(Picked(rows, I)) = {rows[i] : i \in I} /\ (IsInjective(rows) => IsInjective(Picked(rows, I)))
  BY <1>1, PickedHolds DEF IsInjective
<1>4. {rows[i] : i \in I} = ToSet(rows) \ {x}
  BY DEF I, ToSet
<1>5. ASSUME IsInjective(rows), Has(rows, x) PROVE Cardinality(I) = Len(rows) - 1
  <2>1. PICK n \in DOMAIN rows : rows[n] = x
    BY <1>5 DEF Has, ToSet
  <2>2. I = DOMAIN rows \ {n}
    BY <1>5, <2>1 DEF I, IsInjective
  <2>3. IsFiniteSet(1 .. Len(rows)) /\ Cardinality(1 .. Len(rows)) = Len(rows) /\ DOMAIN rows = 1 .. Len(rows) /\ Len(rows) \in Nat
    <3>1. Len(rows) \in Nat /\ DOMAIN rows = 1 .. Len(rows)
      OBVIOUS
    <3>2. PICK m \in Nat : m = Len(rows)
      BY <3>1
    <3>3. IsFiniteSet(1 .. m) /\ Cardinality(1 .. m) = m
      BY FS_Interval
    <3>. QED  BY <3>1, <3>2, <3>3
  <2>4. n \in 1 .. Len(rows) /\ I = (1 .. Len(rows)) \ {n}
    BY <2>1, <2>2, <2>3
  <2>5. Cardinality((1 .. Len(rows)) \ {n}) = Cardinality(1 .. Len(rows)) - 1
    BY <2>3, <2>4, FS_RemoveElement
  <2>. QED  BY <2>3, <2>4, <2>5
<1>. QED  BY <1>1, <1>2, <1>3, <1>4, <1>5

\* A list of those that are known.
LEMMA KnownIs ==
    ASSUME NEW S, NEW rows \in Seq(S), NEW those
    PROVE  /\ Known(rows, those) \in Seq(S)
           /\ ToSet(Known(rows, those)) = ToSet(rows) \cap those
           /\ IsInjective(rows) => IsInjective(Known(rows, those))
           /\ Len(Known(rows, those)) <= Len(rows) /\ Len(Known(rows, those)) \in Nat
<1>. DEFINE I == {i \in DOMAIN rows : rows[i] \in those}
<1>1. I \in SUBSET DOMAIN rows /\ Known(rows, those) = Picked(rows, I)
  BY DEF Known
<1>. HIDE DEF I
<1>2. Picked(rows, I) \in Seq(S) /\ Len(Picked(rows, I)) = Cardinality(I) /\ Cardinality(I) \in Nat
  BY <1>1, PickedOfIt
<1>3. ToSet(Picked(rows, I)) = {rows[i] : i \in I} /\ (IsInjective(rows) => IsInjective(Picked(rows, I)))
  BY <1>1, PickedHolds DEF IsInjective
<1>4. {rows[i] : i \in I} = ToSet(rows) \cap those
  BY DEF I, ToSet
<1>5. Cardinality(I) <= Len(rows)
  <2>1. PICK m \in Nat : m = Len(rows) /\ DOMAIN rows = 1 .. m
    OBVIOUS
  <2>2. IsFiniteSet(1 .. m) /\ Cardinality(1 .. m) = m
    BY FS_Interval
  <2>3. Cardinality(I) <= Cardinality(1 .. m)
    BY <1>1, <2>1, <2>2, FS_Subset
  <2>. QED  BY <2>1, <2>2, <2>3
<1>. QED  BY <1>1, <1>2, <1>3, <1>4, <1>5

\* A list with each of its elements once.
LEMMA OnceIs ==
    ASSUME NEW S, NEW rows \in Seq(S)
    PROVE  Once(rows) \in Seq(S) /\ IsInjective(Once(rows))
<1>. DEFINE I == {i \in DOMAIN rows : \A j \in 1 .. i - 1 : rows[j] # rows[i]}
<1>1. I \in SUBSET DOMAIN rows /\ Once(rows) = Picked(rows, I)
  BY DEF Once
<1>2. \A i, j \in I : rows[i] = rows[j] => i = j
  <2>1. SUFFICES ASSUME NEW i \in I, NEW j \in I, i < j, rows[i] = rows[j] PROVE FALSE
    OBVIOUS
  <2>2. i \in 1 .. j - 1
    BY <2>1
  <2>. QED  BY <2>1, <2>2
<1>. HIDE DEF I
<1>. QED  BY <1>1, <1>2, PickedOfIt, PickedHolds

\* A list with one more.
LEMMA AppendIs ==
    ASSUME NEW S, NEW rows \in Seq(S), NEW x \in S
    PROVE  /\ Append(rows, x) \in Seq(S) /\ Append(rows, x) # << >>
           /\ ToSet(Append(rows, x)) = ToSet(rows) \cup {x}
           /\ IsInjective(rows) /\ ~ Has(rows, x) => IsInjective(Append(rows, x))
           /\ Len(Append(rows, x)) = Len(rows) + 1 /\ Len(rows) \in Nat
<1>1. /\ Append(rows, x) \in Seq(S) /\ Len(Append(rows, x)) = Len(rows) + 1 /\ Len(rows) \in Nat
      /\ DOMAIN rows = 1 .. Len(rows) /\ DOMAIN Append(rows, x) = 1 .. Len(rows) + 1
      /\ Append(rows, x)[Len(rows) + 1] = x
      /\ \A i \in 1 .. Len(rows) : Append(rows, x)[i] = rows[i]
  OBVIOUS
<1>2. \A i \in 1 .. Len(rows) + 1 : i \in 1 .. Len(rows) \/ i = Len(rows) + 1
  BY <1>1
<1>3. ToSet(Append(rows, x)) \subseteq ToSet(rows) \cup {x}
  BY <1>1, <1>2 DEF ToSet
<1>4. ToSet(rows) \cup {x} \subseteq ToSet(Append(rows, x))
  <2>1. \A i \in 1 .. Len(rows) : i \in 1 .. Len(rows) + 1
    BY <1>1
  <2>2. Len(rows) + 1 \in 1 .. Len(rows) + 1
    BY <1>1
  <2>. QED  BY <1>1, <2>1, <2>2 DEF ToSet
<1>5. ASSUME IsInjective(rows), ~ Has(rows, x) PROVE IsInjective(Append(rows, x))
  <2>1. \A i, j \in 1 .. Len(rows) : rows[i] = rows[j] => i = j
    BY <1>1, <1>5 DEF IsInjective
  <2>2. \A i \in 1 .. Len(rows) : rows[i] # x
    BY <1>1, <1>5 DEF Has, ToSet
  <2>. QED  BY <1>1, <1>2, <2>1, <2>2 DEF IsInjective
<1>6. Append(rows, x) # << >>
  BY <1>1
<1>. QED  BY <1>1, <1>3, <1>4, <1>5, <1>6

\* The last of a list, an empty list, and where something is in a list.
LEMMA ListFacts ==
    ASSUME NEW S, NEW rows \in Seq(S)
    PROVE  /\ rows # << >> => Last(rows) \in ToSet(rows)
           /\ rows = << >> <=> ToSet(rows) = {}
           /\ ToSet(rows) \subseteq S
           /\ \A i \in 1 .. Len(rows) : rows[i] \in ToSet(rows)
           /\ Len(rows) \in Nat /\ (rows = << >> <=> Len(rows) = 0)
<1>1. Len(rows) \in Nat /\ DOMAIN rows = 1 .. Len(rows) /\ (rows = << >> <=> Len(rows) = 0)
  OBVIOUS
<1>2. \A i \in 1 .. Len(rows) : rows[i] \in ToSet(rows)
  BY <1>1 DEF ToSet
<1>3. rows # << >> => Len(rows) \in 1 .. Len(rows)
  BY <1>1
<1>4. rows = << >> <=> ToSet(rows) = {}
  <2>1. ToSet(rows) = {} => Len(rows) \notin 1 .. Len(rows)
    BY <1>2
  <2>2. Len(rows) = 0 => 1 .. Len(rows) = {}
    OBVIOUS
  <2>3. ToSet(rows) = {rows[i] : i \in 1 .. Len(rows)}
    BY <1>1 DEF ToSet
  <2>. QED  BY <1>1, <1>3, <2>1, <2>2, <2>3
<1>5. rows # << >> => Last(rows) \in ToSet(rows)
  BY <1>2, <1>3 DEF Last
<1>6. ToSet(rows) \subseteq S
  BY <1>1 DEF ToSet
<1>. QED  BY <1>1, <1>2, <1>4, <1>5, <1>6

\* Where something is in a list.
LEMMA AtIs ==
    ASSUME NEW S, NEW rows \in Seq(S), NEW x
    PROVE  /\ At(rows, x) \in 0 .. Len(rows)
           /\ Has(rows, x) => At(rows, x) \in 1 .. Len(rows) /\ rows[At(rows, x)] = x
<1>. DEFINE I == {i \in 1 .. Len(rows) : rows[i] = x}
<1>1. Len(rows) \in Nat /\ DOMAIN rows = 1 .. Len(rows) /\ I \in SUBSET Nat
  OBVIOUS
<1>2. I # {} => \E i \in I : \A j \in I : i <= j
  BY <1>1, Least
<1>3. At(rows, x) = IF I # {} THEN Min(I) ELSE 0
  BY DEF At, SelectInSeq
<1>4. I # {} => Min(I) \in I
  BY <1>2 DEF Min
<1>5. Has(rows, x) => I # {}
  BY <1>1 DEF Has, ToSet
<1>. QED  BY <1>1, <1>3, <1>4, <1>5

-----------------------------------------------------------------------------
(* The columns. *)

\* Columns of these views; the one with the keyboard is one of them.
Fit(c, these) ==
    /\ c.shown \in Seq(ViewIds) /\ IsInjective(c.shown) /\ Len(c.shown) <= MaxColumns
    /\ ToSet(c.shown) \subseteq these /\ c.active \in ToSet(c.shown)
Empty(c) == c.active = None /\ c.shown = << >>

\* One alone.
LEMMA AloneFits ==
    ASSUME NEW these, NEW v \in ViewIds, v \in these
    PROVE  Fit(ShowAlone(v), these) /\ ShowAlone(v).active = v /\ ToSet(ShowAlone(v).shown) = {v}
<1>1. ShowAlone(v).shown = <<v>> /\ ShowAlone(v).active = v
  BY DEF ShowAlone, Columns
<1>2. <<v>> \in Seq(ViewIds) /\ Len(<<v>>) = 1 /\ DOMAIN <<v>> = {1} /\ <<v>>[1] = v
  OBVIOUS
<1>3. ToSet(<<v>>) = {v} /\ IsInjective(<<v>>)
  BY <1>2 DEF ToSet, IsInjective
<1>4. 1 <= MaxColumns
  BY ColumnsAssumption
<1>. QED  BY <1>1, <1>2, <1>3, <1>4 DEF Fit

\* The keyboard moves to a column, or to a view that is then alone.
LEMMA FocusFits ==
    ASSUME NEW c, NEW these, Empty(c) \/ Fit(c, these), NEW v \in ViewIds, v \in these
    PROVE  Fit(FocusColumn(c, v), these) /\ FocusColumn(c, v).active = v
<1>1. CASE Has(c.shown, v)
  <2>1. Fit(c, these)
    BY <1>1, ListFacts DEF Empty, Has, ToSet
  <2>2. FocusColumn(c, v).shown = c.shown /\ FocusColumn(c, v).active = v
    BY <1>1 DEF FocusColumn, Columns
  <2>. QED  BY <1>1, <2>1, <2>2 DEF Fit, Has
<1>2. CASE ~ Has(c.shown, v)
  BY <1>2, AloneFits DEF FocusColumn
<1>. QED  BY <1>1, <1>2

\* One more: past the limit another one leaves.
LEMMA AddFits ==
    ASSUME NEW c, NEW these, Empty(c) \/ Fit(c, these), NEW v \in ViewIds, v \in these
    PROVE  Fit(AddColumn(c, v), these) /\ AddColumn(c, v).active = v
<1>0. c.shown \in Seq(ViewIds) /\ IsInjective(c.shown) /\ Len(c.shown) <= MaxColumns /\ ToSet(c.shown) \subseteq these
  <2>1. CASE Empty(c)
    BY <2>1, ColumnsAssumption DEF Empty, IsInjective, ToSet
  <2>2. CASE Fit(c, these)
    BY <2>2 DEF Fit
  <2>. QED  BY <2>1, <2>2
<1>1. CASE Has(c.shown, v)
  <2>1. AddColumn(c, v).shown = c.shown /\ AddColumn(c, v).active = v
    BY <1>1 DEF AddColumn, Columns
  <2>. QED  BY <1>0, <1>1, <2>1 DEF Fit, Has
<1>2. CASE ~ Has(c.shown, v)
  <2>1. PICK next \in Seq(ViewIds) :
            /\ next = Append(c.shown, v) /\ ToSet(next) = ToSet(c.shown) \cup {v} /\ IsInjective(next)
            /\ Len(next) = Len(c.shown) + 1 /\ Len(c.shown) \in Nat
    BY <1>0, <1>2, AppendIs
  <2>2. CASE Len(next) <= MaxColumns
    <3>1. ~ (Len(next) > MaxColumns)
      BY <2>1, <2>2, ColumnsAssumption
    <3>2. AddColumn(c, v).shown = next /\ AddColumn(c, v).active = v
      BY <1>2, <2>1, <3>1 DEF AddColumn, Columns
    <3>. QED  BY <1>0, <2>1, <2>2, <3>2 DEF Fit
  <2>3. CASE ~ (Len(next) <= MaxColumns)
    <3>0. Len(next) > MaxColumns /\ MaxColumns \in Nat /\ MaxColumns >= 2 /\ Len(next) = MaxColumns + 1
      BY <1>0, <2>1, <2>3, ColumnsAssumption
    <3>. DEFINE I == {i \in 1 .. Len(next) : next[i] \notin {c.active, v}}
                oldest == SelectInSeq(next, LAMBDA w : w \notin {c.active, v})
    <3>1. I # {}
      <4>1. 1 \in 1 .. Len(next) /\ 2 \in 1 .. Len(next) /\ 3 \in 1 .. Len(next) /\ DOMAIN next = 1 .. Len(next)
        BY <3>0
      <4>2. next[1] # next[2] /\ next[1] # next[3] /\ next[2] # next[3]
        BY <2>1, <4>1 DEF IsInjective
      <4>. QED  BY <4>1, <4>2
    <3>2. oldest = IF I # {} THEN Min(I) ELSE 0
      BY DEF SelectInSeq
    <3>3. I \in SUBSET Nat
      BY <3>0
    <3>4. Min(I) \in I
      BY <3>1, <3>3, Least DEF Min
    <3>5. PICK w : w = next[oldest] /\ w \in ToSet(next) /\ w \notin {c.active, v}
      <4>1. oldest \in I
        BY ONLY <3>1, <3>2, <3>4
      <4>2. oldest \in 1 .. Len(next) /\ next[oldest] \notin {c.active, v}
        BY ONLY <4>1
      <4>3. next[oldest] \in ToSet(next)
        BY <4>2, ListFacts
      <4>. HIDE DEF oldest
      <4>. QED  BY <4>2, <4>3
    <3>6. AddColumn(c, v).shown = Without(next, w) /\ AddColumn(c, v).active = v
      BY <1>2, <2>1, <3>0, <3>5 DEF AddColumn, Columns
    <3>7. /\ Without(next, w) \in Seq(ViewIds) /\ IsInjective(Without(next, w))
          /\ ToSet(Without(next, w)) = ToSet(next) \ {w} /\ Len(Without(next, w)) = Len(next) - 1
      <4>1. IsInjective(next) /\ Has(next, w) /\ next \in Seq(ViewIds)
        BY <2>1, <3>5 DEF Has
      <4>. QED  BY ONLY <4>1, WithoutIs
    <3>8. PICK rest \in Seq(ViewIds) : rest = Without(next, w)
      BY <3>7
    <3>9. /\ IsInjective(rest) /\ ToSet(rest) = ToSet(next) \ {w} /\ Len(rest) = MaxColumns
          /\ AddColumn(c, v).shown = rest /\ AddColumn(c, v).active = v
      BY <3>0, <3>6, <3>7, <3>8
    <3>10. ToSet(rest) \subseteq these /\ v \in ToSet(rest)
      BY <1>0, <2>1, <3>5, <3>9
    <3>. QED  BY <3>0, <3>9, <3>10 DEF Fit
  <2>. QED  BY <2>2, <2>3
<1>. QED  BY <1>1, <1>2

\* One less: the keyboard stays, or goes to its left.
LEMMA RemoveFits ==
    ASSUME NEW c, NEW these, Fit(c, these), NEW v
    PROVE  /\ Has(c.shown, v) /\ Len(c.shown) > 1 =>
                 /\ Fit(RemoveColumn(c, v), these \ {v})
                 /\ c.active # v => RemoveColumn(c, v).active = c.active
                 /\ ToSet(RemoveColumn(c, v).shown) = ToSet(c.shown) \ {v}
           /\ ~ (Has(c.shown, v) /\ Len(c.shown) > 1) => RemoveColumn(c, v) = c
<1>0. c.shown \in Seq(ViewIds) /\ IsInjective(c.shown) /\ Len(c.shown) \in Nat
  BY DEF Fit
<1>1. ASSUME Has(c.shown, v), Len(c.shown) > 1
      PROVE  /\ Fit(RemoveColumn(c, v), these \ {v})
             /\ c.active # v => RemoveColumn(c, v).active = c.active
             /\ ToSet(RemoveColumn(c, v).shown) = ToSet(c.shown) \ {v}
  <2>1. PICK next \in Seq(ViewIds) :
            /\ next = Without(c.shown, v) /\ ToSet(next) = ToSet(c.shown) \ {v} /\ IsInjective(next)
            /\ Len(next) = Len(c.shown) - 1
    BY <1>0, <1>1, WithoutIs
  <2>2. PICK n \in 1 .. Len(c.shown) : n = At(c.shown, v)
    BY <1>0, <1>1, AtIs
  <2>3. RemoveColumn(c, v) = Columns(next, IF c.active # v THEN c.active ELSE next[IF n - 1 < 1 THEN 1 ELSE n - 1])
    <3>1. ~ (Len(c.shown) < 2)
      BY <1>0, <1>1
    <3>. QED  BY <1>1, <2>1, <2>2, <3>1 DEF RemoveColumn
  <2>4. PICK m \in 1 .. Len(next) : m = IF n - 1 < 1 THEN 1 ELSE n - 1
    BY <1>0, <1>1, <2>1
  <2>5. RemoveColumn(c, v).shown = next /\ RemoveColumn(c, v).active = (IF c.active # v THEN c.active ELSE next[m])
    BY <2>3, <2>4 DEF Columns
  <2>6. next[m] \in ToSet(next)
    BY ListFacts
  <2>. QED  BY <1>0, <1>1, <2>1, <2>5, <2>6, ColumnsAssumption DEF Fit
<1>2. ~ (Has(c.shown, v) /\ Len(c.shown) > 1) => RemoveColumn(c, v) = c
  BY <1>0 DEF RemoveColumn
<1>. QED  BY <1>1, <1>2

\* The column beside the one with the keyboard.
LEMMA StepIs ==
    ASSUME NEW c, NEW these, Empty(c) \/ Fit(c, these), NEW right
    PROVE  StepColumn(c, right) \in ToSet(c.shown) \cup {None}
<1>0. c.shown \in Seq(ViewIds) /\ Len(c.shown) \in Nat
  <2>1. CASE Empty(c)
    BY <2>1 DEF Empty
  <2>2. CASE Fit(c, these)
    BY <2>2 DEF Fit
  <2>. QED  BY <2>1, <2>2
<1>1. PICK n \in 0 .. Len(c.shown) : n = At(c.shown, c.active)
  BY <1>0, AtIs
<1>2. n < Len(c.shown) => n + 1 \in 1 .. Len(c.shown)
  BY <1>0
<1>3. n > 1 => n - 1 \in 1 .. Len(c.shown)
  BY <1>0
<1>4. \A i \in 1 .. Len(c.shown) : c.shown[i] \in ToSet(c.shown)
  BY <1>0, ListFacts
<1>. QED  BY <1>1, <1>2, <1>3, <1>4 DEF StepColumn

-----------------------------------------------------------------------------
(* Stages: the one there is, and those on the way to the next. *)

Goes == Names \cup {Scratch, None}
Records == [open : Seq(Goes), shown : Goes, split : Seq(Goes), equal : BOOLEAN]
Docs == [phase : {"none", "loading", "live", "gone"}, asked : Goes, name : Goes,
         suspended : BOOLEAN, hidden : BOOLEAN, kept : BOOLEAN]
Stages ==
    [items : Seq(ViewIds), recent : Seq(ViewIds), active : ViewIds \cup {None}, shown : Seq(ViewIds),
     equal : BOOLEAN, pending : ViewIds \cup {None}, told : [ViewIds -> BOOLEAN \cup {None}],
     persisting : BOOLEAN, stored : Records, doc : [ViewIds -> Docs], overlay : BOOLEAN,
     keys : ViewIds \cup {Shell}]

\* A document hears of its place; it stays what it is.
SameDocs(s, t) ==
    \A v \in ViewIds : /\ t.doc[v].phase = s.doc[v].phase /\ t.doc[v].name = s.doc[v].name
                       /\ t.doc[v].asked = s.doc[v].asked /\ t.doc[v].kept = s.doc[v].kept
\* What showing other columns leaves alone.
Kept(s, t) ==
    /\ t \in Stages
    /\ t.items = s.items /\ t.pending = s.pending /\ t.overlay = s.overlay /\ t.persisting = s.persisting
    /\ SameDocs(s, t)
\* And what telling the documents leaves alone, too.
Tells(s, t) ==
    /\ Kept(s, t)
    /\ t.recent = s.recent /\ t.active = s.active /\ t.shown = s.shown /\ t.equal = s.equal /\ t.stored = s.stored

\* A document hears whether it is hidden, unless it was told so last.
LEMMA TellHiddenIs ==
    ASSUME None \notin BOOLEAN, NEW s \in Stages, NEW t, t = TellHidden(s)
    PROVE  /\ Tells(s, t) /\ t.keys = s.keys
           /\ \A v \in ViewIds : t.doc[v].suspended = s.doc[v].suspended
           /\ \A v \in ToSet(s.items) : IsLive(s.doc[v]) /\ s.told[v] \in {None, s.doc[v].hidden} =>
                  t.doc[v].hidden = ~ Has(s.shown, v) /\ t.told[v] = t.doc[v].hidden
<1>. DEFINE tell == {v \in ToSet(s.items) : IsLive(s.doc[v]) /\ s.told[v] # ~ Has(s.shown, v)}
            newTold == [v \in ViewIds |-> IF v \in tell THEN ~ Has(s.shown, v) ELSE s.told[v]]
            newDoc == [v \in ViewIds |-> IF v \in tell THEN [s.doc[v] EXCEPT !.hidden = ~ Has(s.shown, v)] ELSE s.doc[v]]
<1>1. t = [s EXCEPT !.told = newTold, !.doc = newDoc]
  BY DEF TellHidden
<1>2. newTold \in [ViewIds -> BOOLEAN \cup {None}]
  <2>1. s.told \in [ViewIds -> BOOLEAN \cup {None}]
    BY DEF Stages
  <2>2. \A v \in ViewIds : (~ Has(s.shown, v)) \in BOOLEAN
    OBVIOUS
  <2>. HIDE DEF tell
  <2>. QED  BY <2>1, <2>2
<1>3. \A v \in ViewIds : s.doc[v] \in Docs
  BY DEF Stages
<1>4. \A v \in ViewIds : /\ newDoc[v] \in Docs
                         /\ newDoc[v].phase = s.doc[v].phase /\ newDoc[v].name = s.doc[v].name
                         /\ newDoc[v].asked = s.doc[v].asked /\ newDoc[v].kept = s.doc[v].kept
                         /\ newDoc[v].suspended = s.doc[v].suspended
                         /\ newDoc[v].hidden = IF v \in tell THEN ~ Has(s.shown, v) ELSE s.doc[v].hidden
  <2>. HIDE DEF tell
  <2>. QED  BY <1>3 DEF Docs
<1>5. newDoc \in [ViewIds -> Docs]
  BY <1>4
<1>. HIDE DEF newTold, newDoc
<1>6. t \in Stages /\ t.told = newTold /\ t.doc = newDoc
  BY <1>1, <1>2, <1>5 DEF Stages
<1>7. /\ t.items = s.items /\ t.pending = s.pending /\ t.overlay = s.overlay /\ t.persisting = s.persisting
      /\ t.recent = s.recent /\ t.active = s.active /\ t.shown = s.shown /\ t.equal = s.equal /\ t.stored = s.stored
      /\ t.keys = s.keys
  BY <1>1 DEF Stages
<1>8. Tells(s, t) /\ \A v \in ViewIds : t.doc[v].suspended = s.doc[v].suspended
  BY <1>4, <1>6, <1>7 DEF Tells, Kept, SameDocs
<1>9. ASSUME NEW v \in ToSet(s.items), IsLive(s.doc[v]), s.told[v] \in {None, s.doc[v].hidden}
      PROVE  t.doc[v].hidden = ~ Has(s.shown, v) /\ t.told[v] = t.doc[v].hidden
  <2>1. v \in ViewIds
    BY ListFacts DEF Stages
  <2>2. s.doc[v].hidden \in BOOLEAN
    BY <1>3, <2>1 DEF Docs
  <2>3. newTold[v] = IF v \in tell THEN ~ Has(s.shown, v) ELSE s.told[v]
    BY <2>1 DEF newTold
  <2>4. CASE v \in tell
    <3>1. newDoc[v].hidden = (~ Has(s.shown, v)) /\ newTold[v] = (~ Has(s.shown, v))
      BY <1>4, <2>1, <2>3, <2>4
    <3>. QED  BY <1>6, <3>1
  <2>5. CASE v \notin tell
    <3>1. s.told[v] = (~ Has(s.shown, v))
      BY <1>9, <2>5
    <3>2. s.told[v] # None
      BY <3>1
    <3>3. s.told[v] = s.doc[v].hidden
      BY <1>9, <3>2
    <3>4. newDoc[v].hidden = s.doc[v].hidden /\ newTold[v] = s.told[v]
      BY <1>4, <2>1, <2>3, <2>5
    <3>. QED  BY <1>6, <3>1, <3>3, <3>4
  <2>. QED  BY <2>4, <2>5
<1>. QED  BY <1>7, <1>8, <1>9

\* A document hears whether it has the keyboard.
LEMMA SuspendIs ==
    ASSUME NEW s \in Stages, NEW t, t = Suspend(s)
    PROVE  /\ Tells(s, t) /\ t.keys = s.keys /\ t.told = s.told
           /\ \A v \in ViewIds : t.doc[v].hidden = s.doc[v].hidden
           /\ \A v \in ToSet(s.items) : IsLive(s.doc[v]) => t.doc[v].suspended = (v # s.active)
<1>. DEFINE new == [v \in ViewIds |-> IF Has(s.items, v) /\ IsLive(s.doc[v])
                                      THEN [s.doc[v] EXCEPT !.suspended = v # s.active] ELSE s.doc[v]]
<1>1. t = [s EXCEPT !.doc = new]
  BY DEF Suspend, Stages
<1>2. \A v \in ViewIds : s.doc[v] \in Docs
  BY DEF Stages
<1>3. \A v \in ViewIds : /\ new[v] \in Docs
                         /\ new[v].phase = s.doc[v].phase /\ new[v].name = s.doc[v].name
                         /\ new[v].asked = s.doc[v].asked /\ new[v].kept = s.doc[v].kept
                         /\ new[v].hidden = s.doc[v].hidden
                         /\ Has(s.items, v) /\ IsLive(s.doc[v]) => new[v].suspended = (v # s.active)
  BY <1>2 DEF Docs
<1>4. new \in [ViewIds -> Docs]
  BY <1>3
<1>. HIDE DEF new
<1>5. t \in Stages /\ t.doc = new
  BY <1>1, <1>4 DEF Stages
<1>6. /\ t.items = s.items /\ t.pending = s.pending /\ t.overlay = s.overlay /\ t.persisting = s.persisting
      /\ t.recent = s.recent /\ t.active = s.active /\ t.shown = s.shown /\ t.equal = s.equal /\ t.stored = s.stored
      /\ t.keys = s.keys /\ t.told = s.told
  BY <1>1 DEF Stages
<1>7. Tells(s, t)
  BY <1>3, <1>5, <1>6 DEF Tells, Kept, SameDocs
<1>8. ToSet(s.items) \subseteq ViewIds
  BY ListFacts DEF Stages
<1>. QED  BY <1>3, <1>5, <1>6, <1>7, <1>8 DEF Has

-----------------------------------------------------------------------------
(* What holds of a stage: of the one there is, and of those on the way. *)

Open3(s) == {v \in ViewIds : s.doc[v].phase \in {"loading", "live"}}
Core(s) ==
    /\ ToSet(s.items) = Open3(s) /\ IsInjective(s.items)
    /\ ToSet(s.recent) \subseteq ToSet(s.items)
    /\ s.pending # None => Has(s.items, s.pending)
    /\ \E n \in 0 .. MaxViews : \A v \in ViewIds : s.doc[v].phase # "none" <=> v <= n
    /\ \A v \in ViewIds : s.doc[v].kept => s.doc[v].name = s.doc[v].asked
Cols(s) == Empty(s) \/ Fit(s, ToSet(s.items))
\* Nothing was told wrongly.
Heard(s) == \A v \in ToSet(s.items) : IsLive(s.doc[v]) => s.told[v] \in {None, s.doc[v].hidden}
Knows(s) ==
    \A v \in ToSet(s.items) : IsLive(s.doc[v]) =>
        /\ s.doc[v].suspended = (v # s.active)
        /\ s.doc[v].hidden = ~ Has(s.shown, v) /\ s.told[v] = s.doc[v].hidden
KeysSeen(s) == s.keys # Shell => ~ s.overlay /\ Has(s.shown, s.keys)
KeysOk(s) == KeysSeen(s) /\ (s.keys # Shell /\ s.pending # s.active => s.keys = s.active)
Follows(s) ==
    s.persisting =>
        \E goesBy \in [ViewIds -> Goes] :
            /\ \A v \in ViewIds : s.doc[v].kept => goesBy[v] = s.doc[v].name
            /\ s.stored = DescribeAs(s, goesBy)
Weak(s) == s \in Stages /\ Core(s) /\ Heard(s) /\ (s.keys # Shell => ~ s.overlay)
Placed(s) == s \in Stages /\ Core(s) /\ Cols(s) /\ Knows(s) /\ KeysSeen(s)
Sound(s) == Placed(s) /\ Follows(s)

\* What was told does not touch what is open.
LEMMA CoreStays ==
    ASSUME NEW s \in Stages, NEW t \in Stages, Core(s), SameDocs(s, t), t.items = s.items, t.pending = s.pending,
           ToSet(t.recent) \subseteq ToSet(s.items)
    PROVE  Core(t)
<1>1. Open3(t) = Open3(s)
  BY DEF SameDocs, Open3
<1>2. PICK n \in 0 .. MaxViews : \A v \in ViewIds : s.doc[v].phase # "none" <=> v <= n
  BY DEF Core
<1>3. \A v \in ViewIds : t.doc[v].phase # "none" <=> v <= n
  BY <1>2 DEF SameDocs
<1>4. \A v \in ViewIds : t.doc[v].kept => t.doc[v].name = t.doc[v].asked
  BY DEF SameDocs, Core
<1>. QED  BY <1>1, <1>3, <1>4 DEF Core

\* A document that knows its place was told nothing wrong.
LEMMA KnowsHeard ==
    ASSUME NEW s, Knows(s)
    PROVE  Heard(s)
BY DEF Knows, Heard

\* What is stored goes by the same names.
LEMMA FollowsStays ==
    ASSUME NEW s, NEW t, Follows(s), t.items = s.items, t.shown = s.shown, t.active = s.active, t.equal = s.equal,
           t.stored = s.stored, t.persisting = s.persisting,
           \A v \in ViewIds : t.doc[v].kept => s.doc[v].kept /\ t.doc[v].name = s.doc[v].name
    PROVE  Follows(t)
<1>1. \A g : DescribeAs(t, g) = DescribeAs(s, g)
  BY DEF DescribeAs
<1>2. SUFFICES ASSUME t.persisting
               PROVE  \E goesBy \in [ViewIds -> Goes] :
                          /\ \A v \in ViewIds : t.doc[v].kept => goesBy[v] = t.doc[v].name
                          /\ t.stored = DescribeAs(t, goesBy)
  BY DEF Follows
<1>3. PICK goesBy \in [ViewIds -> Goes] :
          /\ \A v \in ViewIds : s.doc[v].kept => goesBy[v] = s.doc[v].name
          /\ s.stored = DescribeAs(s, goesBy)
  BY <1>2 DEF Follows
<1>4. t.stored = DescribeAs(t, goesBy)
  BY <1>1, <1>3
<1>. QED  BY <1>3, <1>4

\* A view that is not shown loses the keyboard, and hears that it is hidden.
LEMMA PaintIs ==
    ASSUME NEW s \in Stages, Heard(s), NEW t, t = Paint(s)
    PROVE  /\ Tells(s, t) /\ t.keys = IF s.keys = Shell \/ Has(s.shown, s.keys) THEN s.keys ELSE Shell
           /\ \A v \in ViewIds : t.doc[v].suspended = s.doc[v].suspended
           /\ \A v \in ToSet(s.items) : IsLive(s.doc[v]) =>
                  t.doc[v].hidden = ~ Has(s.shown, v) /\ t.told[v] = t.doc[v].hidden
<1>. DEFINE u == [s EXCEPT !.keys = IF s.keys = Shell \/ Has(s.shown, s.keys) THEN s.keys ELSE Shell]
<1>1. PICK w : w = u
  OBVIOUS
<1>2. /\ w \in Stages
      /\ w.keys = IF s.keys = Shell \/ Has(s.shown, s.keys) THEN s.keys ELSE Shell
      /\ w.items = s.items /\ w.pending = s.pending /\ w.overlay = s.overlay /\ w.persisting = s.persisting
      /\ w.recent = s.recent /\ w.active = s.active /\ w.shown = s.shown /\ w.equal = s.equal /\ w.stored = s.stored
      /\ w.told = s.told /\ w.doc = s.doc
  BY <1>1 DEF Stages
<1>3. t = TellHidden(w)
  BY <1>1 DEF Paint, Stages
<1>4. /\ Tells(w, t) /\ t.keys = w.keys
      /\ \A v \in ViewIds : t.doc[v].suspended = w.doc[v].suspended
      /\ \A v \in ToSet(w.items) : IsLive(w.doc[v]) /\ w.told[v] \in {None, w.doc[v].hidden} =>
             t.doc[v].hidden = ~ Has(w.shown, v) /\ t.told[v] = t.doc[v].hidden
  <2>1. None \notin BOOLEAN /\ w \in Stages
    BY <1>2, StageAssumption
  <2>. QED  BY ONLY <1>3, <2>1, TellHiddenIs
<1>5. \A v \in ToSet(s.items) : IsLive(s.doc[v]) =>
          t.doc[v].hidden = ~ Has(s.shown, v) /\ t.told[v] = t.doc[v].hidden
  <2>1. \A v \in ToSet(s.items) : IsLive(s.doc[v]) => s.told[v] \in {None, s.doc[v].hidden}
    BY DEF Heard
  <2>. QED  BY <1>2, <1>4, <2>1
<1>6. Tells(s, t)
  BY <1>2, <1>4 DEF Tells, Kept, SameDocs
<1>. QED  BY <1>2, <1>4, <1>5, <1>6

\* The names of a list.
LEMMA NamesGo ==
    ASSUME NEW goesBy \in [ViewIds -> Goes], NEW rows \in Seq(ViewIds)
    PROVE  /\ [i \in DOMAIN rows |-> goesBy[rows[i]]] \in Seq(Goes)
<1>1. Len(rows) \in Nat /\ DOMAIN rows = 1 .. Len(rows) /\ \A i \in 1 .. Len(rows) : rows[i] \in ViewIds
  OBVIOUS
<1>2. [i \in DOMAIN rows |-> goesBy[rows[i]]] \in [1 .. Len(rows) -> Goes]
  BY <1>1
<1>. QED  BY <1>1, <1>2

\* What is stored is a record.
LEMMA DescribesIt ==
    ASSUME NEW s \in Stages, NEW goesBy \in [ViewIds -> Goes]
    PROVE  DescribeAs(s, goesBy) \in Records
<1>. DEFINE names(list) == [i \in DOMAIN list |-> goesBy[list[i]]]
<1>1. s.items \in Seq(ViewIds) /\ s.shown \in Seq(ViewIds) /\ s.equal \in BOOLEAN /\ s.active \in ViewIds \cup {None}
  BY DEF Stages
<1>2. PICK mine \in Seq(Goes) : mine = names(s.items)
  BY <1>1, NamesGo
<1>3. PICK split \in Seq(Goes) : split = names(s.shown)
  BY <1>1, NamesGo
<1>4. PICK d : d = DescribeSplit(split, s.equal)
  OBVIOUS
<1>5. d.split \in Seq(Goes) /\ d.equal \in BOOLEAN
  <2>1. d = [split |-> << >>, equal |-> TRUE] \/ d = [split |-> split, equal |-> s.equal]
    BY <1>4 DEF DescribeSplit
  <2>2. << >> \in Seq(Goes)
    OBVIOUS
  <2>3. CASE d = [split |-> << >>, equal |-> TRUE]
    <3>1. d.split = << >> /\ d.equal
      BY <2>3
    <3>. QED  BY <2>2, <3>1
  <2>4. CASE d = [split |-> split, equal |-> s.equal]
    <3>1. d.split = split /\ d.equal = s.equal
      BY <2>4
    <3>. QED  BY <1>1, <3>1
  <2>. QED  BY <2>1, <2>3, <2>4
<1>6. PICK who \in Goes : who = IF s.active = None THEN None ELSE goesBy[s.active]
  BY <1>1 DEF Goes
<1>7. DescribeAs(s, goesBy) = Record(mine, who, d.split, d.equal)
  BY <1>2, <1>3, <1>4, <1>6 DEF DescribeAs
<1>. QED  BY <1>5, <1>7 DEF Record, Records

\* What is open is stored, once the window has restored.
LEMMA PersistIs ==
    ASSUME NEW s \in Stages, NEW t, t = Persist(s)
    PROVE  /\ t \in Stages /\ Follows(t)
           /\ t.items = s.items /\ t.recent = s.recent /\ t.active = s.active /\ t.shown = s.shown
           /\ t.equal = s.equal /\ t.pending = s.pending /\ t.told = s.told /\ t.persisting = s.persisting
           /\ t.doc = s.doc /\ t.overlay = s.overlay /\ t.keys = s.keys
<1>1. CASE ~ s.persisting
  <2>1. t = s
    BY <1>1 DEF Persist
  <2>. QED  BY <1>1, <2>1 DEF Follows
<1>2. CASE s.persisting
  <2>. DEFINE names == [v \in ViewIds |-> WorkspaceOf(s, v)]
  <2>1. PICK g \in [ViewIds -> Goes] : g = names
    <3>1. s.doc \in [ViewIds -> Docs]
      BY DEF Stages
    <3>2. \A v \in ViewIds : WorkspaceOf(s, v) \in Goes
      BY <3>1 DEF WorkspaceOf, Docs
    <3>3. names \in [ViewIds -> Goes]
      BY <3>2
    <3>. QED  BY <3>3
  <2>2. PICK d \in Records : d = DescribeAs(s, g) /\ d = Describe(s)
    BY <2>1, DescribesIt DEF Describe
  <2>3. t = [s EXCEPT !.stored = d]
    BY <1>2, <2>2 DEF Persist
  <2>4. /\ t \in Stages /\ t.stored = d
        /\ t.items = s.items /\ t.recent = s.recent /\ t.active = s.active /\ t.shown = s.shown
        /\ t.equal = s.equal /\ t.pending = s.pending /\ t.told = s.told /\ t.persisting = s.persisting
        /\ t.doc = s.doc /\ t.overlay = s.overlay /\ t.keys = s.keys
    BY <2>3 DEF Stages
  <2>5. DescribeAs(t, g) = DescribeAs(s, g)
    BY <2>4 DEF DescribeAs
  <2>6. \A v \in ViewIds : g[v] = t.doc[v].name
    BY <2>1, <2>4 DEF WorkspaceOf
  <2>7. Follows(t)
    BY <2>2, <2>4, <2>5, <2>6 DEF Follows
  <2>. QED  BY <2>4, <2>7
<1>3. s.persisting \in BOOLEAN
  BY DEF Stages
<1>. QED  BY <1>1, <1>2

-----------------------------------------------------------------------------
(* Showing one, or a few side by side. *)

\* The columns are these now, and every document knows.
Moved(s, c, t) ==
    /\ Kept(s, t) /\ Sound(t)
    /\ t.shown = c.shown /\ t.active = c.active
    /\ t.keys \in {s.keys, Shell}

\* The keyboard of a stage that a sound one becomes is seen.
LEMMA SetColumnsIs ==
    ASSUME NEW s, Weak(s), NEW c, Fit(c, ToSet(s.items)), NEW equal \in BOOLEAN, NEW t, t = SetColumns(s, c, equal)
    PROVE  Moved(s, c, t)
<1>0. /\ s \in Stages /\ s.recent \in Seq(ViewIds) /\ s.items \in Seq(ViewIds) /\ c.shown \in Seq(ViewIds)
      /\ c.active \in ToSet(s.items) /\ c.active \in ViewIds
      /\ ToSet(s.recent) \subseteq ToSet(s.items)
  <2>1. s \in Stages /\ s.recent \in Seq(ViewIds) /\ s.items \in Seq(ViewIds)
    BY DEF Weak, Stages
  <2>2. ToSet(s.items) \subseteq ViewIds
    BY <2>1, ListFacts
  <2>. QED  BY <2>1, <2>2 DEF Weak, Core, Fit
<1>1. PICK recent \in Seq(ViewIds) :
          recent = Append(Without(s.recent, c.active), c.active) /\ ToSet(recent) \subseteq ToSet(s.items)
  <2>1. PICK less \in Seq(ViewIds) : less = Without(s.recent, c.active) /\ ToSet(less) \subseteq ToSet(s.recent)
    BY <1>0, WithoutIs
  <2>2. Append(less, c.active) \in Seq(ViewIds) /\ ToSet(Append(less, c.active)) = ToSet(less) \cup {c.active}
    BY <1>0, AppendIs
  <2>. QED  BY <1>0, <2>1, <2>2
<1>2. PICK a : a = [s EXCEPT !.shown = c.shown, !.active = c.active, !.equal = equal, !.recent = recent]
  OBVIOUS
<1>3. /\ a \in Stages /\ a.items = s.items /\ a.recent = recent /\ a.active = c.active /\ a.shown = c.shown
      /\ a.equal = equal /\ a.pending = s.pending /\ a.told = s.told /\ a.persisting = s.persisting
      /\ a.stored = s.stored /\ a.doc = s.doc /\ a.overlay = s.overlay /\ a.keys = s.keys
  BY <1>0, <1>2 DEF Stages
<1>4. PICK b : b = Suspend(a)
  OBVIOUS
<1>5. /\ Tells(a, b) /\ b.keys = a.keys /\ b.told = a.told
      /\ \A v \in ViewIds : b.doc[v].hidden = a.doc[v].hidden
      /\ \A v \in ToSet(a.items) : IsLive(a.doc[v]) => b.doc[v].suspended = (v # a.active)
  BY <1>3, <1>4, SuspendIs
<1>6. PICK d : d = Paint(b)
  OBVIOUS
<1>7. b \in Stages /\ Heard(b)
  <2>1. ToSet(a.items) \subseteq ViewIds
    BY <1>3, ListFacts DEF Stages
  <2>2. \A v \in ToSet(s.items) : IsLive(s.doc[v]) => s.told[v] \in {None, s.doc[v].hidden}
    BY DEF Weak, Heard
  <2>3. \A v \in ToSet(b.items) : v \in ViewIds /\ v \in ToSet(s.items) /\ (IsLive(b.doc[v]) => IsLive(s.doc[v]))
    BY <1>3, <1>5, <2>1 DEF Tells, Kept, SameDocs, IsLive
  <2>4. \A v \in ToSet(b.items) : b.doc[v].hidden = s.doc[v].hidden /\ b.told[v] = s.told[v]
    BY <1>3, <1>5, <2>3
  <2>5. b \in Stages
    BY <1>5 DEF Tells, Kept
  <2>. QED  BY <2>2, <2>3, <2>4, <2>5 DEF Heard
<1>8. /\ Tells(b, d) /\ d.keys = IF b.keys = Shell \/ Has(b.shown, b.keys) THEN b.keys ELSE Shell
      /\ \A v \in ViewIds : d.doc[v].suspended = b.doc[v].suspended
      /\ \A v \in ToSet(b.items) : IsLive(b.doc[v]) =>
             d.doc[v].hidden = ~ Has(b.shown, v) /\ d.told[v] = d.doc[v].hidden
  BY <1>6, <1>7, PaintIs
<1>9. t = Persist(d)
  BY <1>1, <1>2, <1>4, <1>6 DEF SetColumns
<1>10. d \in Stages
  BY <1>8 DEF Tells, Kept
<1>11. /\ t \in Stages /\ Follows(t)
       /\ t.items = d.items /\ t.recent = d.recent /\ t.active = d.active /\ t.shown = d.shown
       /\ t.equal = d.equal /\ t.pending = d.pending /\ t.told = d.told /\ t.persisting = d.persisting
       /\ t.doc = d.doc /\ t.overlay = d.overlay /\ t.keys = d.keys
  BY <1>9, <1>10, PersistIs
<1>12. /\ t.items = s.items /\ t.recent = recent /\ t.active = c.active /\ t.shown = c.shown
       /\ t.pending = s.pending /\ t.persisting = s.persisting /\ t.overlay = s.overlay
       /\ t.keys = IF s.keys = Shell \/ Has(c.shown, s.keys) THEN s.keys ELSE Shell
  BY <1>3, <1>5, <1>8, <1>11 DEF Tells, Kept
<1>13. SameDocs(s, t)
  BY <1>3, <1>5, <1>8, <1>11 DEF Tells, Kept, SameDocs
<1>14. Core(t)
  BY <1>0, <1>1, <1>11, <1>12, <1>13, CoreStays DEF Weak
<1>15. Cols(t)
  BY <1>12 DEF Cols, Fit
<1>16. Knows(t)
  <2>1. SUFFICES ASSUME NEW v \in ToSet(s.items), IsLive(t.doc[v])
                 PROVE  /\ t.doc[v].suspended = (v # t.active)
                        /\ t.doc[v].hidden = (~ Has(t.shown, v)) /\ t.told[v] = t.doc[v].hidden
    BY <1>12 DEF Knows
  <2>2. v \in ViewIds
    BY <1>0, ListFacts
  <2>3. IsLive(s.doc[v]) /\ IsLive(a.doc[v]) /\ IsLive(b.doc[v])
    BY <1>3, <1>5, <1>13, <2>1, <2>2 DEF SameDocs, IsLive, Tells, Kept
  <2>4. v \in ToSet(a.items) /\ v \in ToSet(b.items)
    BY <1>3, <1>5 DEF Tells, Kept
  <2>5. t.doc[v].suspended = (v # a.active)
    BY <1>5, <1>8, <1>11, <2>2, <2>3, <2>4
  <2>6. d.doc[v].hidden = (~ Has(b.shown, v)) /\ d.told[v] = d.doc[v].hidden
    BY <1>8, <2>3, <2>4
  <2>7. a.active = t.active /\ b.shown = t.shown
    BY <1>3, <1>5, <1>12 DEF Tells
  <2>. QED  BY <1>11, <2>5, <2>6, <2>7
<1>17. KeysSeen(t) /\ t.keys \in {s.keys, Shell}
  BY <1>12 DEF KeysSeen, Weak
<1>18. Kept(s, t)
  BY <1>11, <1>12, <1>13 DEF Kept
<1>. QED  BY <1>11, <1>12, <1>14, <1>15, <1>16, <1>17, <1>18 DEF Moved, Sound, Placed

\* A sound stage can be shown other columns.
LEMMA SoundWeak ==
    ASSUME NEW s, Placed(s)
    PROVE  Weak(s)
BY KnowsHeard DEF Placed, Weak, KeysSeen

\* Nothing moved.
LEMMA MovedNot ==
    ASSUME NEW s, Sound(s)
    PROVE  Moved(s, s, s)
BY DEF Sound, Placed, Moved, Kept, SameDocs

\* Nothing is done where nothing changes.
LEMMA SetShownIs ==
    ASSUME NEW s, Weak(s), NEW c, Fit(c, ToSet(s.items)), NEW t, t = SetShown(s, c),
           Sound(s) \/ ~ (c.shown = s.shown /\ c.active = s.active)
    PROVE  Moved(s, c, t)
<1>1. CASE c.shown = s.shown /\ c.active = s.active
  <2>1. t = s
    BY <1>1 DEF SetShown
  <2>2. Moved(s, s, s)
    BY <1>1, MovedNot
  <2>. QED  BY <1>1, <2>1, <2>2 DEF Moved
<1>2. CASE ~ (c.shown = s.shown /\ c.active = s.active)
  <2>1. PICK equal \in BOOLEAN : equal = (s.equal \/ ToSet(c.shown) # ToSet(s.shown))
    OBVIOUS
  <2>2. t = SetColumns(s, c, equal)
    BY <1>2, <2>1 DEF SetShown
  <2>. QED  BY <2>2, SetColumnsIs
<1>. QED  BY <1>1, <1>2

\* A view that is open is shown, alone or beside the others.
LEMMA ActivateIs ==
    ASSUME NEW s, Weak(s), NEW v \in ToSet(s.items), NEW alone \in BOOLEAN, NEW t, t = Activate(s, v, alone),
           Cols(s), Sound(s) \/ v \notin ToSet(s.shown)
    PROVE  \E c : Fit(c, ToSet(s.items)) /\ c.active = v /\ Moved(s, c, t)
<1>1. v \in ViewIds
  BY ListFacts DEF Weak, Stages
<1>2. PICK c : c = IF alone THEN ShowAlone(v) ELSE FocusColumn(s, v)
  OBVIOUS
<1>3. Fit(c, ToSet(s.items)) /\ c.active = v
  BY <1>1, <1>2, AloneFits, FocusFits DEF Cols
<1>4. t = SetShown(s, c)
  BY <1>2 DEF Activate, Has
<1>5. Sound(s) \/ c.shown # s.shown
  BY <1>3 DEF Fit
<1>6. Moved(s, c, t)
  BY <1>3, <1>4, <1>5, SetShownIs
<1>. QED  BY <1>3, <1>6

\* What a focus leaves behind.
Focused(s, v, t) ==
    /\ Sound(t) /\ KeysOk(t) /\ t.active = v
    /\ t.items = s.items /\ t.overlay = s.overlay /\ t.persisting = s.persisting

\* The view a stage is asked to focus is shown, and takes the keyboard as soon as it may.
LEMMA FocusIs ==
    ASSUME NEW s, Weak(s), NEW v \in ToSet(s.items), NEW alone \in BOOLEAN, NEW t, t = FocusView(s, v, alone),
           Cols(s), Sound(s) \/ v \notin ToSet(s.shown)
    PROVE  Focused(s, v, t) /\ SameDocs(s, t)
<1>1. PICK u : u = Activate(s, v, alone)
  OBVIOUS
<1>2. PICK c : Fit(c, ToSet(s.items)) /\ c.active = v /\ Moved(s, c, u)
  BY <1>1, ActivateIs
<1>3. /\ Sound(u) /\ Kept(s, u) /\ u.active = v /\ u.shown = c.shown /\ u.keys \in {s.keys, Shell}
      /\ u.items = s.items /\ u.overlay = s.overlay /\ u.persisting = s.persisting /\ SameDocs(s, u)
  BY <1>2 DEF Moved, Kept
<1>4. v \in ViewIds /\ v # None /\ v \in ToSet(u.items) /\ v \in ToSet(u.shown)
  <2>1. v \in ViewIds
    BY ListFacts DEF Weak, Stages
  <2>. QED  BY <1>2, <1>3, <2>1, StageAssumption DEF Fit
<1>5. u \in Stages
  BY <1>3 DEF Sound, Placed
<1>6. PICK who \in ViewIds \cup {None} : who = IF s.overlay THEN v ELSE IF u.pending = v THEN None ELSE u.pending
  BY <1>4, <1>5 DEF Stages
<1>7. PICK mine \in ViewIds \cup {Shell} : mine = IF s.overlay THEN u.keys ELSE v
  BY <1>4, <1>5 DEF Stages
<1>8. t = [u EXCEPT !.pending = who, !.keys = mine]
  <2>1. CASE s.overlay
    <3>1. t = [u EXCEPT !.pending = v] /\ who = v /\ mine = u.keys
      BY <1>1, <1>4, <1>6, <1>7, <2>1 DEF FocusView
    <3>. QED  BY <1>5, <3>1 DEF Stages
  <2>2. CASE ~ s.overlay
    <3>1. t = [u EXCEPT !.pending = IF u.pending = v THEN None ELSE u.pending, !.keys = IF Has(u.items, v) THEN v ELSE u.keys]
      BY <1>1, <1>4, <2>2 DEF FocusView
    <3>2. Has(u.items, v)
      BY <1>4 DEF Has
    <3>. QED  BY <1>6, <1>7, <2>2, <3>1, <3>2
  <2>. QED  BY <2>1, <2>2
<1>9. /\ t \in Stages /\ t.pending = who /\ t.keys = mine
      /\ t.items = u.items /\ t.recent = u.recent /\ t.active = u.active /\ t.shown = u.shown
      /\ t.equal = u.equal /\ t.told = u.told /\ t.persisting = u.persisting
      /\ t.doc = u.doc /\ t.overlay = u.overlay /\ t.stored = u.stored
  BY <1>5, <1>8 DEF Stages
<1>10. Core(t)
  <2>1. Core(u)
    BY <1>3 DEF Sound, Placed
  <2>2. who # None => Has(t.items, who)
    BY <1>4, <1>6, <1>9, <2>1 DEF Core, Has
  <2>3. Open3(t) = Open3(u)
    BY <1>9 DEF Open3
  <2>. QED  BY <1>9, <2>1, <2>2, <2>3 DEF Core
<1>11. Cols(t)
  BY <1>3, <1>9 DEF Sound, Placed, Cols, Empty, Fit
<1>12. Knows(t)
  BY <1>3, <1>9 DEF Sound, Placed, Knows
<1>13. Follows(t)
  <2>1. Follows(u)
    BY <1>3 DEF Sound
  <2>. QED  BY <1>9, <2>1, FollowsStays
<1>14. KeysOk(t)
  <2>1. s.keys # Shell => ~ s.overlay
    BY DEF Weak
  <2>2. CASE s.overlay
    <3>1. t.keys = Shell
      BY <1>3, <1>7, <1>9, <2>1, <2>2
    <3>. QED  BY <3>1 DEF KeysOk, KeysSeen
  <2>3. CASE ~ s.overlay
    BY <1>3, <1>4, <1>7, <1>9, <2>3 DEF KeysOk, KeysSeen, Has
  <2>. QED  BY <2>2, <2>3
<1>15. SameDocs(s, t)
  BY <1>3, <1>9 DEF SameDocs
<1>16. KeysSeen(t)
  BY <1>14 DEF KeysOk
<1>17. Sound(t) /\ KeysOk(t)
  BY <1>9, <1>10, <1>11, <1>12, <1>13, <1>14, <1>15, <1>16 DEF Sound, Placed
<1>18. t.active = v /\ t.items = s.items /\ t.overlay = s.overlay /\ t.persisting = s.persisting
  BY <1>3, <1>9
<1>. QED  BY <1>15, <1>17, <1>18 DEF Focused

\* The focus that keeps the other columns.
LEMMA FocusPlain ==
    ASSUME NEW s, NEW v
    PROVE  Weak(s) /\ Cols(s) /\ v \in ToSet(s.items) /\ (Sound(s) \/ v \notin ToSet(s.shown))
           => Focused(s, v, FocusView(s, v, FALSE))
<1>. SUFFICES ASSUME Weak(s), Cols(s), v \in ToSet(s.items), Sound(s) \/ v \notin ToSet(s.shown)
              PROVE  Focused(s, v, FocusView(s, v, FALSE))
  OBVIOUS
<1>1. PICK t : t = FocusView(s, v, FALSE)
  OBVIOUS
<1>2. FALSE \in BOOLEAN
  OBVIOUS
<1>3. Focused(s, v, t)
  BY <1>1, <1>2, FocusIs
<1>. QED  BY <1>1, <1>3

-----------------------------------------------------------------------------
(* What the user does to a stage. *)

Settled(s) == Sound(s) /\ KeysOk(s)
\* No view comes or goes.
Stays(s, t) ==
    /\ t.items = s.items /\ t.overlay = s.overlay /\ t.persisting = s.persisting /\ SameDocs(s, t)
    /\ s.active # None => t.active # None

\* Nothing is asked of the stage, or a view is focused.
LEMMA FocusStays ==
    ASSUME NEW s, Settled(s), NEW v \in ToSet(s.items) \cup {None}, NEW alone \in BOOLEAN, NEW t, t = FocusView(s, v, alone)
    PROVE  Settled(t) /\ Stays(s, t)
<1>1. CASE v = None
  <2>1. t = s
    BY <1>1 DEF FocusView
  <2>. QED  BY <2>1 DEF Stays, SameDocs
<1>2. CASE v \in ToSet(s.items)
  <2>1. Weak(s) /\ Cols(s) /\ Sound(s)
    BY SoundWeak DEF Settled, Sound, Placed
  <2>2. v # None
    BY <1>2, <2>1, ListFacts, StageAssumption DEF Weak, Stages
  <2>3. Focused(s, v, t) /\ SameDocs(s, t)
    BY <1>2, <2>1, FocusIs
  <2>. QED  BY <2>2, <2>3 DEF Focused, Settled, Stays
<1>. QED  BY <1>1, <1>2

\* Other columns, with the keyboard where it was or on the shell.
LEMMA ShownStays ==
    ASSUME NEW s, Settled(s), NEW c, Fit(c, ToSet(s.items)), NEW t, t = SetShown(s, c)
    PROVE  /\ Sound(t) /\ Stays(s, t) /\ t.active = c.active /\ t.active \in ToSet(t.items)
           /\ t.active = s.active => Settled(t)
<1>1. Weak(s) /\ Sound(s)
  BY SoundWeak DEF Settled, Sound
<1>2. Moved(s, c, t)
  BY <1>1, SetShownIs
<1>3. c.active \in ToSet(s.items) /\ s.items \in Seq(ViewIds)
  BY <1>1 DEF Fit, Weak, Stages
<1>4. c.active # None
  BY <1>3, ListFacts, StageAssumption
<1>5. Sound(t) /\ Stays(s, t) /\ t.active = c.active /\ t.pending = s.pending /\ t.keys \in {s.keys, Shell}
  BY <1>2, <1>4 DEF Moved, Kept, Stays
<1>6. t.active = s.active => KeysOk(t)
  BY <1>5 DEF Settled, Sound, Placed, KeysOk
<1>. QED  BY <1>3, <1>5, <1>6 DEF Stays, Settled

\* One step after another.
LEMMA StaysOn ==
    ASSUME NEW s, NEW t, NEW u, Stays(s, t), Stays(t, u)
    PROVE  Stays(s, u)
BY DEF Stays, SameDocs

\* A column more, or less; the keyboard goes along.
LEMMA ToggleStays ==
    ASSUME NEW s, Settled(s), NEW v \in ToSet(s.items), NEW t, t = ToggleShown(s, v)
    PROVE  Settled(t) /\ Stays(s, t)
<1>1. s.items \in Seq(ViewIds) /\ Cols(s) /\ v \in ViewIds
  <2>1. s.items \in Seq(ViewIds) /\ Cols(s)
    BY DEF Settled, Sound, Placed, Stages
  <2>. QED  BY <2>1, ListFacts
<1>2. PICK c : c = ToggleColumn(s, v)
  OBVIOUS
<1>3. Fit(c, ToSet(s.items))
  <2>1. CASE Has(s.shown, v) /\ Len(s.shown) > 1
    <3>1. Fit(s, ToSet(s.items))
      BY <1>1, <2>1 DEF Cols, Empty, Has, ToSet
    <3>2. Fit(RemoveColumn(s, v), ToSet(s.items) \ {v})
      BY <2>1, <3>1, RemoveFits
    <3>3. c = RemoveColumn(s, v)
      BY <1>2, <2>1 DEF ToggleColumn
    <3>. QED  BY <3>2, <3>3 DEF Fit
  <2>2. CASE ~ (Has(s.shown, v) /\ Len(s.shown) > 1)
    <3>1. c = AddColumn(s, v)
      BY <1>2, <2>2 DEF ToggleColumn
    <3>. QED  BY <1>1, <3>1, AddFits DEF Cols
  <2>. QED  BY <2>1, <2>2
<1>4. PICK u : u = SetShown(s, c)
  OBVIOUS
<1>5. /\ Sound(u) /\ Stays(s, u) /\ u.active \in ToSet(u.items)
      /\ u.active = s.active => Settled(u)
  BY <1>3, <1>4, ShownStays
<1>6. CASE u.active # s.active \/ u.active = v
  <2>1. t = FocusView(u, u.active, FALSE)
    BY <1>2, <1>4, <1>6 DEF ToggleShown
  <2>2. Weak(u) /\ Cols(u)
    BY <1>5, SoundWeak DEF Sound, Placed
  <2>3. u.active # None
    BY <1>5, <2>2, ListFacts, StageAssumption DEF Weak, Stages
  <2>4. /\ Sound(t) /\ KeysOk(t) /\ t.active = u.active
        /\ t.items = u.items /\ t.overlay = u.overlay /\ t.persisting = u.persisting /\ SameDocs(u, t)
    <3>1. Focused(u, u.active, t) /\ SameDocs(u, t)
      BY <1>5, <2>1, <2>2, FocusIs
    <3>. QED  BY <3>1 DEF Focused
  <2>5. Settled(t) /\ Stays(u, t)
    BY <2>3, <2>4 DEF Settled, Stays
  <2>. QED  BY <1>5, <2>5, StaysOn
<1>7. CASE ~ (u.active # s.active \/ u.active = v)
  <2>1. t = u
    BY <1>2, <1>4, <1>7 DEF ToggleShown
  <2>. QED  BY <1>5, <1>7, <2>1
<1>. QED  BY <1>6, <1>7

\* A column less.
LEMMA RemoveStays ==
    ASSUME NEW s, Settled(s), NEW v, NEW t, t = RemoveShown(s, v)
    PROVE  Settled(t) /\ Stays(s, t)
<1>1. CASE ~ Has(s.shown, v) \/ Len(s.shown) < 2
  <2>1. t = s
    BY <1>1 DEF RemoveShown
  <2>. QED  BY <2>1 DEF Stays, SameDocs
<1>2. CASE ~ (~ Has(s.shown, v) \/ Len(s.shown) < 2)
  <2>1. Fit(s, ToSet(s.items)) /\ Len(s.shown) \in Nat
    BY <1>2 DEF Settled, Sound, Placed, Cols, Empty, Fit
  <2>2. Has(s.shown, v) /\ Len(s.shown) > 1
    BY <1>2, <2>1
  <2>3. PICK c : c = RemoveColumn(s, v)
    OBVIOUS
  <2>4. Fit(c, ToSet(s.items) \ {v}) /\ (s.active # v => c.active = s.active)
    BY <2>1, <2>2, <2>3, RemoveFits
  <2>5. Fit(c, ToSet(s.items))
    BY <2>4 DEF Fit
  <2>6. PICK u : u = SetShown(s, c)
    OBVIOUS
  <2>7. /\ Sound(u) /\ Stays(s, u) /\ u.active = c.active /\ u.active \in ToSet(u.items)
        /\ u.active = s.active => Settled(u)
    BY <2>5, <2>6, ShownStays
  <2>8. CASE s.active = v
    <3>1. t = FocusView(u, u.active, FALSE)
      BY <1>2, <2>3, <2>6, <2>8 DEF RemoveShown
    <3>2. Weak(u) /\ Cols(u)
      BY <2>7, SoundWeak DEF Sound, Placed
    <3>3. u.active # None
      BY <2>7, <3>2, ListFacts, StageAssumption DEF Weak, Stages
    <3>4. /\ Sound(t) /\ KeysOk(t) /\ t.active = u.active
          /\ t.items = u.items /\ t.overlay = u.overlay /\ t.persisting = u.persisting /\ SameDocs(u, t)
      <4>1. Focused(u, u.active, t) /\ SameDocs(u, t)
        BY <2>7, <3>1, <3>2, FocusIs
      <4>. QED  BY <4>1 DEF Focused
    <3>5. Settled(t) /\ Stays(u, t)
      BY <3>3, <3>4 DEF Settled, Stays
    <3>. QED  BY <2>7, <3>5, StaysOn
  <2>9. CASE s.active # v
    <3>1. t = u
      BY <1>2, <2>3, <2>6, <2>9 DEF RemoveShown
    <3>. QED  BY <2>4, <2>7, <2>9, <3>1
  <2>. QED  BY <2>8, <2>9
<1>. QED  BY <1>1, <1>2

\* Only who waits for the keyboard changes.
LEMMA PendingIs ==
    ASSUME NEW s, NEW who \in ToSet(s.items) \cup {None}, NEW t, t = [s EXCEPT !.pending = who],
           s \in Stages, Core(s)
    PROVE  /\ t \in Stages /\ Core(t) /\ t.pending = who
           /\ t.items = s.items /\ t.recent = s.recent /\ t.active = s.active /\ t.shown = s.shown
           /\ t.equal = s.equal /\ t.told = s.told /\ t.persisting = s.persisting
           /\ t.doc = s.doc /\ t.overlay = s.overlay /\ t.stored = s.stored /\ t.keys = s.keys
           /\ Weak(s) => Weak(t)
           /\ Cols(s) => Cols(t)
           /\ Sound(s) => Sound(t)
<1>0. ToSet(s.items) \subseteq ViewIds
  BY ListFacts DEF Stages
<1>1. /\ t \in Stages /\ t.pending = who
      /\ t.items = s.items /\ t.recent = s.recent /\ t.active = s.active /\ t.shown = s.shown
      /\ t.equal = s.equal /\ t.told = s.told /\ t.persisting = s.persisting
      /\ t.doc = s.doc /\ t.overlay = s.overlay /\ t.stored = s.stored /\ t.keys = s.keys
  BY <1>0 DEF Stages
<1>2. Open3(t) = Open3(s)
  BY <1>1 DEF Open3
<1>3. Core(t)
  BY <1>1, <1>2 DEF Core, Has
<1>4. Weak(s) => Weak(t)
  BY <1>1, <1>3 DEF Weak, Heard
<1>5. Cols(s) => Cols(t)
  BY <1>1 DEF Cols, Empty, Fit
<1>6. Knows(s) => Knows(t)
  BY <1>1 DEF Knows
<1>7. KeysSeen(s) => KeysSeen(t)
  BY <1>1 DEF KeysSeen
<1>8. Follows(s) => Follows(t)
  BY <1>1, FollowsStays
<1>. QED  BY <1>1, <1>3, <1>4, <1>5, <1>6, <1>7, <1>8 DEF Sound, Placed

\* A click takes the keyboard to a column, from the view that waits for it, too.
LEMMA ClickStays ==
    ASSUME NEW s, Settled(s), NEW v \in ToSet(s.shown), IsLive(s.doc[v]), ~ s.overlay,
           NEW t, t = [TakeColumn(s, v) EXCEPT !.keys = v, !.doc[v].suspended = FALSE]
    PROVE  Settled(t) /\ Stays(s, t)
<1>1. Fit(s, ToSet(s.items)) /\ v \in ToSet(s.items) /\ s \in Stages /\ Core(s) /\ Sound(s) /\ v \in ViewIds
  <2>1. Fit(s, ToSet(s.items)) /\ s \in Stages /\ Core(s) /\ Sound(s)
    BY ListFacts DEF Settled, Sound, Placed, Cols, Empty, ToSet
  <2>2. s.shown \in Seq(ViewIds)
    BY <2>1 DEF Fit
  <2>. QED  BY <2>1, <2>2, ListFacts DEF Fit
<1>2. PICK u : u = TakeColumn(s, v)
  OBVIOUS
<1>3. /\ Sound(u) /\ u.active = v /\ u.items = s.items /\ u.overlay = s.overlay /\ u.persisting = s.persisting
      /\ SameDocs(s, u)
  <2>1. CASE v = s.active
    <3>1. u = s
      BY <1>2, <2>1 DEF TakeColumn
    <3>. QED  BY <1>1, <2>1, <3>1 DEF SameDocs
  <2>2. CASE v # s.active
    <3>1. PICK who \in ToSet(s.items) \cup {None} : who = IF s.pending = v THEN v ELSE None
      BY <1>1
    <3>2. PICK p : p = [s EXCEPT !.pending = who]
      OBVIOUS
    <3>3. /\ Core(p) /\ Sound(p) /\ Weak(p) /\ Cols(p) /\ p.items = s.items /\ p.doc = s.doc /\ p.overlay = s.overlay
          /\ p.persisting = s.persisting
      <4>1. Weak(s) /\ Cols(s)
        BY <1>1, SoundWeak DEF Sound, Placed
      <4>. QED  BY <1>1, <3>2, <4>1, PendingIs
    <3>4. u = Activate(p, v, FALSE)
      BY <1>2, <2>2, <3>1, <3>2 DEF TakeColumn, Has
    <3>5. PICK c : Fit(c, ToSet(p.items)) /\ c.active = v /\ Moved(p, c, u)
      BY <1>1, <3>3, <3>4, ActivateIs
    <3>. QED  BY <3>3, <3>5 DEF Moved, Kept, SameDocs
  <2>. QED  BY <2>1, <2>2
<1>4. u \in Stages /\ Core(u) /\ Cols(u) /\ Knows(u) /\ Follows(u)
  BY <1>3 DEF Sound, Placed
<1>5. PICK d : d = [u.doc EXCEPT ![v] = [u.doc[v] EXCEPT !.suspended = FALSE]]
  OBVIOUS
<1>6. t = [u EXCEPT !.keys = v, !.doc = d]
  <2>1. v \in DOMAIN u.doc /\ u.doc \in [ViewIds -> Docs]
    BY <1>1, <1>4 DEF Stages
  <2>2. t = [u EXCEPT !.keys = v, !.doc[v].suspended = FALSE]
    BY <1>2
  <2>. QED  BY <1>4, <1>5, <2>1, <2>2 DEF Stages
<1>7. /\ d \in [ViewIds -> Docs]
      /\ \A w \in ViewIds : /\ d[w].phase = u.doc[w].phase /\ d[w].name = u.doc[w].name
                            /\ d[w].asked = u.doc[w].asked /\ d[w].kept = u.doc[w].kept /\ d[w].hidden = u.doc[w].hidden
                            /\ d[w].suspended = IF w = v THEN FALSE ELSE u.doc[w].suspended
  <2>1. u.doc \in [ViewIds -> Docs]
    BY <1>4 DEF Stages
  <2>2. \A w \in ViewIds : d[w] = IF w = v THEN [u.doc[v] EXCEPT !.suspended = FALSE] ELSE u.doc[w]
    BY <1>1, <1>5, <2>1
  <2>3. \A w \in ViewIds : u.doc[w] \in Docs
    BY <2>1
  <2>4. ASSUME NEW w \in ViewIds
        PROVE  /\ d[w] \in Docs
               /\ d[w].phase = u.doc[w].phase /\ d[w].name = u.doc[w].name
               /\ d[w].asked = u.doc[w].asked /\ d[w].kept = u.doc[w].kept /\ d[w].hidden = u.doc[w].hidden
               /\ d[w].suspended = IF w = v THEN FALSE ELSE u.doc[w].suspended
    <3>1. CASE w = v
      <4>1. d[w] = [u.doc[v] EXCEPT !.suspended = FALSE] /\ u.doc[v] \in Docs
        BY <2>2, <2>3, <3>1
      <4>. QED  BY <3>1, <4>1 DEF Docs
    <3>2. CASE w # v
      BY <2>2, <2>3, <3>2
    <3>. QED  BY <3>1, <3>2
  <2>5. d \in [ViewIds -> Docs]
    BY <1>1, <1>5, <2>1, <2>4
  <2>. QED  BY <2>4, <2>5
<1>8. /\ t \in Stages /\ t.keys = v /\ t.doc = d
      /\ t.items = u.items /\ t.recent = u.recent /\ t.active = u.active /\ t.shown = u.shown
      /\ t.equal = u.equal /\ t.told = u.told /\ t.persisting = u.persisting
      /\ t.overlay = u.overlay /\ t.stored = u.stored /\ t.pending = u.pending
  BY <1>1, <1>4, <1>6, <1>7 DEF Stages
<1>9. SameDocs(u, t)
  BY <1>7, <1>8 DEF SameDocs
<1>10. Core(t)
  <2>1. ToSet(t.recent) \subseteq ToSet(u.items)
    BY <1>4, <1>8 DEF Core
  <2>. QED  BY <1>4, <1>8, <1>9, <2>1, CoreStays
<1>11. Cols(t)
  BY <1>4, <1>8 DEF Cols, Empty, Fit
<1>12. Knows(t)
  <2>1. SUFFICES ASSUME NEW w \in ToSet(t.items), IsLive(t.doc[w])
                 PROVE  /\ t.doc[w].suspended = (w # t.active)
                        /\ t.doc[w].hidden = (~ Has(t.shown, w)) /\ t.told[w] = t.doc[w].hidden
    BY DEF Knows
  <2>2. w \in ViewIds
    BY <1>8, ListFacts DEF Stages
  <2>3. /\ u.doc[w].suspended = (w # u.active)
        /\ u.doc[w].hidden = (~ Has(u.shown, w)) /\ u.told[w] = u.doc[w].hidden
    <3>1. w \in ToSet(u.items)
      BY <1>8, <2>1
    <3>2. u.doc[w].phase = t.doc[w].phase
      BY <1>7, <1>8, <2>2
    <3>3. IsLive(u.doc[w])
      BY <2>1, <3>2 DEF IsLive
    <3>. QED  BY <1>4, <3>1, <3>3 DEF Knows
  <2>. QED  BY <1>3, <1>7, <1>8, <2>2, <2>3
<1>13. Follows(t)
  <2>1. \A w \in ViewIds : t.doc[w].kept => u.doc[w].kept /\ t.doc[w].name = u.doc[w].name
    BY <1>7, <1>8
  <2>2. /\ Follows(u) /\ t.items = u.items /\ t.shown = u.shown /\ t.active = u.active /\ t.equal = u.equal
        /\ t.stored = u.stored /\ t.persisting = u.persisting
    BY <1>4, <1>8
  <2>. QED  BY ONLY <2>1, <2>2, FollowsStays
<1>14. KeysOk(t)
  <2>1. Has(t.shown, v)
    BY <1>3, <1>4, <1>8, <1>1, StageAssumption DEF Cols, Empty, Fit, Has
  <2>. QED  BY <1>3, <1>8, <2>1 DEF KeysOk, KeysSeen
<1>15. Stays(s, t)
  <2>1. t.active # None
    BY <1>1, <1>3, <1>8, StageAssumption
  <2>. QED  BY <1>3, <1>8, <1>9, <2>1 DEF Stays, SameDocs
<1>. QED  BY <1>8, <1>10, <1>11, <1>12, <1>13, <1>14, <1>15 DEF Settled, Sound, Placed, KeysOk

\* The first view on a name is one that is open.
LEMMA ViewForIs ==
    ASSUME NEW s \in Stages, NEW name
    PROVE  /\ ViewFor(s, name) \in ToSet(s.items) \cup {None}
           /\ ViewFor(s, name) # None => WorkspaceOf(s, ViewFor(s, name)) = name
<1>. DEFINE I == {i \in 1 .. Len(s.items) : WorkspaceOf(s, s.items[i]) = name}
            at == SelectInSeq(s.items, LAMBDA v : WorkspaceOf(s, v) = name)
<1>1. s.items \in Seq(ViewIds) /\ Len(s.items) \in Nat
  BY DEF Stages
<1>2. at = IF I # {} THEN Min(I) ELSE 0
  BY DEF SelectInSeq
<1>3. I # {} => Min(I) \in I
  <2>1. I \in SUBSET Nat
    BY <1>1
  <2>. QED  BY <2>1, Least DEF Min
<1>4. ViewFor(s, name) = IF at = 0 THEN None ELSE s.items[at]
  BY DEF ViewFor
<1>5. CASE I = {}
  BY <1>2, <1>4, <1>5
<1>6. CASE I # {}
  <2>1. at \in I /\ at \in 1 .. Len(s.items) /\ at # 0
    <3>1. PICK m : m = Min(I) /\ m \in I
      BY <1>3, <1>6
    <3>2. at = m
      BY <1>2, <1>6, <3>1
    <3>3. m \in 1 .. Len(s.items) /\ m # 0
      BY <1>1, <3>1
    <3>. QED  BY ONLY <3>1, <3>2, <3>3
  <2>2. ViewFor(s, name) = s.items[at]
    BY <1>4, <2>1
  <2>3. s.items[at] \in ToSet(s.items)
    BY <1>1, <2>1, ListFacts
  <2>. QED  BY <2>1, <2>2, <2>3
<1>. QED  BY <1>5, <1>6

\* The sidebar lists open views.
LEMMA SidebarIs ==
    ASSUME NEW s \in Stages
    PROVE  SidebarOrder(s) \in Seq(ToSet(s.items))
<1>1. PICK named \in Seq(Names) :
          /\ named = Known(NameOrder, {n \in Names : ViewFor(s, n) # None})
          /\ ToSet(named) \subseteq {n \in Names : ViewFor(s, n) # None}
  <2>1. NameOrder \in Seq(Names)
    BY StageAssumption
  <2>2. PICK those : those = {n \in Names : ViewFor(s, n) # None}
    OBVIOUS
  <2>3. Known(NameOrder, those) \in Seq(Names) /\ ToSet(Known(NameOrder, those)) = ToSet(NameOrder) \cap those
    BY ONLY <2>1, KnownIs
  <2>. QED  BY <2>2, <2>3
<1>2. PICK scratch \in Seq(ViewIds) :
          /\ scratch = Known(s.items, {v \in ViewIds : WorkspaceOf(s, v) = Scratch})
          /\ ToSet(scratch) \subseteq ToSet(s.items)
  <2>1. s.items \in Seq(ViewIds)
    BY DEF Stages
  <2>2. PICK those : those = {v \in ViewIds : WorkspaceOf(s, v) = Scratch}
    OBVIOUS
  <2>3. Known(s.items, those) \in Seq(ViewIds) /\ ToSet(Known(s.items, those)) = ToSet(s.items) \cap those
    BY ONLY <2>1, KnownIs
  <2>. QED  BY <2>2, <2>3
<1>3. PICK saved \in Seq(ToSet(s.items)) : saved = [i \in DOMAIN named |-> ViewFor(s, named[i])]
  <2>1. DOMAIN named = 1 .. Len(named) /\ Len(named) \in Nat
    OBVIOUS
  <2>2. ASSUME NEW i \in 1 .. Len(named)
        PROVE  ViewFor(s, named[i]) \in ToSet(s.items)
    <3>1. named[i] \in ToSet(named)
      BY ListFacts
    <3>2. ViewFor(s, named[i]) # None
      BY <1>1, <3>1
    <3>. QED  BY <3>2, ViewForIs
  <2>3. [i \in DOMAIN named |-> ViewFor(s, named[i])] \in [1 .. Len(named) -> ToSet(s.items)]
    BY <2>1, <2>2
  <2>4. [i \in DOMAIN named |-> ViewFor(s, named[i])] \in Seq(ToSet(s.items))
    <3>1. PICK f : f = [i \in DOMAIN named |-> ViewFor(s, named[i])]
      OBVIOUS
    <3>. QED  BY <2>1, <2>3, <3>1
  <2>. QED  BY <2>4
<1>4. scratch \in Seq(ToSet(s.items))
  <2>1. \A i \in 1 .. Len(scratch) : scratch[i] \in ToSet(s.items)
    BY <1>2, ListFacts
  <2>. QED  BY <2>1
<1>5. SidebarOrder(s) = saved \o scratch
  BY <1>1, <1>2, <1>3 DEF SidebarOrder
<1>. QED  BY <1>3, <1>4, <1>5

\* The next one in the sidebar, round its ends.
LEMMA CycleStays ==
    ASSUME NEW s, Settled(s), NEW forward \in BOOLEAN, NEW t, t = Cycle(s, forward)
    PROVE  Settled(t) /\ Stays(s, t)
<1>0. s \in Stages
  BY DEF Settled, Sound, Placed
<1>1. PICK order \in Seq(ToSet(s.items)) : order = SidebarOrder(s)
  BY <1>0, SidebarIs
<1>2. PICK n \in Nat : n = Len(order)
  OBVIOUS
<1>3. PICK i \in 0 .. n : i = IF s.active = None THEN 0 ELSE At(order, s.active)
  BY <1>2, AtIs
<1>4. CASE Len(s.items) < 2 \/ n = 0
  <2>1. t = s
    BY <1>1, <1>2, <1>4 DEF Cycle
  <2>. QED  BY <2>1 DEF Stays, SameDocs
<1>5. CASE ~ (Len(s.items) < 2 \/ n = 0)
  <2>1. PICK by \in Int : by = i - 1 + n + (IF forward THEN 1 ELSE n - 1)
    BY <1>2, <1>3
  <2>2. by % n \in 0 .. n - 1
    BY <1>5
  <2>3. PICK k \in 1 .. n : k = (by % n) + 1
    BY <2>2
  <2>4. order[k] \in ToSet(s.items)
    BY <1>2, <2>3
  <2>5. t = FocusView(s, order[k], TRUE)
    BY <1>1, <1>2, <1>3, <1>5, <2>1, <2>3 DEF Cycle
  <2>. QED  BY <2>4, <2>5, FocusStays
<1>. QED  BY <1>4, <1>5

-----------------------------------------------------------------------------
(* Views that come and go. *)

\* The widths and what is stored do not matter to the views.
LEMMA PlacedStays ==
    ASSUME NEW s, NEW t \in Stages, Placed(s), KeysOk(s), t.items = s.items, t.recent = s.recent, t.active = s.active,
           t.shown = s.shown, t.pending = s.pending, t.told = s.told, t.doc = s.doc, t.overlay = s.overlay, t.keys = s.keys
    PROVE  Placed(t) /\ KeysOk(t)
<1>1. Core(t)
  <2>1. s \in Stages /\ Core(s) /\ SameDocs(s, t) /\ ToSet(t.recent) \subseteq ToSet(s.items)
    BY DEF Placed, SameDocs, Core
  <2>. QED  BY <2>1, CoreStays
<1>2. Cols(t)
  BY DEF Placed, Cols, Empty, Fit
<1>3. Knows(t)
  BY DEF Placed, Knows
<1>4. KeysOk(t)
  BY DEF KeysOk, KeysSeen
<1>. QED  BY <1>1, <1>2, <1>3, <1>4 DEF Placed, KeysOk

\* Storing settles a stage.
LEMMA PersistStays ==
    ASSUME NEW s, Placed(s), KeysOk(s), NEW t, t = Persist(s)
    PROVE  Settled(t) /\ Stays(s, t) /\ t.active = s.active
<1>1. /\ t \in Stages /\ Follows(t)
      /\ t.items = s.items /\ t.recent = s.recent /\ t.active = s.active /\ t.shown = s.shown
      /\ t.equal = s.equal /\ t.pending = s.pending /\ t.told = s.told /\ t.persisting = s.persisting
      /\ t.doc = s.doc /\ t.overlay = s.overlay /\ t.keys = s.keys
  BY PersistIs DEF Placed
<1>2. Placed(t) /\ KeysOk(t)
  BY <1>1, PlacedStays
<1>3. Stays(s, t)
  BY <1>1 DEF Stays, SameDocs
<1>. QED  BY <1>1, <1>2, <1>3 DEF Settled, Sound

\* So does painting it first.
LEMMA PaintStays ==
    ASSUME NEW s, Placed(s), KeysOk(s), NEW t, t = Paint(s)
    PROVE  Placed(t) /\ KeysOk(t) /\ Stays(s, t) /\ t.active = s.active
<1>1. s \in Stages /\ Heard(s) /\ Core(s) /\ Cols(s) /\ Knows(s) /\ KeysSeen(s)
  BY KnowsHeard DEF Placed
<1>2. /\ Tells(s, t) /\ t.keys = IF s.keys = Shell \/ Has(s.shown, s.keys) THEN s.keys ELSE Shell
      /\ \A v \in ViewIds : t.doc[v].suspended = s.doc[v].suspended
      /\ \A v \in ToSet(s.items) : IsLive(s.doc[v]) =>
             t.doc[v].hidden = ~ Has(s.shown, v) /\ t.told[v] = t.doc[v].hidden
  BY <1>1, PaintIs
<1>3. /\ t \in Stages /\ SameDocs(s, t) /\ t.keys = s.keys
      /\ t.items = s.items /\ t.pending = s.pending /\ t.overlay = s.overlay /\ t.persisting = s.persisting
      /\ t.recent = s.recent /\ t.active = s.active /\ t.shown = s.shown
  BY <1>1, <1>2 DEF Tells, Kept, KeysSeen
<1>4. Core(t)
  <2>1. ToSet(t.recent) \subseteq ToSet(s.items)
    BY <1>1, <1>3 DEF Core
  <2>. QED  BY <1>1, <1>3, <2>1, CoreStays
<1>5. Cols(t)
  BY <1>1, <1>3 DEF Cols, Empty, Fit
<1>6. Knows(t)
  <2>1. ToSet(s.items) \subseteq ViewIds
    BY <1>1, ListFacts DEF Stages
  <2>2. SUFFICES ASSUME NEW v \in ToSet(t.items), IsLive(t.doc[v])
                 PROVE  /\ t.doc[v].suspended = (v # t.active)
                        /\ t.doc[v].hidden = (~ Has(t.shown, v)) /\ t.told[v] = t.doc[v].hidden
    BY DEF Knows
  <2>3. v \in ToSet(s.items) /\ v \in ViewIds /\ IsLive(s.doc[v])
    BY <1>3, <2>1, <2>2 DEF SameDocs, IsLive
  <2>4. s.doc[v].suspended = (v # s.active)
    BY <1>1, <2>3 DEF Knows
  <2>. QED  BY <1>2, <1>3, <2>3, <2>4
<1>7. KeysOk(t)
  BY <1>3 DEF KeysOk, KeysSeen
<1>8. Stays(s, t)
  BY <1>3 DEF Stays
<1>. QED  BY <1>3, <1>4, <1>5, <1>6, <1>7, <1>8 DEF Placed, KeysOk

\* The next view is a new one.
LEMMA NextIdIs ==
    ASSUME NEW s \in Stages, Core(s), NEW v \in ViewIds, v = NextId(s)
    PROVE  /\ s.doc[v].phase = "none" /\ v \notin ToSet(s.items)
           /\ \A w \in ViewIds : s.doc[w].phase # "none" \/ w = v <=> w <= v
<1>1. PICK n \in 0 .. MaxViews : \A w \in ViewIds : s.doc[w].phase # "none" <=> w <= n
  BY DEF Core
<1>2. {w \in ViewIds : s.doc[w].phase # "none"} = 1 .. n
  BY <1>1, StageAssumption DEF ViewIds
<1>3. Cardinality(1 .. n) = n
  BY <1>1, FS_Interval
<1>4. v = n + 1
  BY <1>2, <1>3 DEF NextId
<1>5. s.doc[v].phase = "none"
  BY <1>1, <1>4
<1>6. v \notin ToSet(s.items)
  BY <1>5 DEF Core, Open3
<1>7. \A w \in ViewIds : s.doc[w].phase # "none" \/ w = v <=> w <= v
  BY <1>1, <1>4, StageAssumption DEF ViewIds
<1>. QED  BY <1>5, <1>6, <1>7

\* A view is placed: it is there, and not shown yet.
LEMMA PlaceIs ==
    ASSUME NEW s, Placed(s), KeysOk(s), NEW name \in Goes, NEW v \in ViewIds, v = NextId(s), NEW t, t = Place(s, name)
    PROVE  /\ Placed(t) /\ KeysOk(t) /\ ToSet(t.items) = ToSet(s.items) \cup {v} /\ v \notin ToSet(s.items)
           /\ t.active = s.active /\ t.shown = s.shown /\ t.persisting = s.persisting /\ t.overlay = s.overlay
<1>0. s \in Stages /\ Core(s) /\ Cols(s) /\ Knows(s) /\ KeysSeen(s) /\ s.items \in Seq(ViewIds)
  BY DEF Placed, Stages
<1>1. /\ s.doc[v].phase = "none" /\ v \notin ToSet(s.items)
      /\ \A w \in ViewIds : s.doc[w].phase # "none" \/ w = v <=> w <= v
  BY <1>0, NextIdIs
<1>2. PICK items \in Seq(ViewIds) :
          items = Append(s.items, v) /\ ToSet(items) = ToSet(s.items) \cup {v} /\ IsInjective(items)
  <2>1. IsInjective(s.items) /\ ~ Has(s.items, v)
    BY <1>0, <1>1 DEF Core, Has
  <2>. QED  BY <1>0, <2>1, AppendIs
<1>3. PICK fresh : fresh = [NoDoc EXCEPT !.phase = "loading", !.asked = name, !.name = name]
  OBVIOUS
<1>4. fresh \in Docs /\ fresh.phase = "loading" /\ fresh.asked = name /\ fresh.name = name
  <2>1. None \in Goes
    BY DEF Goes
  <2>. QED  BY <1>3, <2>1 DEF NoDoc, Docs
<1>5. PICK p : p = [s EXCEPT !.items = items, !.told = [s.told EXCEPT ![v] = None], !.doc = [s.doc EXCEPT ![v] = fresh]]
  OBVIOUS
<1>6. /\ p \in Stages /\ p.items = items
      /\ p.told = [s.told EXCEPT ![v] = None] /\ p.doc = [s.doc EXCEPT ![v] = fresh]
      /\ p.pending = s.pending /\ p.overlay = s.overlay /\ p.persisting = s.persisting
      /\ p.recent = s.recent /\ p.active = s.active /\ p.shown = s.shown /\ p.keys = s.keys
  BY <1>0, <1>2, <1>4, <1>5 DEF Stages
<1>7. \A w \in ViewIds : p.doc[w] = (IF w = v THEN fresh ELSE s.doc[w]) /\ (w # v => p.told[w] = s.told[w])
  BY <1>0, <1>6 DEF Stages
<1>8. t = Paint(p)
  <2>1. t = Paint([s EXCEPT !.items = Append(s.items, v), !.told[v] = None, !.doc[v] = fresh])
    BY <1>3 DEF Place
  <2>2. [s EXCEPT !.items = Append(s.items, v), !.told[v] = None, !.doc[v] = fresh] = p
    BY <1>0, <1>2, <1>5 DEF Stages
  <2>. QED  BY <2>1, <2>2
<1>9. Core(p)
  <2>1. ToSet(p.items) = Open3(p)
    <3>1. ToSet(s.items) = Open3(s)
      BY <1>0 DEF Core
    <3>2. \A w \in ViewIds : p.doc[w].phase \in {"loading", "live"} <=> w = v \/ s.doc[w].phase \in {"loading", "live"}
      BY <1>4, <1>7
    <3>3. Open3(p) = Open3(s) \cup {v}
      BY <3>2 DEF Open3
    <3>. QED  BY <1>2, <1>6, <3>1, <3>3
  <2>2. ToSet(p.recent) \subseteq ToSet(p.items) /\ (p.pending # None => Has(p.items, p.pending))
    BY <1>0, <1>2, <1>6 DEF Core, Has
  <2>3. v \in 0 .. MaxViews /\ \A w \in ViewIds : p.doc[w].phase # "none" <=> w <= v
    <3>1. \A w \in ViewIds : p.doc[w].phase # "none" <=> s.doc[w].phase # "none" \/ w = v
      BY <1>4, <1>7
    <3>. QED  BY <1>1, <3>1, StageAssumption DEF ViewIds
  <2>4. \A w \in ViewIds : p.doc[w].kept => p.doc[w].name = p.doc[w].asked
    BY <1>0, <1>4, <1>7 DEF Core
  <2>. QED  BY <1>2, <1>6, <2>1, <2>2, <2>3, <2>4 DEF Core
<1>10. Cols(p)
  BY <1>0, <1>2, <1>6 DEF Cols, Empty, Fit
<1>11. Knows(p)
  <2>1. SUFFICES ASSUME NEW w \in ToSet(items), IsLive(p.doc[w])
                 PROVE  /\ p.doc[w].suspended = (w # p.active)
                        /\ p.doc[w].hidden = (~ Has(p.shown, w)) /\ p.told[w] = p.doc[w].hidden
    BY <1>6 DEF Knows
  <2>2. w \in ViewIds
    BY <1>2, ListFacts
  <2>3. w # v
    BY <1>4, <1>7, <2>1, <2>2 DEF IsLive
  <2>4. w \in ToSet(s.items) /\ p.doc[w] = s.doc[w] /\ p.told[w] = s.told[w]
    BY <1>2, <1>7, <2>2, <2>3
  <2>5. /\ s.doc[w].suspended = (w # s.active)
        /\ s.doc[w].hidden = (~ Has(s.shown, w)) /\ s.told[w] = s.doc[w].hidden
    BY <1>0, <2>1, <2>4 DEF Knows
  <2>. QED  BY <1>6, <2>4, <2>5
<1>12. Placed(p) /\ KeysOk(p)
  BY <1>0, <1>6, <1>9, <1>10, <1>11 DEF Placed, KeysOk, KeysSeen
<1>13. Placed(t) /\ KeysOk(t) /\ Stays(p, t) /\ t.active = p.active
  BY <1>8, <1>12, PaintStays
<1>14. t.shown = p.shown
  <2>1. Heard(p) /\ p \in Stages
    BY <1>11, <1>6, KnowsHeard
  <2>. QED  BY <1>8, <2>1, PaintIs DEF Tells
<1>. QED  BY <1>1, <1>2, <1>6, <1>13, <1>14 DEF Stays

\* What is shown is open.
LEMMA ShownOpen ==
    ASSUME NEW s, Cols(s)
    PROVE  ToSet(s.shown) \subseteq ToSet(s.items) /\ s.shown \in Seq(ViewIds)
<1>1. CASE Empty(s)
  <2>1. s.shown = << >> /\ << >> \in Seq(ViewIds)
    BY <1>1 DEF Empty
  <2>2. ToSet(s.shown) = {}
    BY <2>1, ListFacts
  <2>. QED  BY <2>1, <2>2
<1>2. CASE Fit(s, ToSet(s.items))
  BY <1>2 DEF Fit
<1>. QED  BY <1>1, <1>2 DEF Cols

\* A view is opened: it is shown, and waits for the keyboard.
LEMMA OpenedIs ==
    ASSUME NEW s, Settled(s), NEW name \in Goes, NextId(s) \in ViewIds, NEW beside \in BOOLEAN,
           NEW t, t = Opened(s, name, beside)
    PROVE  /\ Settled(t) /\ t.active # None
           /\ ToSet(s.items) \subseteq ToSet(t.items)
           /\ t.persisting = s.persisting /\ t.overlay = s.overlay
<1>1. PICK v \in ViewIds : v = NextId(s)
  OBVIOUS
<1>2. PICK p : p = Place(s, name)
  OBVIOUS
<1>3. /\ Placed(p) /\ KeysOk(p) /\ ToSet(p.items) = ToSet(s.items) \cup {v} /\ v \notin ToSet(s.items)
      /\ p.active = s.active /\ p.shown = s.shown /\ p.persisting = s.persisting /\ p.overlay = s.overlay
  <2>1. Placed(s) /\ KeysOk(s)
    BY DEF Settled, Sound
  <2>. QED  BY <1>1, <1>2, <2>1, PlaceIs
<1>4. PICK q : q = [p EXCEPT !.pending = v]
  OBVIOUS
<1>5. /\ Weak(q) /\ Cols(q) /\ q.pending = v
      /\ q.items = p.items /\ q.active = p.active /\ q.shown = p.shown /\ q.persisting = p.persisting
      /\ q.overlay = p.overlay /\ q.keys = p.keys
  <2>1. p \in Stages /\ Core(p) /\ Weak(p) /\ Cols(p)
    BY <1>3, SoundWeak DEF Placed
  <2>. QED  BY <1>3, <1>4, <2>1, PendingIs
<1>6. v \notin ToSet(q.shown) /\ v \in ToSet(q.items)
  <2>1. ToSet(s.shown) \subseteq ToSet(s.items)
    BY ShownOpen DEF Settled, Sound, Placed
  <2>. QED  BY <1>3, <1>5, <2>1
<1>7. \E c : Fit(c, ToSet(q.items)) /\ c.active = v /\ Moved(q, c, t)
  <2>1. CASE beside
    <3>1. PICK c : c = AddColumn(q, v)
      OBVIOUS
    <3>2. t = SetShown(q, c)
      BY <1>1, <1>2, <1>4, <2>1, <3>1 DEF Opened
    <3>3. Fit(c, ToSet(q.items)) /\ c.active = v
      BY <1>5, <1>6, <3>1, AddFits DEF Cols
    <3>4. c.shown # q.shown
      BY <1>6, <3>3 DEF Fit
    <3>5. Moved(q, c, t)
      BY <1>5, <3>2, <3>3, <3>4, SetShownIs
    <3>. QED  BY <3>3, <3>5
  <2>2. CASE ~ beside
    <3>1. t = Activate(q, v, FALSE)
      BY <1>1, <1>2, <1>4, <2>2 DEF Opened
    <3>. QED  BY <1>5, <1>6, <3>1, ActivateIs
  <2>. QED  BY <2>1, <2>2
<1>8. PICK c : Fit(c, ToSet(q.items)) /\ c.active = v /\ Moved(q, c, t)
  BY <1>7
<1>9. Sound(t) /\ t.active = v /\ t.items = q.items /\ t.pending = v /\ t.persisting = q.persisting /\ t.overlay = q.overlay
  BY <1>5, <1>8 DEF Moved, Kept
<1>10. KeysOk(t)
  BY <1>9 DEF Sound, Placed, KeysOk
<1>11. v # None
  BY StageAssumption
<1>. QED  BY <1>3, <1>5, <1>9, <1>10, <1>11 DEF Settled

-----------------------------------------------------------------------------
(* A view that is closed, and one that has booted. *)

\* A view is taken out: it is in no list any more but the columns.
LEMMA RemovedIs ==
    ASSUME NEW s, Placed(s), NEW v \in ToSet(s.items), NEW t, t = Removed(s, v)
    PROVE  /\ Weak(t) /\ ToSet(t.items) = ToSet(s.items) \ {v}
           /\ t.active = s.active /\ t.shown = s.shown /\ t.persisting = s.persisting /\ t.overlay = s.overlay
           /\ t.told = s.told
           /\ t.pending = (IF s.pending = v THEN None ELSE s.pending)
           /\ t.keys = (IF s.keys = v THEN Shell ELSE s.keys)
           /\ \A w \in ViewIds \ {v} : t.doc[w] = s.doc[w]
<1>0. s \in Stages /\ Core(s) /\ Knows(s) /\ KeysSeen(s) /\ s.items \in Seq(ViewIds) /\ s.recent \in Seq(ViewIds) /\ v \in ViewIds
  <2>1. s \in Stages /\ Core(s) /\ Knows(s) /\ KeysSeen(s) /\ s.items \in Seq(ViewIds) /\ s.recent \in Seq(ViewIds)
    BY DEF Placed, Stages
  <2>. QED  BY <2>1, ListFacts
<1>1. PICK items \in Seq(ViewIds) :
          items = Without(s.items, v) /\ ToSet(items) = ToSet(s.items) \ {v} /\ IsInjective(items)
  BY <1>0, WithoutIs DEF Core
<1>2. PICK recent \in Seq(ViewIds) : recent = Without(s.recent, v) /\ ToSet(recent) = ToSet(s.recent) \ {v}
  BY <1>0, WithoutIs
<1>3. PICK who \in ViewIds \cup {None} : who = IF s.pending = v THEN None ELSE s.pending
  BY <1>0 DEF Stages
<1>4. PICK mine \in ViewIds \cup {Shell} : mine = IF s.keys = v THEN Shell ELSE s.keys
  BY <1>0 DEF Stages
<1>5. PICK d : d = [s.doc EXCEPT ![v] = [s.doc[v] EXCEPT !.phase = "gone"]]
  OBVIOUS
<1>6. /\ d \in [ViewIds -> Docs]
      /\ \A w \in ViewIds : w # v => d[w] = s.doc[w]
      /\ d[v].phase = "gone" /\ d[v].name = s.doc[v].name /\ d[v].asked = s.doc[v].asked /\ d[v].kept = s.doc[v].kept
  <2>1. s.doc \in [ViewIds -> Docs]
    BY <1>0 DEF Stages
  <2>2. PICK e : e = [s.doc[v] EXCEPT !.phase = "gone"]
    OBVIOUS
  <2>3. s.doc[v] \in Docs
    BY <1>0, <2>1
  <2>4. e \in Docs /\ e.phase = "gone" /\ e.name = s.doc[v].name /\ e.asked = s.doc[v].asked /\ e.kept = s.doc[v].kept
    BY <2>2, <2>3 DEF Docs
  <2>. QED  BY <1>0, <1>5, <2>1, <2>2, <2>4
<1>7. t = [s EXCEPT !.items = items, !.recent = recent, !.pending = who, !.doc = d, !.keys = mine]
  <2>1. t = [s EXCEPT !.items = items, !.recent = recent, !.pending = who, !.doc[v].phase = "gone", !.keys = mine]
    BY <1>1, <1>2, <1>3, <1>4 DEF Removed
  <2>. QED  BY <1>0, <1>5, <2>1 DEF Stages
<1>8. /\ t \in Stages /\ t.items = items /\ t.recent = recent /\ t.pending = who /\ t.doc = d /\ t.keys = mine
      /\ t.active = s.active /\ t.shown = s.shown /\ t.persisting = s.persisting /\ t.overlay = s.overlay
      /\ t.told = s.told
  <2>1. t \in Stages
    BY <1>0, <1>6, <1>7 DEF Stages
  <2>2. t.items = items /\ t.recent = recent /\ t.pending = who /\ t.doc = d /\ t.keys = mine
    BY <1>0, <1>7 DEF Stages
  <2>3. /\ t.active = s.active /\ t.shown = s.shown /\ t.persisting = s.persisting /\ t.overlay = s.overlay
        /\ t.told = s.told
    BY <1>0, <1>7 DEF Stages
  <2>. QED  BY <2>1, <2>2, <2>3
<1>9. Core(t)
  <2>1. ToSet(t.items) = Open3(t)
    <3>1. ToSet(s.items) = Open3(s)
      BY <1>0 DEF Core
    <3>2. Open3(t) = Open3(s) \ {v}
      BY <1>0, <1>6, <1>8 DEF Open3
    <3>. QED  BY <1>1, <1>8, <3>1, <3>2
  <2>2. ToSet(t.recent) \subseteq ToSet(t.items) /\ (t.pending # None => Has(t.items, t.pending))
    BY <1>0, <1>1, <1>2, <1>3, <1>8 DEF Core, Has
  <2>3. PICK n \in 0 .. MaxViews : \A w \in ViewIds : s.doc[w].phase # "none" <=> w <= n
    BY <1>0 DEF Core
  <2>4. s.doc[v].phase # "none"
    BY <1>0 DEF Core, Open3
  <2>5. \A w \in ViewIds : t.doc[w].phase # "none" <=> w <= n
    <3>1. v <= n
      BY <1>0, <2>3, <2>4
    <3>. QED  BY <1>6, <1>8, <2>3, <3>1
  <2>6. \A w \in ViewIds : t.doc[w].kept => t.doc[w].name = t.doc[w].asked
    BY <1>0, <1>6, <1>8 DEF Core
  <2>. QED  BY <1>1, <1>8, <2>1, <2>2, <2>5, <2>6 DEF Core
<1>10. Heard(t)
  <2>1. SUFFICES ASSUME NEW w \in ToSet(items), IsLive(d[w])
                 PROVE  s.told[w] \in {None, d[w].hidden}
    BY <1>8 DEF Heard
  <2>2. w \in ToSet(s.items) /\ w # v /\ w \in ViewIds
    BY <1>0, <1>1, ListFacts
  <2>3. d[w] = s.doc[w]
    BY <1>6, <2>2
  <2>. QED  BY <1>0, <2>1, <2>2, <2>3 DEF Knows
<1>11. t.keys # Shell => ~ t.overlay
  BY <1>0, <1>4, <1>8 DEF KeysSeen
<1>. QED  BY <1>1, <1>3, <1>4, <1>6, <1>8, <1>9, <1>10, <1>11 DEF Weak

\* What is left when a column among others goes.
LEMMA LeavesBeside ==
    ASSUME NEW s, Settled(s), NEW v \in ToSet(s.items), Has(s.shown, v), Len(s.shown) > 1, NEW t, t = Leaves(s, v)
    PROVE  Placed(t) /\ KeysOk(t) /\ t.active # None /\ t.persisting = s.persisting /\ t.overlay = s.overlay
<1>0. Placed(s) /\ KeysOk(s) /\ Fit(s, ToSet(s.items))
  <2>1. Cols(s)
    BY DEF Settled, Sound, Placed
  <2>2. ~ Empty(s)
    BY DEF Empty, Has, ToSet
  <2>. QED  BY <2>1, <2>2 DEF Settled, Sound, Cols
<1>1. PICK r : r = Removed(s, v)
  OBVIOUS
<1>2. /\ Weak(r) /\ ToSet(r.items) = ToSet(s.items) \ {v}
      /\ r.active = s.active /\ r.shown = s.shown /\ r.persisting = s.persisting /\ r.overlay = s.overlay
      /\ r.pending = (IF s.pending = v THEN None ELSE s.pending)
      /\ r.keys = (IF s.keys = v THEN Shell ELSE s.keys)
  BY <1>0, <1>1, RemovedIs
<1>3. PICK c : c = RemoveColumn(r, v)
  OBVIOUS
<1>4. Fit(c, ToSet(r.items)) /\ (r.active # v => c.active = r.active) /\ c.active # None
  <2>1. Fit(r, ToSet(s.items))
    BY <1>0, <1>2 DEF Fit
  <2>2. Has(r.shown, v) /\ Len(r.shown) > 1
    BY <1>2
  <2>3. Fit(c, ToSet(s.items) \ {v}) /\ (r.active # v => c.active = r.active)
    BY <1>3, <2>1, <2>2, RemoveFits
  <2>4. c.active \in ViewIds
    <3>1. c.active \in ToSet(c.shown) /\ c.shown \in Seq(ViewIds)
      BY <2>3 DEF Fit
    <3>. QED  BY <3>1, ListFacts
  <2>. QED  BY <1>2, <2>3, <2>4, StageAssumption
<1>5. PICK u : u = SetShown(r, c)
  OBVIOUS
<1>6. Moved(r, c, u)
  <2>1. c.shown # r.shown
    BY <1>2, <1>4 DEF Fit, Has
  <2>. QED  BY <1>2, <1>4, <1>5, <2>1, SetShownIs
<1>7. /\ Sound(u) /\ u.active = c.active /\ u.items = r.items /\ u.pending = r.pending /\ u.keys \in {r.keys, Shell}
      /\ u.persisting = s.persisting /\ u.overlay = s.overlay
  BY <1>2, <1>6 DEF Moved, Kept
<1>8. CASE s.active = v
  <2>1. t = FocusView(u, u.active, FALSE)
    BY <1>1, <1>3, <1>5, <1>8 DEF Leaves
  <2>2. Weak(u) /\ Cols(u) /\ u.active \in ToSet(u.items)
    BY <1>4, <1>7, SoundWeak DEF Sound, Placed, Fit
  <2>3. Sound(u)
    BY <1>7
  <2>4. /\ Sound(t) /\ KeysOk(t) /\ t.active = u.active
        /\ t.items = u.items /\ t.overlay = u.overlay /\ t.persisting = u.persisting
    <3>1. Focused(u, u.active, FocusView(u, u.active, FALSE))
      BY ONLY <2>2, <2>3, FocusPlain
    <3>. QED  BY ONLY <2>1, <3>1 DEF Focused
  <2>. QED  BY <1>4, <1>7, <2>4 DEF Sound
<1>9. CASE s.active # v
  <2>1. t = u
    BY <1>1, <1>3, <1>5, <1>9 DEF Leaves
  <2>2. u.active = s.active
    BY <1>2, <1>4, <1>7, <1>9
  <2>3. KeysOk(u)
    <3>1. KeysSeen(u)
      BY <1>7 DEF Sound, Placed
    <3>2. ASSUME u.keys # Shell, u.pending # u.active
          PROVE  u.keys = u.active
      <4>1. s.keys # Shell /\ u.keys = s.keys
        BY <1>2, <1>7, <3>2
      <4>2. s.pending # s.active
        BY <1>2, <1>7, <1>9, <2>2, <3>2
      <4>. QED  BY <1>0, <2>2, <4>1, <4>2 DEF KeysOk
    <3>. QED  BY <3>1, <3>2 DEF KeysOk
  <2>. QED  BY <1>4, <1>7, <2>1, <2>3 DEF Sound
<1>. QED  BY <1>8, <1>9

\* A view comes to an empty stage.
LEMMA FocusFirst ==
    ASSUME NEW s, NEW v
    PROVE  Weak(s) /\ Empty(s) /\ v \in ToSet(s.items) => Focused(s, v, FocusView(s, v, FALSE))
<1>. SUFFICES ASSUME Weak(s), Empty(s), v \in ToSet(s.items)
              PROVE  Focused(s, v, FocusView(s, v, FALSE))
  OBVIOUS
<1>1. Cols(s)
  BY DEF Cols
<1>2. v \notin ToSet(s.shown)
  BY ListFacts DEF Empty, ToSet
<1>3. Weak(s) /\ v \in ToSet(s.items)
  OBVIOUS
<1>. QED  BY ONLY <1>1, <1>2, <1>3, FocusPlain

\* What is left when the view that filled the stage goes.
LEMMA LeavesAlone ==
    ASSUME NEW s, Settled(s), NEW v \in ToSet(s.items), s.active = v, ~ (Has(s.shown, v) /\ Len(s.shown) > 1),
           NEW t, t = Leaves(s, v)
    PROVE  /\ Placed(t) /\ KeysOk(t) /\ t.persisting = s.persisting /\ t.overlay = s.overlay
           /\ t.active = None => t.items = << >>
<1>0. Placed(s) /\ KeysSeen(s) /\ v \in ViewIds /\ v # None
  <2>1. Placed(s) /\ KeysSeen(s) /\ s.items \in Seq(ViewIds)
    BY DEF Settled, Sound, Placed, Stages
  <2>. QED  BY <2>1, ListFacts, StageAssumption
<1>1. PICK r : r = Removed(s, v)
  OBVIOUS
<1>2. /\ Weak(r) /\ ToSet(r.items) = ToSet(s.items) \ {v}
      /\ r.active = s.active /\ r.shown = s.shown /\ r.persisting = s.persisting /\ r.overlay = s.overlay
      /\ r.pending = (IF s.pending = v THEN None ELSE s.pending)
      /\ r.keys = (IF s.keys = v THEN Shell ELSE s.keys)
  BY <1>0, <1>1, RemovedIs
<1>3. PICK none : none = [r EXCEPT !.active = None, !.shown = << >>]
  OBVIOUS
<1>4. /\ none \in Stages /\ none.active = None /\ none.shown = << >>
      /\ none.items = r.items /\ none.recent = r.recent /\ none.pending = r.pending /\ none.doc = r.doc
      /\ none.told = r.told /\ none.keys = r.keys /\ none.overlay = r.overlay /\ none.persisting = r.persisting
  <2>1. r \in Stages /\ << >> \in Seq(ViewIds)
    BY <1>2 DEF Weak
  <2>. QED  BY <1>3, <2>1 DEF Stages
<1>5. Weak(none)
  <2>1. Core(none)
    <3>1. r \in Stages /\ Core(r) /\ SameDocs(r, none) /\ ToSet(none.recent) \subseteq ToSet(r.items)
      BY <1>2, <1>4 DEF Weak, Core, SameDocs
    <3>. QED  BY <1>4, <3>1, CoreStays
  <2>2. Heard(none)
    BY <1>2, <1>4 DEF Weak, Heard
  <2>. QED  BY <1>2, <1>4, <2>1, <2>2 DEF Weak
<1>6. Cols(none)
  BY <1>4 DEF Cols, Empty
<1>7. PICK heir : heir = IF r.recent # << >> THEN Last(r.recent) ELSE IF r.items # << >> THEN Last(r.items) ELSE None
  OBVIOUS
<1>8. t = FocusView(none, heir, FALSE)
  BY <1>1, <1>2, <1>3, <1>7 DEF Leaves
<1>9. /\ heir \in ToSet(r.items) \/ (heir = None /\ r.items = << >>)
  <2>1. r.recent \in Seq(ViewIds) /\ r.items \in Seq(ViewIds) /\ ToSet(r.recent) \subseteq ToSet(r.items)
    BY <1>2 DEF Weak, Stages, Core
  <2>2. r.recent # << >> => Last(r.recent) \in ToSet(r.recent)
    BY <2>1, ListFacts
  <2>3. r.items # << >> => Last(r.items) \in ToSet(r.items)
    BY <2>1, ListFacts
  <2>. QED  BY <1>7, <2>1, <2>2, <2>3
<1>10. CASE heir \in ToSet(r.items)
  <2>1. heir \in ToSet(none.items) /\ heir \notin ToSet(none.shown)
    BY <1>4, <1>10, ListFacts DEF ToSet
  <2>2. /\ Sound(t) /\ KeysOk(t) /\ t.active = heir
        /\ t.items = none.items /\ t.overlay = none.overlay /\ t.persisting = none.persisting
    <3>1. heir \in ToSet(none.items) /\ Empty(none)
      BY <1>4, <2>1 DEF Empty
    <3>2. Focused(none, heir, FocusView(none, heir, FALSE))
      BY ONLY <1>5, <3>1, FocusFirst
    <3>. QED  BY ONLY <1>8, <3>2 DEF Focused
  <2>3. heir # None
    <3>1. r.items \in Seq(ViewIds)
      BY <1>2 DEF Weak, Stages
    <3>. QED  BY <1>10, <3>1, ListFacts, StageAssumption
  <2>. QED  BY <1>2, <1>4, <2>2, <2>3 DEF Sound
<1>11. CASE heir = None /\ r.items = << >>
  <2>1. t = none
    BY <1>8, <1>11 DEF FocusView
  <2>2. none.keys = Shell
    <3>1. s.keys \in {v, Shell}
      <4>1. SUFFICES ASSUME s.keys # Shell PROVE s.keys = v
        OBVIOUS
      <4>2. Has(s.shown, s.keys)
        BY <1>0, <4>1 DEF KeysSeen
      <4>3. s.keys \in ToSet(s.items)
        BY <1>0, <4>2, ShownOpen DEF Placed, Has
      <4>4. ToSet(r.items) = {}
        BY <1>11, <1>2, ListFacts DEF Weak, Stages
      <4>. QED  BY <1>2, <4>3, <4>4
    <3>. QED  BY <1>2, <1>4, <3>1
  <2>3. ToSet(none.items) = {}
    BY <1>4, <1>11, ListFacts DEF Stages
  <2>4. Knows(none)
    BY <2>3 DEF Knows
  <2>5. KeysOk(none) /\ KeysSeen(none)
    BY <2>2 DEF KeysOk, KeysSeen
  <2>. QED  BY <1>2, <1>4, <1>5, <1>6, <1>11, <2>1, <2>4, <2>5 DEF Placed, Weak
<1>. QED  BY <1>9, <1>10, <1>11

\* What is left when a view goes that was not shown.
LEMMA LeavesUnseen ==
    ASSUME NEW s, Settled(s), NEW v \in ToSet(s.items), s.active # v, s.active # None,
           ~ (Has(s.shown, v) /\ Len(s.shown) > 1), NEW t, t = Leaves(s, v)
    PROVE  Placed(t) /\ KeysOk(t) /\ t.active # None /\ t.persisting = s.persisting /\ t.overlay = s.overlay
<1>0. Placed(s) /\ KeysOk(s) /\ KeysSeen(s) /\ Knows(s) /\ Fit(s, ToSet(s.items)) /\ s.shown \in Seq(ViewIds)
  BY DEF Settled, Sound, Placed, Cols, Empty, Fit
<1>1. /\ Weak(t) /\ ToSet(t.items) = ToSet(s.items) \ {v}
      /\ t.active = s.active /\ t.shown = s.shown /\ t.persisting = s.persisting /\ t.overlay = s.overlay
      /\ t.told = s.told
      /\ t.pending = (IF s.pending = v THEN None ELSE s.pending)
      /\ t.keys = (IF s.keys = v THEN Shell ELSE s.keys)
      /\ \A w \in ViewIds \ {v} : t.doc[w] = s.doc[w]
  <2>1. t = Removed(s, v)
    BY DEF Leaves
  <2>. QED  BY <1>0, <2>1, RemovedIs
<1>2. v \notin ToSet(s.shown)
  <2>1. SUFFICES ASSUME Has(s.shown, v) PROVE FALSE
    BY DEF Has
  <2>2. Len(s.shown) \in Nat /\ ~ (Len(s.shown) > 1)
    BY <1>0, <2>1
  <2>3. s.active \in ToSet(s.shown)
    BY <1>0 DEF Fit
  <2>4. PICK i \in 1 .. Len(s.shown), j \in 1 .. Len(s.shown) : s.shown[i] = v /\ s.shown[j] = s.active
    BY <1>0, <2>1, <2>3 DEF Has, ToSet
  <2>5. i = j
    BY <2>2, <2>4
  <2>. QED  BY <2>4, <2>5
<1>3. Cols(t)
  BY <1>0, <1>1, <1>2 DEF Cols, Fit
<1>4. Knows(t)
  <2>1. SUFFICES ASSUME NEW w \in ToSet(t.items), IsLive(t.doc[w])
                 PROVE  /\ t.doc[w].suspended = (w # t.active)
                        /\ t.doc[w].hidden = (~ Has(t.shown, w)) /\ t.told[w] = t.doc[w].hidden
    BY DEF Knows
  <2>2. w \in ViewIds
    BY <1>1, ListFacts DEF Weak, Stages
  <2>3. w \in ToSet(s.items) /\ t.doc[w] = s.doc[w]
    BY <1>1, <2>2
  <2>4. /\ s.doc[w].suspended = (w # s.active)
        /\ s.doc[w].hidden = (~ Has(s.shown, w)) /\ s.told[w] = s.doc[w].hidden
    BY <1>0, <2>1, <2>3 DEF Knows
  <2>. QED  BY <1>1, <2>3, <2>4
<1>5. KeysSeen(t)
  BY <1>0, <1>1 DEF KeysSeen
<1>6. KeysOk(t)
  <2>1. ASSUME t.keys # Shell, t.pending # t.active
        PROVE  t.keys = t.active
    <3>1. s.keys # Shell /\ t.keys = s.keys
      BY <1>1, <2>1
    <3>2. s.pending # s.active
      BY <1>1, <2>1
    <3>. QED  BY <1>0, <1>1, <3>1, <3>2 DEF KeysOk
  <2>. QED  BY <1>5, <2>1 DEF KeysOk
<1>. QED  BY <1>1, <1>3, <1>4, <1>5, <1>6 DEF Placed, Weak

\* A view is closed: the stage is as good as before.
LEMMA ClosedIs ==
    ASSUME NEW s, Settled(s), NEW v \in ToSet(s.items), s.active # None, NEW t, t = Closed(s, v)
    PROVE  /\ Settled(t) /\ t.persisting = s.persisting /\ t.overlay = s.overlay
           /\ t.active = None => t.items = << >>
<1>1. PICK r : r = Leaves(s, v)
  OBVIOUS
<1>2. /\ Placed(r) /\ KeysOk(r) /\ r.persisting = s.persisting /\ r.overlay = s.overlay
      /\ r.active = None => r.items = << >>
  <2>1. CASE Has(s.shown, v) /\ Len(s.shown) > 1
    BY <1>1, <2>1, LeavesBeside
  <2>2. CASE ~ (Has(s.shown, v) /\ Len(s.shown) > 1) /\ s.active = v
    BY <1>1, <2>2, LeavesAlone
  <2>3. CASE ~ (Has(s.shown, v) /\ Len(s.shown) > 1) /\ s.active # v
    BY <1>1, <2>3, LeavesUnseen
  <2>. QED  BY <2>1, <2>2, <2>3
<1>3. PICK p : p = Paint(r)
  OBVIOUS
<1>4. Placed(p) /\ KeysOk(p) /\ Stays(r, p) /\ p.active = r.active
  BY <1>2, <1>3, PaintStays
<1>5. t = Persist(p)
  BY <1>1, <1>3 DEF Closed
<1>6. Settled(t) /\ Stays(p, t) /\ t.active = p.active
  BY <1>4, <1>5, PersistStays
<1>. QED  BY <1>2, <1>4, <1>6 DEF Stays

-----------------------------------------------------------------------------
(* Documents that boot, load again or change their name, and what comes back. *)

\* Nothing but one document changes.
LEMMA DocIs ==
    ASSUME NEW s, Settled(s), NEW v \in ViewIds, NEW e \in Docs, s.doc[v].phase = "live",
           e.phase \in {"loading", "live"},
           e.phase = "live" => e.suspended = s.doc[v].suspended /\ e.hidden = s.doc[v].hidden,
           e.kept => s.doc[v].kept /\ e.name = s.doc[v].name /\ e.name = e.asked,
           NEW t, t = [s EXCEPT !.doc = [s.doc EXCEPT ![v] = e]]
    PROVE  /\ Settled(t) /\ t.items = s.items /\ t.overlay = s.overlay /\ t.persisting = s.persisting
           /\ t.active = s.active
<1>0. s \in Stages /\ Core(s) /\ Cols(s) /\ Knows(s) /\ KeysOk(s) /\ Follows(s)
  BY DEF Settled, Sound, Placed
<1>1. PICK d : d = [s.doc EXCEPT ![v] = e]
  OBVIOUS
<1>2. d \in [ViewIds -> Docs] /\ \A w \in ViewIds : d[w] = IF w = v THEN e ELSE s.doc[w]
  BY <1>0, <1>1 DEF Stages
<1>3. /\ t \in Stages /\ t.doc = d
      /\ t.items = s.items /\ t.recent = s.recent /\ t.active = s.active /\ t.shown = s.shown
      /\ t.equal = s.equal /\ t.told = s.told /\ t.persisting = s.persisting
      /\ t.overlay = s.overlay /\ t.stored = s.stored /\ t.keys = s.keys /\ t.pending = s.pending
  BY <1>0, <1>1, <1>2 DEF Stages
<1>4. Core(t)
  <2>1. Open3(t) = Open3(s)
    BY <1>2, <1>3 DEF Open3
  <2>2. PICK n \in 0 .. MaxViews : \A w \in ViewIds : s.doc[w].phase # "none" <=> w <= n
    BY <1>0 DEF Core
  <2>3. \A w \in ViewIds : t.doc[w].phase # "none" <=> w <= n
    BY <1>2, <1>3, <2>2
  <2>4. \A w \in ViewIds : t.doc[w].kept => t.doc[w].name = t.doc[w].asked
    BY <1>0, <1>2, <1>3 DEF Core
  <2>. QED  BY <1>0, <1>3, <2>1, <2>3, <2>4 DEF Core
<1>5. Cols(t)
  BY <1>0, <1>3 DEF Cols, Empty, Fit
<1>6. Knows(t)
  <2>1. SUFFICES ASSUME NEW w \in ToSet(t.items), IsLive(t.doc[w])
                 PROVE  /\ t.doc[w].suspended = (w # t.active)
                        /\ t.doc[w].hidden = (~ Has(t.shown, w)) /\ t.told[w] = t.doc[w].hidden
    BY DEF Knows
  <2>2. w \in ViewIds /\ w \in ToSet(s.items)
    BY <1>3, ListFacts DEF Stages
  <2>3. IsLive(s.doc[w]) /\ t.doc[w].suspended = s.doc[w].suspended /\ t.doc[w].hidden = s.doc[w].hidden
    <3>1. CASE w = v
      BY <1>2, <1>3, <2>1, <2>2, <3>1 DEF IsLive
    <3>2. CASE w # v
      BY <1>2, <1>3, <2>1, <2>2, <3>2 DEF IsLive
    <3>. QED  BY <3>1, <3>2
  <2>4. /\ s.doc[w].suspended = (w # s.active)
        /\ s.doc[w].hidden = (~ Has(s.shown, w)) /\ s.told[w] = s.doc[w].hidden
    BY <1>0, <2>2, <2>3 DEF Knows
  <2>. QED  BY <1>3, <2>3, <2>4
<1>7. KeysOk(t)
  BY <1>0, <1>3 DEF KeysOk, KeysSeen
<1>8. Follows(t)
  <2>1. \A w \in ViewIds : t.doc[w].kept => s.doc[w].kept /\ t.doc[w].name = s.doc[w].name
    BY <1>2, <1>3
  <2>2. /\ Follows(s) /\ t.items = s.items /\ t.shown = s.shown /\ t.active = s.active /\ t.equal = s.equal
        /\ t.stored = s.stored /\ t.persisting = s.persisting
    BY <1>0, <1>3
  <2>. QED  BY ONLY <2>1, <2>2, FollowsStays
<1>. QED  BY <1>3, <1>4, <1>5, <1>6, <1>7, <1>8 DEF Settled, Sound, Placed, KeysOk

\* Every document hears where it is.
LEMMA TellsAll ==
    ASSUME NEW s \in Stages, Core(s), Cols(s), Heard(s), KeysSeen(s), NEW t, t = TellHidden(Suspend(s))
    PROVE  Placed(t) /\ Tells(s, t) /\ t.keys = s.keys
<1>1. PICK b : b = Suspend(s)
  OBVIOUS
<1>2. /\ Tells(s, b) /\ b.keys = s.keys /\ b.told = s.told
      /\ \A v \in ViewIds : b.doc[v].hidden = s.doc[v].hidden
      /\ \A v \in ToSet(s.items) : IsLive(s.doc[v]) => b.doc[v].suspended = (v # s.active)
  BY <1>1, SuspendIs
<1>3. b \in Stages /\ b.items = s.items /\ b.shown = s.shown /\ SameDocs(s, b)
  BY <1>2 DEF Tells, Kept
<1>4. /\ Tells(b, t) /\ t.keys = b.keys
      /\ \A v \in ViewIds : t.doc[v].suspended = b.doc[v].suspended
      /\ \A v \in ToSet(b.items) : IsLive(b.doc[v]) /\ b.told[v] \in {None, b.doc[v].hidden} =>
             t.doc[v].hidden = ~ Has(b.shown, v) /\ t.told[v] = t.doc[v].hidden
  <2>1. None \notin BOOLEAN /\ b \in Stages /\ t = TellHidden(b)
    BY <1>1, <1>3, StageAssumption
  <2>. QED  BY ONLY <2>1, TellHiddenIs
<1>5. Tells(s, t) /\ t.keys = s.keys
  BY <1>2, <1>4 DEF Tells, Kept, SameDocs
<1>6. /\ t \in Stages /\ SameDocs(s, t)
      /\ t.items = s.items /\ t.pending = s.pending /\ t.overlay = s.overlay /\ t.recent = s.recent
      /\ t.active = s.active /\ t.shown = s.shown
  BY <1>5 DEF Tells, Kept
<1>7. Core(t)
  <2>1. ToSet(t.recent) \subseteq ToSet(s.items)
    BY <1>6 DEF Core
  <2>. QED  BY <1>6, <2>1, CoreStays
<1>8. Cols(t)
  BY <1>6 DEF Cols, Empty, Fit
<1>9. Knows(t)
  <2>1. SUFFICES ASSUME NEW v \in ToSet(t.items), IsLive(t.doc[v])
                 PROVE  /\ t.doc[v].suspended = (v # t.active)
                        /\ t.doc[v].hidden = (~ Has(t.shown, v)) /\ t.told[v] = t.doc[v].hidden
    BY DEF Knows
  <2>2. v \in ToSet(s.items) /\ v \in ViewIds
    BY <1>6, ListFacts DEF Stages
  <2>3. IsLive(s.doc[v]) /\ IsLive(b.doc[v])
    BY <1>3, <1>6, <2>1, <2>2 DEF SameDocs, IsLive
  <2>4. s.told[v] \in {None, s.doc[v].hidden}
    BY <2>2, <2>3 DEF Heard
  <2>5. b.told[v] \in {None, b.doc[v].hidden} /\ v \in ToSet(b.items)
    BY <1>2, <1>3, <2>2, <2>4
  <2>6. t.doc[v].hidden = (~ Has(b.shown, v)) /\ t.told[v] = t.doc[v].hidden
    BY <1>4, <2>3, <2>5
  <2>7. t.doc[v].suspended = (v # s.active)
    BY <1>2, <1>4, <2>2, <2>3
  <2>. QED  BY <1>3, <1>6, <2>6, <2>7
<1>10. KeysSeen(t)
  BY <1>5, <1>6 DEF KeysSeen
<1>. QED  BY <1>5, <1>6, <1>7, <1>8, <1>9, <1>10 DEF Placed

\* A sound stage focuses one of its views.
LEMMA FocusSound ==
    ASSUME NEW s, NEW v
    PROVE  Sound(s) /\ v \in ToSet(s.items) => Focused(s, v, FocusView(s, v, FALSE))
<1>. SUFFICES ASSUME Sound(s), v \in ToSet(s.items)
              PROVE  Focused(s, v, FocusView(s, v, FALSE))
  OBVIOUS
<1>1. Weak(s) /\ Cols(s)
  BY SoundWeak DEF Sound, Placed
<1>2. Sound(s) /\ v \in ToSet(s.items)
  OBVIOUS
<1>. QED  BY ONLY <1>1, <1>2, FocusPlain

\* The document has a name of its own.
Booted(s, v, name) ==
    [s EXCEPT !.doc[v].name = name, !.doc[v].kept = s.doc[v].kept /\ name = s.doc[v].asked]

\* A document has booted: it hears its place, and takes the keyboard that waits for it.
LEMMA BootsIs ==
    ASSUME NEW s, Settled(s), NEW v \in ViewIds, s.doc[v].phase = "loading", NEW name \in Goes,
           NEW t, t = Ready(Booted(s, v, name), v)
    PROVE  /\ Settled(t) /\ t.items = s.items /\ t.overlay = s.overlay /\ t.persisting = s.persisting
           /\ s.active # None => t.active # None
<1>0. s \in Stages /\ Core(s) /\ Cols(s) /\ Knows(s) /\ KeysOk(s) /\ KeysSeen(s) /\ Follows(s) /\ v \in ToSet(s.items)
  BY DEF Settled, Sound, Placed, Core, Open3
<1>a. PICK kept \in BOOLEAN : kept = (s.doc[v].kept /\ name = s.doc[v].asked)
  OBVIOUS
<1>1. PICK e : e = [s.doc[v] EXCEPT !.name = name, !.kept = kept, !.phase = "live"]
  OBVIOUS
<1>2. /\ e \in Docs /\ e.phase = "live" /\ e.name = name /\ e.kept = kept /\ e.asked = s.doc[v].asked
      /\ s.doc \in [ViewIds -> Docs] /\ s.told \in [ViewIds -> BOOLEAN \cup {None}]
  <2>1. s.doc \in [ViewIds -> Docs] /\ s.told \in [ViewIds -> BOOLEAN \cup {None}]
    BY <1>0 DEF Stages
  <2>2. s.doc[v] \in Docs
    BY <2>1
  <2>3. e \in Docs /\ e.phase = "live" /\ e.name = name /\ e.kept = kept /\ e.asked = s.doc[v].asked
    BY <1>1, <2>2 DEF Docs
  <2>. QED  BY <2>1, <2>3
<1>3. PICK d \in [ViewIds -> Docs] : d = [s.doc EXCEPT ![v] = e] /\ \A w \in ViewIds : d[w] = IF w = v THEN e ELSE s.doc[w]
  <2>1. [s.doc EXCEPT ![v] = e] \in [ViewIds -> Docs]
    BY <1>2
  <2>2. \A w \in ViewIds : [s.doc EXCEPT ![v] = e][w] = IF w = v THEN e ELSE s.doc[w]
    BY <1>2
  <2>. QED  BY ONLY <2>1, <2>2
<1>4. PICK told \in [ViewIds -> BOOLEAN \cup {None}] :
          told = [s.told EXCEPT ![v] = None] /\ \A w \in ViewIds : told[w] = IF w = v THEN None ELSE s.told[w]
  <2>1. [s.told EXCEPT ![v] = None] \in [ViewIds -> BOOLEAN \cup {None}]
    BY <1>2
  <2>2. \A w \in ViewIds : [s.told EXCEPT ![v] = None][w] = IF w = v THEN None ELSE s.told[w]
    BY <1>2
  <2>. QED  BY ONLY <2>1, <2>2
<1>5. PICK r : r = [s EXCEPT !.doc = d, !.told = told]
  OBVIOUS
<1>6. /\ r \in Stages /\ r.doc = d /\ r.told = told
      /\ r.items = s.items /\ r.recent = s.recent /\ r.active = s.active /\ r.shown = s.shown
      /\ r.equal = s.equal /\ r.persisting = s.persisting
      /\ r.overlay = s.overlay /\ r.stored = s.stored /\ r.keys = s.keys /\ r.pending = s.pending
  BY <1>0, <1>5 DEF Stages
<1>7. PICK a : a = Booted(s, v, name) /\ a = [s EXCEPT !.doc[v].name = name, !.doc[v].kept = kept]
  BY <1>a DEF Booted
<1>8. a.pending = s.pending /\ [a EXCEPT !.doc[v].phase = "live", !.told[v] = None] = r
  <2>1. PICK e1 : e1 = [s.doc[v] EXCEPT !.name = name, !.kept = kept]
    OBVIOUS
  <2>2. a = [s EXCEPT !.doc = [s.doc EXCEPT ![v] = e1]]
    <3>1. PICK e0 : e0 = [s.doc[v] EXCEPT !.name = name]
      OBVIOUS
    <3>2. a = [s EXCEPT !.doc = [[s.doc EXCEPT ![v] = e0] EXCEPT ![v].kept = kept]]
      BY <1>0, <1>2, <1>7, <3>1 DEF Stages
    <3>3. [s.doc EXCEPT ![v] = e0][v] = e0 /\ [e0 EXCEPT !.kept = kept] = e1
      BY <1>2, <2>1, <3>1 DEF Docs
    <3>4. [[s.doc EXCEPT ![v] = e0] EXCEPT ![v].kept = kept] = [s.doc EXCEPT ![v] = e1]
      BY <1>2, <3>3
    <3>. QED  BY <3>2, <3>4
  <2>3. [e1 EXCEPT !.phase = "live"] = e
    <3>1. s.doc[v] \in Docs
      BY <1>2
    <3>. QED  BY <1>1, <2>1, <3>1 DEF Docs
  <2>4. [[s.doc EXCEPT ![v] = e1] EXCEPT ![v].phase = "live"] = d
    BY <1>2, <1>3, <2>3
  <2>5. a.doc = [s.doc EXCEPT ![v] = e1] /\ a.told = s.told /\ a.pending = s.pending
    BY <1>0, <2>2 DEF Stages
  <2>6. [a EXCEPT !.doc[v].phase = "live", !.told[v] = None] = [a EXCEPT !.doc = d, !.told = told]
    BY <1>4, <2>4, <2>5
  <2>7. [a EXCEPT !.doc = d, !.told = told] = r
    BY <1>0, <1>5, <2>2 DEF Stages
  <2>. QED  BY <2>5, <2>6, <2>7
<1>9. Core(r)
  <2>1. Open3(r) = Open3(s)
    BY <1>2, <1>3, <1>6 DEF Open3
  <2>2. PICK n \in 0 .. MaxViews : \A w \in ViewIds : s.doc[w].phase # "none" <=> w <= n
    BY <1>0 DEF Core
  <2>3. \A w \in ViewIds : r.doc[w].phase # "none" <=> w <= n
    BY <1>2, <1>3, <1>6, <2>2
  <2>4. e.kept => e.name = e.asked
    BY <1>2, <1>a
  <2>5. \A w \in ViewIds : r.doc[w].kept => r.doc[w].name = r.doc[w].asked
    BY <1>0, <1>3, <1>6, <2>4 DEF Core
  <2>. QED  BY <1>0, <1>6, <2>1, <2>3, <2>5 DEF Core
<1>10. Cols(r)
  BY <1>0, <1>6 DEF Cols, Empty, Fit
<1>11. Heard(r)
  <2>1. SUFFICES ASSUME NEW w \in ToSet(r.items), IsLive(r.doc[w])
                 PROVE  r.told[w] \in {None, r.doc[w].hidden}
    BY DEF Heard
  <2>2. w \in ViewIds /\ w \in ToSet(s.items)
    BY <1>6, ListFacts DEF Stages
  <2>3. CASE w = v
    BY <1>4, <1>6, <2>2, <2>3
  <2>4. CASE w # v
    <3>1. r.doc[w] = s.doc[w] /\ r.told[w] = s.told[w]
      BY <1>3, <1>4, <1>6, <2>2, <2>4
    <3>. QED  BY <1>0, <2>1, <2>2, <3>1 DEF Knows
  <2>. QED  BY <2>3, <2>4
<1>12. PICK p : p = TellHidden(Suspend(r))
  OBVIOUS
<1>13. Placed(p) /\ Tells(r, p) /\ p.keys = r.keys
  <2>1. KeysSeen(r)
    BY <1>0, <1>6 DEF KeysSeen
  <2>. QED  BY <1>6, <1>9, <1>10, <1>11, <1>12, <2>1, TellsAll
<1>14. /\ p.items = s.items /\ p.recent = s.recent /\ p.active = s.active /\ p.shown = s.shown
       /\ p.equal = s.equal /\ p.persisting = s.persisting
       /\ p.overlay = s.overlay /\ p.stored = s.stored /\ p.keys = s.keys /\ p.pending = s.pending
       /\ SameDocs(r, p)
  BY <1>6, <1>13 DEF Tells, Kept
<1>15. Follows(p)
  <2>1. \A w \in ViewIds : p.doc[w].kept = d[w].kept /\ p.doc[w].name = d[w].name
    BY <1>6, <1>14 DEF SameDocs
  <2>2. \A w \in ViewIds : d[w].kept => s.doc[w].kept /\ d[w].name = s.doc[w].name
    BY <1>0, <1>2, <1>3, <1>a DEF Core
  <2>3. \A w \in ViewIds : p.doc[w].kept => s.doc[w].kept /\ p.doc[w].name = s.doc[w].name
    BY <2>1, <2>2
  <2>. QED  BY <1>0, <1>14, <2>3, FollowsStays
<1>16. KeysOk(p) /\ Sound(p)
  BY <1>0, <1>13, <1>14, <1>15 DEF KeysOk, KeysSeen, Sound
<1>17. t = IF s.pending = v THEN FocusView([p EXCEPT !.pending = None], v, FALSE) ELSE p
  <2>1. t = Ready(a, v)
    BY <1>7
  <2>2. Ready(a, v) = LET u == TellHidden(Suspend([a EXCEPT !.doc[v].phase = "live", !.told[v] = None]))
                      IN  IF a.pending = v THEN FocusView([u EXCEPT !.pending = None], v, FALSE) ELSE u
    BY DEF Ready
  <2>. QED  BY <1>8, <1>12, <2>1, <2>2
<1>18. CASE s.pending # v
  BY <1>14, <1>16, <1>17, <1>18 DEF Settled
<1>19. CASE s.pending = v
  <2>1. PICK q : q = [p EXCEPT !.pending = None]
    OBVIOUS
  <2>2. p \in Stages /\ Core(p)
    BY <1>13 DEF Placed
  <2>3. Sound(q) /\ q.items = p.items /\ q.overlay = p.overlay /\ q.persisting = p.persisting
    BY <1>16, <2>1, <2>2, PendingIs
  <2>4. Weak(q) /\ Cols(q) /\ v \in ToSet(q.items)
    BY <1>0, <1>14, <2>3, SoundWeak DEF Sound, Placed
  <2>5. t = FocusView(q, v, FALSE)
    BY <1>17, <1>19, <2>1
  <2>6. /\ Sound(t) /\ KeysOk(t) /\ t.active = v
        /\ t.items = q.items /\ t.overlay = q.overlay /\ t.persisting = q.persisting
    <3>1. Focused(q, v, FocusView(q, v, FALSE))
      BY ONLY <2>3, <2>4, FocusSound
    <3>. QED  BY ONLY <2>5, <3>1 DEF Focused
  <2>. QED  BY <1>14, <2>3, <2>6, StageAssumption DEF Settled
<1>. QED  BY <1>18, <1>19

-----------------------------------------------------------------------------
(* What comes back. *)

\* A plan names no column twice, and not too many.
Planned(plan) == plan \in Records /\ IsInjective(plan.split) /\ Len(plan.split) <= MaxColumns

\* The split that is kept.
LEMMA KeepSplitIs ==
    ASSUME NEW r, Planned(r), NEW open
    PROVE  /\ KeepSplit(r, open).split \in Seq(Goes) /\ IsInjective(KeepSplit(r, open).split)
           /\ Len(KeepSplit(r, open).split) <= MaxColumns /\ KeepSplit(r, open).equal \in BOOLEAN
<1>1. r.split \in Seq(Goes) /\ r.equal \in BOOLEAN /\ IsInjective(r.split) /\ Len(r.split) \in Nat
      /\ Len(r.split) <= MaxColumns /\ MaxColumns \in Nat
  <2>1. r.split \in Seq(Goes) /\ r.equal \in BOOLEAN /\ IsInjective(r.split) /\ Len(r.split) <= MaxColumns
    BY DEF Planned, Records
  <2>. QED  BY <2>1, ColumnsAssumption
<1>2. PICK kept \in Seq(Goes) :
          kept = Known(r.split, ToSet(open)) /\ IsInjective(kept) /\ Len(kept) <= Len(r.split) /\ Len(kept) \in Nat
  BY <1>1, KnownIs
<1>3. PICK k : k = KeepSplit(r, open)
  OBVIOUS
<1>4. CASE Len(kept) < 2
  <2>1. k = [split |-> << >>, equal |-> TRUE]
    BY <1>2, <1>3, <1>4 DEF KeepSplit
  <2>2. k.split = << >> /\ k.equal
    BY <2>1
  <2>3. << >> \in Seq(Goes) /\ IsInjective(<< >>) /\ Len(<< >>) <= MaxColumns
    BY <1>1 DEF IsInjective
  <2>. QED  BY <1>3, <2>2, <2>3
<1>5. CASE ~ (Len(kept) < 2)
  <2>1. k = [split |-> kept, equal |-> r.equal]
    BY <1>2, <1>3, <1>5 DEF KeepSplit
  <2>2. k.split = kept /\ k.equal = r.equal
    BY <2>1
  <2>3. Len(kept) <= MaxColumns
    BY <1>1, <1>2
  <2>. QED  BY <1>1, <1>2, <1>3, <2>2, <2>3
<1>. QED  BY <1>4, <1>5

\* The split that is read.
LEMMA ParseSplitIs ==
    ASSUME NEW r \in Records, NEW open
    PROVE  /\ ParseSplit(r, open).split \in Seq(Goes) /\ IsInjective(ParseSplit(r, open).split)
           /\ Len(ParseSplit(r, open).split) <= MaxColumns /\ ParseSplit(r, open).equal \in BOOLEAN
<1>1. r.split \in Seq(Goes) /\ r.equal \in BOOLEAN /\ MaxColumns \in Nat
  BY ColumnsAssumption DEF Records
<1>2. PICK once \in Seq(Goes) : once = Once(r.split) /\ IsInjective(once)
  BY <1>1, OnceIs
<1>3. PICK known \in Seq(Goes) : known = Known(once, ToSet(open)) /\ IsInjective(known) /\ Len(known) \in Nat
  BY <1>2, KnownIs
<1>4. PICK m \in Nat : m = (IF Len(known) > MaxColumns THEN MaxColumns ELSE Len(known)) /\ m <= Len(known) /\ m <= MaxColumns
  BY <1>1, <1>3
<1>5. PICK names \in Seq(Goes) : names = SubSeq(known, 1, m) /\ IsInjective(names) /\ Len(names) = m
  <2>1. /\ SubSeq(known, 1, m) \in Seq(Goes) /\ Len(SubSeq(known, 1, m)) = m
        /\ \A i \in 1 .. m : SubSeq(known, 1, m)[i] = known[i]
    BY <1>4
  <2>2. DOMAIN SubSeq(known, 1, m) = 1 .. m /\ 1 .. m \subseteq DOMAIN known
    BY <1>3, <1>4, <2>1
  <2>3. IsInjective(SubSeq(known, 1, m))
    BY <1>3, <2>1, <2>2 DEF IsInjective
  <2>. QED  BY <2>1, <2>3
<1>6. PICK k : k = ParseSplit(r, open)
  OBVIOUS
<1>7. CASE Len(names) < 2
  <2>1. k = [split |-> << >>, equal |-> TRUE]
    BY <1>2, <1>3, <1>4, <1>5, <1>6, <1>7 DEF ParseSplit
  <2>2. k.split = << >> /\ k.equal
    BY <2>1
  <2>3. << >> \in Seq(Goes) /\ IsInjective(<< >>) /\ Len(<< >>) <= MaxColumns
    BY <1>1 DEF IsInjective
  <2>. QED  BY <1>6, <2>2, <2>3
<1>8. CASE ~ (Len(names) < 2)
  <2>1. PICK equal \in BOOLEAN : equal = (r.equal \/ names # r.split)
    OBVIOUS
  <2>2. k = [split |-> names, equal |-> equal]
    BY <1>2, <1>3, <1>4, <1>5, <1>6, <1>8, <2>1 DEF ParseSplit
  <2>3. k.split = names /\ k.equal = equal
    BY <2>2
  <2>. QED  BY <1>4, <1>5, <1>6, <2>3
<1>. QED  BY <1>7, <1>8

\* A record that was read is one that can come back.
LEMMA PlanIs ==
    ASSUME NEW r \in Records, ParseOpenViews(r) # None, NEW missing
    PROVE  Planned(RestorePlan(ParseOpenViews(r), missing))
<1>1. PICK p : p = ParseOpenViews(r)
  OBVIOUS
<1>2. r.open \in Seq(Goes) /\ r.shown \in Goes /\ None \in Goes
  BY DEF Records, Goes
<1>3. PICK open \in Seq(Goes) : open = Once(r.open)
  BY <1>2, OnceIs
<1>4. PICK split : split = ParseSplit(r, open)
  OBVIOUS
<1>5. split.split \in Seq(Goes) /\ IsInjective(split.split) /\ Len(split.split) <= MaxColumns /\ split.equal \in BOOLEAN
  BY <1>4, ParseSplitIs
<1>6. p = Record(open, IF Has(open, r.shown) THEN r.shown ELSE None, split.split, split.equal)
  BY <1>1, <1>3, <1>4 DEF ParseOpenViews
<1>7. Planned(p)
  <2>1. PICK was \in Goes : was = IF Has(open, r.shown) THEN r.shown ELSE None
    BY <1>2
  <2>2. p = [open |-> open, shown |-> was, split |-> split.split, equal |-> split.equal]
    BY <1>6, <2>1 DEF Record
  <2>3. p \in Records /\ p.split = split.split
    BY <1>5, <2>2 DEF Records
  <2>. QED  BY <1>5, <2>3 DEF Planned
<1>8. PICK these \in Seq(Goes) : these = Known(p.open, ToSet(p.open) \ missing)
  <2>1. p.open \in Seq(Goes)
    BY <1>7 DEF Planned, Records
  <2>2. Known(p.open, ToSet(p.open) \ missing) \in Seq(Goes)
    BY ONLY <2>1, KnownIs
  <2>. QED  BY <2>2
<1>9. PICK kept : kept = KeepSplit(p, these)
  OBVIOUS
<1>10. kept.split \in Seq(Goes) /\ IsInjective(kept.split) /\ Len(kept.split) <= MaxColumns /\ kept.equal \in BOOLEAN
  BY <1>7, <1>9, KeepSplitIs
<1>11. PICK q : q = RestorePlan(p, missing)
  OBVIOUS
<1>12. PICK was \in Goes : was = IF Has(these, p.shown) THEN p.shown ELSE None
  BY <1>2, <1>7 DEF Planned, Records
<1>13. q = [open |-> these, shown |-> was, split |-> kept.split, equal |-> kept.equal]
  BY <1>8, <1>9, <1>11, <1>12 DEF RestorePlan, Record
<1>14. q \in Records /\ q.split = kept.split
  BY <1>10, <1>13 DEF Records
<1>. QED  BY <1>1, <1>10, <1>11, <1>14 DEF Planned

\* The first to be shown is open, unless nothing is.
LEMMA ShownFirstIs ==
    ASSUME NEW s \in Stages, NEW plan, NEW columns \in Seq(ToSet(s.items)), NEW first, first = ShownFirst(s, plan, columns)
    PROVE  /\ first \in ToSet(s.items) \/ (first = None /\ s.items = << >>)
           /\ Len(columns) > 1 => first \in ToSet(columns)
<1>0. s.items \in Seq(ViewIds) /\ Len(columns) \in Nat
  BY DEF Stages
<1>1. PICK was \in ToSet(s.items) \cup {None} : was = IF plan.shown = None THEN None ELSE ViewFor(s, plan.shown)
  BY ViewForIs
<1>2. columns # << >> => columns[1] \in ToSet(s.items) /\ columns[1] \in ToSet(columns)
  <2>1. columns # << >> => 1 \in 1 .. Len(columns)
    BY <1>0
  <2>. QED  BY <2>1, ListFacts
<1>3. s.items # << >> => s.items[1] \in ToSet(s.items)
  <2>1. s.items # << >> => 1 \in 1 .. Len(s.items)
    BY <1>0
  <2>. QED  BY <1>0, <2>1, ListFacts
<1>4. PICK f : f = IF was # None THEN was ELSE IF columns # << >> THEN columns[1]
                   ELSE IF s.items # << >> THEN s.items[1] ELSE None
  OBVIOUS
<1>5. f \in ToSet(s.items) \/ (f = None /\ s.items = << >>)
  BY <1>1, <1>2, <1>3, <1>4
<1>6. first = IF Len(columns) > 1 /\ ~ Has(columns, f) THEN columns[1] ELSE f
  BY <1>1, <1>4 DEF ShownFirst
<1>7. Len(columns) > 1 => columns # << >>
  BY <1>0
<1>. QED  BY <1>2, <1>5, <1>6, <1>7 DEF Has

\* The columns that come back are open views, none twice.
LEMMA ColumnsComeBack ==
    ASSUME NEW s \in Stages, NEW split \in Seq(Goes), IsInjective(split), Len(split) <= MaxColumns,
           NEW names, names = Known(split, {n \in ToSet(split) : ViewFor(s, n) # None}),
           NEW columns, columns = [i \in DOMAIN names |-> ViewFor(s, names[i])]
    PROVE  columns \in Seq(ToSet(s.items)) /\ IsInjective(columns) /\ Len(columns) <= MaxColumns
<1>1. PICK those : those = {n \in ToSet(split) : ViewFor(s, n) # None}
  OBVIOUS
<1>2. /\ names \in Seq(Goes) /\ ToSet(names) = ToSet(split) \cap those /\ IsInjective(names)
      /\ Len(names) <= Len(split) /\ Len(names) \in Nat /\ Len(split) \in Nat
  <2>1. names = Known(split, those)
    BY <1>1
  <2>2. /\ names \in Seq(Goes) /\ ToSet(names) = ToSet(split) \cap those /\ IsInjective(names)
        /\ Len(names) <= Len(split) /\ Len(names) \in Nat
    <3>1. split \in Seq(Goes) /\ IsInjective(split)
      OBVIOUS
    <3>2. /\ Known(split, those) \in Seq(Goes) /\ ToSet(Known(split, those)) = ToSet(split) \cap those
          /\ IsInjective(Known(split, those))
          /\ Len(Known(split, those)) <= Len(split) /\ Len(Known(split, those)) \in Nat
      BY ONLY <3>1, KnownIs
    <3>. QED  BY ONLY <2>1, <3>2
  <2>. QED  BY <2>2
<1>3. ASSUME NEW i \in 1 .. Len(names)
      PROVE  ViewFor(s, names[i]) \in ToSet(s.items) /\ WorkspaceOf(s, ViewFor(s, names[i])) = names[i]
  <2>1. names[i] \in ToSet(names)
    BY <1>2, ListFacts
  <2>2. ViewFor(s, names[i]) # None
    BY <1>1, <1>2, <2>1
  <2>. QED  BY <2>2, ViewForIs
<1>4. DOMAIN names = 1 .. Len(names) /\ columns \in [1 .. Len(names) -> ToSet(s.items)]
  <2>1. DOMAIN names = 1 .. Len(names)
    BY <1>2
  <2>. QED  BY <1>3, <2>1
<1>5. columns \in Seq(ToSet(s.items)) /\ Len(columns) = Len(names)
  BY <1>2, <1>4
<1>6. IsInjective(columns)
  <2>1. ASSUME NEW i \in 1 .. Len(names), NEW j \in 1 .. Len(names), columns[i] = columns[j] PROVE i = j
    <3>1. columns[i] = ViewFor(s, names[i]) /\ columns[j] = ViewFor(s, names[j])
      BY <1>4
    <3>2. names[i] = names[j]
      BY <1>3, <2>1, <3>1
    <3>. QED  BY <1>2, <1>4, <3>2 DEF IsInjective
  <2>2. DOMAIN columns = 1 .. Len(names)
    BY <1>4
  <2>. QED  BY ONLY <2>1, <2>2 DEF IsInjective
<1>. QED  BY <1>2, <1>5, <1>6, ColumnsAssumption

\* The views by the workspaces they were claimed for are the same views.
LEMMA ByNameIs ==
    ASSUME NEW s \in Stages
    PROVE  ByName(s) \in Stages /\ ByName(s).items = s.items
<1>1. PICK d : d = [v \in ViewIds |-> [s.doc[v] EXCEPT !.name = s.doc[v].asked]]
  OBVIOUS
<1>2. d \in [ViewIds -> Docs]
  <2>1. ASSUME NEW v \in ViewIds
        PROVE  [s.doc[v] EXCEPT !.name = s.doc[v].asked] \in Docs
    <3>1. s.doc[v] \in Docs
      BY DEF Stages
    <3>. QED  BY <3>1 DEF Docs
  <2>. QED  BY <1>1, <2>1
<1>3. ByName(s) = [s EXCEPT !.doc = d]
  BY <1>1 DEF ByName
<1>. QED  BY <1>2, <1>3 DEF Stages

\* The window as it was stored, as far as its views are there.
LEMMA RestoredIs ==
    ASSUME NEW s, Settled(s), NEW plan, Planned(plan), NEW t, t = Restored(s, plan)
    PROVE  /\ Settled(t) /\ t.items = s.items /\ t.overlay = s.overlay
           /\ (t.active = None) = (t.items = << >>)
<1>0. s \in Stages /\ Core(s) /\ Cols(s) /\ Sound(s) /\ s.items \in Seq(ViewIds) /\ plan.split \in Seq(Goes) /\ plan.equal \in BOOLEAN
  BY DEF Settled, Sound, Placed, Stages, Planned, Records
<1>10. PICK b : b = ByName(s) /\ b \in Stages /\ b.items = s.items
  BY <1>0, ByNameIs
<1>1. PICK names : names = Known(plan.split, {n \in ToSet(plan.split) : ViewFor(b, n) # None})
  OBVIOUS
<1>2. PICK columns : columns = [i \in DOMAIN names |-> ViewFor(b, names[i])]
  OBVIOUS
<1>3. columns \in Seq(ToSet(b.items)) /\ IsInjective(columns) /\ Len(columns) <= MaxColumns
  BY <1>0, <1>1, <1>2, <1>10, ColumnsComeBack DEF Planned
<1>4. PICK first : first = ShownFirst(b, plan, columns)
  OBVIOUS
<1>5. /\ first \in ToSet(s.items) \/ (first = None /\ s.items = << >>)
      /\ Len(columns) > 1 => first \in ToSet(columns)
  BY <1>3, <1>4, <1>10, ShownFirstIs
<1>6. t = IF first = None THEN s
          ELSE IF Len(columns) > 1
          THEN SetColumns([s EXCEPT !.pending = first], Columns(columns, first), Len(columns) < Len(plan.split) \/ plan.equal)
          ELSE Activate([s EXCEPT !.pending = first], first, FALSE)
  BY <1>1, <1>2, <1>4, <1>10 DEF Restored
<1>7. ToSet(s.items) \subseteq ViewIds /\ None \notin ViewIds /\ (s.items = << >> <=> ToSet(s.items) = {})
  BY <1>0, ListFacts, StageAssumption
<1>8. CASE first = None
  <2>1. t = s /\ s.items = << >>
    BY <1>5, <1>6, <1>7, <1>8
  <2>2. s.active = None
    <3>1. CASE Empty(s)
      BY <3>1 DEF Empty
    <3>2. CASE Fit(s, ToSet(s.items))
      BY <1>7, <2>1, <3>2 DEF Fit
    <3>. QED  BY <1>0, <3>1, <3>2 DEF Cols
  <2>. QED  BY <2>1, <2>2
<1>9. CASE first # None
  <2>1. first \in ToSet(s.items) /\ s.items # << >>
    BY <1>5, <1>7, <1>9
  <2>2. PICK p : p = [s EXCEPT !.pending = first]
    OBVIOUS
  <2>3. Weak(p) /\ Sound(p) /\ Cols(p) /\ p.pending = first /\ p.items = s.items /\ p.overlay = s.overlay
    <3>1. Weak(s) /\ first \in ToSet(s.items) \cup {None}
      BY <1>0, <2>1, SoundWeak DEF Sound
    <3>2. s \in Stages /\ Core(s) /\ Sound(s) /\ Cols(s)
      BY <1>0
    <3>3. /\ p.pending = first /\ p.items = s.items /\ p.overlay = s.overlay
          /\ Weak(s) => Weak(p)
          /\ Cols(s) => Cols(p)
          /\ Sound(s) => Sound(p)
      BY ONLY <2>2, <3>1, <3>2, PendingIs
    <3>. QED  BY <3>1, <3>2, <3>3
  <2>4. \E c : Fit(c, ToSet(p.items)) /\ c.active = first /\ Moved(p, c, t)
    <3>1. CASE Len(columns) > 1
      <4>1. PICK c : c = Columns(columns, first)
        OBVIOUS
      <4>2. c.shown = columns /\ c.active = first
        BY <4>1 DEF Columns
      <4>3. columns \in Seq(ViewIds) /\ ToSet(columns) \subseteq ToSet(s.items)
        <5>1. ToSet(columns) \subseteq ToSet(s.items)
          BY <1>3, <1>10, ListFacts
        <5>2. columns \in Seq(ViewIds)
          BY <1>3, <1>7, <1>10
        <5>. QED  BY <5>1, <5>2
      <4>4. Fit(c, ToSet(p.items))
        BY <1>3, <1>5, <2>3, <3>1, <4>2, <4>3 DEF Fit
      <4>5. PICK equal \in BOOLEAN : equal = (Len(columns) < Len(plan.split) \/ plan.equal)
        OBVIOUS
      <4>6. t = SetColumns(p, c, equal)
        BY <1>6, <1>9, <2>2, <3>1, <4>1, <4>5
      <4>. QED  BY <2>3, <4>2, <4>4, <4>6, SetColumnsIs
    <3>2. CASE ~ (Len(columns) > 1)
      <4>1. t = Activate(p, first, FALSE)
        BY <1>6, <1>9, <2>2, <3>2
      <4>. QED  BY <2>1, <2>3, <4>1, ActivateIs
    <3>. QED  BY <3>1, <3>2
  <2>5. PICK c : Fit(c, ToSet(p.items)) /\ c.active = first /\ Moved(p, c, t)
    BY <2>4
  <2>6. Sound(t) /\ t.active = first /\ t.items = s.items /\ t.pending = first /\ t.overlay = s.overlay
    BY <2>3, <2>5 DEF Moved, Kept
  <2>7. KeysOk(t)
    BY <2>6 DEF Sound, Placed, KeysOk
  <2>. QED  BY <1>9, <2>1, <2>6, <2>7 DEF Settled
<1>. QED  BY <1>8, <1>9

-----------------------------------------------------------------------------
(* The window: the stage, the operations asked for, and how far the boot is. *)

Ops ==
    [kind : {"open", "close", "restore"}, name : Goes, view : ViewIds \cup {None}, beside : BOOLEAN,
     running : BOOLEAN, plan : Records, names : Seq(Goes), failed : BOOLEAN]
RunsIn(q, kind) == q # << >> /\ Head(q).kind = kind /\ Head(q).running
\* One operation runs, the first; there is one restore, while the window restores.
QueueFor(q, b) ==
    /\ q \in Seq(Ops)
    /\ \A i \in 1 .. Len(q) : q[i].running => i = 1
    /\ \A i \in 1 .. Len(q) : q[i].kind = "restore" =>
          /\ b = "restoring" /\ Planned(q[i].plan)
          /\ \A j \in 1 .. Len(q) : q[j].kind = "restore" => j = i
BootFor(s, b) ==
    b \in {"release", "restore", "restoring", "open", "up"} /\ (s.persisting => b \in {"open", "up"})
\* A view has the keyboard when there is one, but for views that are coming back.
MannedFor(s, q) == ~ RunsIn(q, "restore") => (s.active = None) = (s.items = << >>)
CloseFor(s, q) == RunsIn(q, "close") => Head(q).view \in ToSet(s.items)
Holds(s, q, b, l) ==
    Settled(s) /\ QueueFor(q, b) /\ BootFor(s, b) /\ MannedFor(s, q) /\ CloseFor(s, q) /\ l \subseteq Names
IInv == Holds(Now, queue, boot, left)

\* What becomes of the stage is the stage.
LEMMA BecomesIs ==
    ASSUME NEW t \in Stages, Becomes(t)
    PROVE  Now' = t
<1>1. t = [items |-> t.items, recent |-> t.recent, active |-> t.active, shown |-> t.shown,
           equal |-> t.equal, pending |-> t.pending, told |-> t.told,
           persisting |-> t.persisting, stored |-> t.stored,
           doc |-> t.doc, overlay |-> t.overlay, keys |-> t.keys]
  BY DEF Stages
<1>2. /\ stage'.items = t.items /\ stage'.recent = t.recent /\ stage'.active = t.active /\ stage'.shown = t.shown
      /\ stage'.equal = t.equal /\ stage'.pending = t.pending /\ stage'.told = t.told
      /\ stage'.persisting = t.persisting /\ stage'.stored = t.stored
      /\ doc' = t.doc /\ overlay' = t.overlay /\ keys' = t.keys
  BY DEF Becomes
<1>. QED  BY <1>1, <1>2 DEF Now

\* The running operation is over.
LEMMA TailIs ==
    ASSUME NEW q, NEW b, QueueFor(q, b), q # << >>
    PROVE  /\ QueueFor(Tail(q), b)
           /\ \A kind : ~ RunsIn(Tail(q), kind)
           /\ Head(q).kind = "restore" => \A c : QueueFor(Tail(q), c)
           /\ Head(q) \in Ops /\ (Head(q).kind = "restore" => b = "restoring" /\ Planned(Head(q).plan))
<1>1. /\ q \in Seq(Ops) /\ Len(q) \in Nat /\ 1 \in 1 .. Len(q) /\ Head(q) = q[1] /\ q[1] \in Ops
      /\ Tail(q) \in Seq(Ops) /\ Len(Tail(q)) = Len(q) - 1
      /\ \A i \in 1 .. Len(q) - 1 : Tail(q)[i] = q[i + 1] /\ i + 1 \in 1 .. Len(q) /\ i + 1 # 1
  BY DEF QueueFor
<1>2. \A i \in 1 .. Len(Tail(q)) : ~ Tail(q)[i].running
  BY <1>1 DEF QueueFor
<1>3. ASSUME NEW i \in 1 .. Len(Tail(q)), Tail(q)[i].kind = "restore"
      PROVE  /\ b = "restoring" /\ Planned(Tail(q)[i].plan) /\ q[1].kind # "restore"
             /\ \A j \in 1 .. Len(Tail(q)) : Tail(q)[j].kind = "restore" => j = i
  <2>1. q[i + 1].kind = "restore" /\ i + 1 \in 1 .. Len(q)
    BY <1>1, <1>3
  <2>2. /\ b = "restoring" /\ Planned(q[i + 1].plan)
        /\ \A j \in 1 .. Len(q) : q[j].kind = "restore" => j = i + 1
    BY <2>1 DEF QueueFor
  <2>3. \A j \in 1 .. Len(Tail(q)) : Tail(q)[j].kind = "restore" => j + 1 = i + 1
    BY <1>1, <2>2
  <2>. QED  BY <1>1, <2>2, <2>3
<1>4. QueueFor(Tail(q), b)
  BY <1>1, <1>2, <1>3 DEF QueueFor
<1>5. \A kind : ~ RunsIn(Tail(q), kind)
  <2>1. PICK r \in Seq(Ops) : r = Tail(q) /\ \A i \in 1 .. Len(r) : ~ r[i].running
    BY <1>1, <1>2
  <2>2. r # << >> => 1 \in 1 .. Len(r) /\ Head(r) = r[1]
    OBVIOUS
  <2>. QED  BY <2>1, <2>2 DEF RunsIn
<1>6. q[1].kind = "restore" => \A c : QueueFor(Tail(q), c)
  BY <1>1, <1>2, <1>3 DEF QueueFor
<1>7. Head(q).kind = "restore" => b = "restoring" /\ Planned(Head(q).plan)
  BY <1>1 DEF QueueFor
<1>. QED  BY <1>1, <1>4, <1>5, <1>6, <1>7

\* One more is asked for.
LEMMA AsksIs ==
    ASSUME NEW q, NEW b, QueueFor(q, b), NEW op \in Ops, ~ op.running, op.kind # "restore"
    PROVE  /\ QueueFor(Append(q, op), b)
           /\ \A kind : RunsIn(Append(q, op), kind) => RunsIn(q, kind) /\ Head(Append(q, op)) = Head(q)
<1>1. q \in Seq(Ops) /\ Len(q) \in Nat
  BY DEF QueueFor
<1>2. PICK r : r = Append(q, op)
  OBVIOUS
<1>3. /\ r \in Seq(Ops) /\ Len(r) = Len(q) + 1 /\ r # << >> /\ Head(r) = r[1]
      /\ \A i \in 1 .. Len(q) : r[i] = q[i]
      /\ r[Len(q) + 1] = op
  BY <1>1, <1>2
<1>4. \A i \in 1 .. Len(r) : i \in 1 .. Len(q) \/ i = Len(q) + 1
  BY <1>1, <1>3
<1>5. \A i \in 1 .. Len(r) : r[i].running \/ r[i].kind = "restore" => i \in 1 .. Len(q) /\ r[i] = q[i]
  BY <1>3, <1>4
<1>6. QueueFor(r, b)
  <2>1. \A i \in 1 .. Len(r) : r[i].running => i = 1
    BY <1>5 DEF QueueFor
  <2>2. \A i \in 1 .. Len(r) : r[i].kind = "restore" =>
          /\ b = "restoring" /\ Planned(r[i].plan)
          /\ \A j \in 1 .. Len(r) : r[j].kind = "restore" => j = i
    BY <1>5 DEF QueueFor
  <2>. QED  BY <1>3, <2>1, <2>2 DEF QueueFor
<1>7. ASSUME NEW kind, RunsIn(r, kind)
      PROVE  RunsIn(q, kind) /\ Head(r) = Head(q)
  <2>1. r[1].running /\ 1 \in 1 .. Len(r)
    BY <1>1, <1>3, <1>7 DEF RunsIn
  <2>2. 1 \in 1 .. Len(q) /\ r[1] = q[1]
    BY <1>5, <2>1
  <2>3. q # << >> /\ Head(q) = q[1]
    BY <1>1, <2>2
  <2>. QED  BY <1>3, <1>7, <2>2, <2>3 DEF RunsIn
<1>. QED  BY <1>2, <1>6, <1>7

\* The first one goes on.
LEMMA GoesOnIs ==
    ASSUME NEW q, NEW b, QueueFor(q, b), q # << >>, NEW op \in Ops, op.kind = Head(q).kind, op.plan = Head(q).plan,
           NEW r, r = <<op>> \o Tail(q)
    PROVE  QueueFor(r, b) /\ r # << >> /\ Head(r) = op
<1>1. /\ q \in Seq(Ops) /\ Len(q) \in Nat /\ 1 \in 1 .. Len(q) /\ Head(q) = q[1]
      /\ Tail(q) \in Seq(Ops) /\ Len(Tail(q)) = Len(q) - 1
      /\ \A i \in 1 .. Len(q) - 1 : Tail(q)[i] = q[i + 1]
  BY DEF QueueFor
<1>2. /\ r \in Seq(Ops) /\ Len(r) = Len(q) /\ r[1] = op
      /\ \A i \in 2 .. Len(q) : r[i] = Tail(q)[i - 1]
  BY <1>1
<1>3. \A i \in 1 .. Len(q) : r[i] = IF i = 1 THEN op ELSE q[i]
  BY <1>1, <1>2
<1>4. \A i \in 1 .. Len(q) : r[i].kind = q[i].kind /\ r[i].plan = q[i].plan /\ (r[i].running => q[i].running \/ i = 1)
  BY <1>1, <1>3
<1>5. QueueFor(r, b)
  BY <1>2, <1>4 DEF QueueFor
<1>. QED  BY <1>1, <1>2, <1>5

\* The record of nothing, and an operation as it is asked for.
LEMMA OpIs ==
    ASSUME NEW kind \in {"open", "close", "restore"}, NEW name \in Goes, NEW view \in ViewIds \cup {None},
           NEW beside \in BOOLEAN
    PROVE  /\ Op(kind, name, view, beside) \in Ops /\ ~ Op(kind, name, view, beside).running
           /\ Op(kind, name, view, beside).kind = kind /\ Nothing \in Records
<1>1. Nothing \in Records
  BY DEF Nothing, Record, Records, Goes
<1>2. PICK p \in Records : p = Nothing
  BY <1>1
<1>3. Op(kind, name, view, beside) =
          [kind |-> kind, name |-> name, view |-> view, beside |-> beside, running |-> FALSE,
           plan |-> p, names |-> << >>, failed |-> FALSE]
  BY <1>2 DEF Op
<1>. QED  BY <1>1, <1>3 DEF Ops

\* The stage changes, and no view comes or goes.
LEMMA HoldsOn ==
    ASSUME NEW s, NEW q, NEW b, NEW l, Holds(s, q, b, l), NEW t, Settled(t), t.items = s.items,
           t.persisting = s.persisting, s.active # None => t.active # None
    PROVE  Holds(t, q, b, l) /\ (t.active = None => t.items = << >> \/ RunsIn(q, "restore"))
<1>1. t.items = << >> => t.active = None
  <2>1. Cols(t) /\ t.items \in Seq(ViewIds)
    BY DEF Settled, Sound, Placed, Stages
  <2>2. t.items = << >> => ToSet(t.items) = {}
    BY <2>1, ListFacts
  <2>. QED  BY <2>1, <2>2 DEF Cols, Empty, Fit
<1>2. MannedFor(t, q)
  BY <1>1 DEF Holds, MannedFor
<1>3. BootFor(t, b) /\ CloseFor(t, q)
  BY DEF Holds, BootFor, CloseFor
<1>. QED  BY <1>2, <1>3 DEF Holds, MannedFor

\* The user is answered at once.
LEMMA ActsOn ==
    ASSUME IInv, NEW t, Settled(t), t.items = stage.items, t.persisting = stage.persisting,
           stage.active # None => t.active # None,
           Becomes(t), UNCHANGED <<queue, left, boot>>
    PROVE  IInv'
<1>1. PICK s : s = Now
  OBVIOUS
<1>2. s.items = stage.items /\ s.persisting = stage.persisting /\ s.active = stage.active
  BY <1>1 DEF Now
<1>3. Holds(s, queue, boot, left)
  BY <1>1 DEF IInv
<1>4. Holds(t, queue, boot, left)
  BY <1>2, <1>3, HoldsOn
<1>5. Now' = t
  BY BecomesIs DEF Settled, Sound, Placed
<1>. QED  BY <1>4, <1>5 DEF IInv

\* Or asks for an operation.
LEMMA AsksOn ==
    ASSUME IInv, NEW op \in Ops, ~ op.running, op.kind # "restore", Asks(op), UNCHANGED <<left, boot>>
    PROVE  IInv'
<1>1. Now' = Now /\ queue' = Append(queue, op)
  BY DEF Asks, Now
<1>2. QueueFor(queue, boot)
  BY DEF IInv, Holds
<1>3. QueueFor(queue', boot) /\ \A kind : RunsIn(queue', kind) => RunsIn(queue, kind) /\ Head(queue') = Head(queue)
  BY <1>1, <1>2, AsksIs
<1>4. RunsIn(queue, "restore") => RunsIn(queue', "restore")
  <2>1. queue \in Seq(Ops) /\ op \in Ops
    BY <1>2 DEF QueueFor
  <2>2. queue # << >> => Append(queue, op) # << >> /\ Head(Append(queue, op)) = Head(queue)
    BY <2>1
  <2>. QED  BY <1>1, <2>2 DEF RunsIn
<1>. QED  BY <1>1, <1>3, <1>4 DEF IInv, Holds, MannedFor, CloseFor

-----------------------------------------------------------------------------
(* What the user does. *)

\* The window there is.
LEMMA NowIs ==
    /\ Now.items = stage.items /\ Now.recent = stage.recent /\ Now.active = stage.active /\ Now.shown = stage.shown
    /\ Now.equal = stage.equal /\ Now.pending = stage.pending /\ Now.told = stage.told
    /\ Now.persisting = stage.persisting /\ Now.stored = stage.stored
    /\ Now.doc = doc /\ Now.overlay = overlay /\ Now.keys = keys
BY DEF Now

\* The user opens a workspace, or closes one.
LEMMA AsksStep ==
    ASSUME IInv, Open \/ Close, UNCHANGED <<left, boot>>
    PROVE  IInv'
<1>1. CASE Open
  <2>1. PICK name \in Names \cup {Scratch}, beside \in BOOLEAN : Asks(Op("open", name, None, beside))
    BY <1>1 DEF Open
  <2>2. /\ Op("open", name, None, beside) \in Ops /\ ~ Op("open", name, None, beside).running
        /\ Op("open", name, None, beside).kind # "restore"
    <3>1. name \in Goes
      BY DEF Goes
    <3>. QED  BY <3>1, OpIs
  <2>. QED  BY <2>1, <2>2, AsksOn
<1>2. CASE Close
  <2>1. PICK v \in ToSet(stage.items) : Asks(Op("close", None, v, FALSE))
    BY <1>2 DEF Close
  <2>2. v \in ViewIds
    BY NowIs, ListFacts DEF IInv, Holds, Settled, Sound, Placed, Stages
  <2>3. /\ Op("close", None, v, FALSE) \in Ops /\ ~ Op("close", None, v, FALSE).running
        /\ Op("close", None, v, FALSE).kind # "restore"
    <3>1. None \in Goes
      BY DEF Goes
    <3>. QED  BY <2>2, <3>1, OpIs
  <2>. QED  BY <2>1, <2>3, AsksOn
<1>. QED  BY <1>1, <1>2

\* A view is focused, or none.
LEMMA FocusStep ==
    ASSUME IInv, NEW v \in ToSet(stage.items) \cup {None}, NEW alone \in BOOLEAN, Acts(FocusView(Now, v, alone)),
           UNCHANGED <<left, boot>>
    PROVE  IInv'
<1>1. PICK t : t = FocusView(Now, v, alone)
  OBVIOUS
<1>2. Settled(t) /\ Stays(Now, t)
  <2>1. PICK s : s = Now
    OBVIOUS
  <2>2. Settled(s) /\ v \in ToSet(s.items) \cup {None} /\ t = FocusView(s, v, alone)
    BY <1>1, <2>1, NowIs DEF IInv, Holds
  <2>3. Settled(t) /\ Stays(s, t)
    BY <2>2, FocusStays
  <2>. QED  BY <2>1, <2>3
<1>3. /\ t.items = stage.items /\ t.persisting = stage.persisting
      /\ stage.active # None => t.active # None
  BY <1>2, NowIs DEF Stays
<1>4. Becomes(t) /\ UNCHANGED <<queue, left, boot>>
  BY <1>1 DEF Acts
<1>. QED  BY <1>2, <1>3, <1>4, ActsOn

\* What settles and keeps the views is a step.
LEMMA StaysStep ==
    ASSUME IInv, NEW t, Settled(t), Stays(Now, t), Becomes(t), UNCHANGED <<queue, left, boot>>
    PROVE  IInv'
<1>1. /\ t.items = stage.items /\ t.persisting = stage.persisting
      /\ stage.active # None => t.active # None
  BY NowIs DEF Stays
<1>. QED  BY <1>1, ActsOn

\* What is shown, and the view with the keyboard, are open.
LEMMA NowOpen ==
    ASSUME IInv
    PROVE  /\ Settled(Now) /\ ToSet(stage.shown) \subseteq ToSet(stage.items)
           /\ stage.active \in ToSet(stage.items) \cup {None}
           /\ ToSet(stage.items) \subseteq ViewIds /\ doc \in [ViewIds -> Docs]
           /\ Empty(stage) \/ Fit(stage, ToSet(stage.items))
<1>1. PICK s : s = Now
  OBVIOUS
<1>2. Settled(s) /\ Cols(s) /\ s \in Stages
  BY <1>1 DEF IInv, Holds, Settled, Sound, Placed
<1>3. ToSet(s.shown) \subseteq ToSet(s.items)
  BY <1>2, ShownOpen
<1>4. s.active \in ToSet(s.items) \cup {None}
  BY <1>2, <1>3 DEF Cols, Empty, Fit
<1>5. ToSet(s.items) \subseteq ViewIds /\ s.doc \in [ViewIds -> Docs]
  BY <1>2, ListFacts DEF Stages
<1>6. Empty(stage) \/ Fit(stage, ToSet(stage.items))
  BY <1>1, <1>2, NowIs DEF Cols, Empty, Fit
<1>. QED  BY <1>1, <1>2, <1>3, <1>4, <1>5, <1>6, NowIs

\* The user moves between the views.
LEMMA MovesStep ==
    ASSUME IInv, ShowSlot \/ CycleWorkspace \/ StepToColumn \/ RemoveFromSplit \/ ShowActiveAlone,
           UNCHANGED <<left, boot>>
    PROVE  IInv'
<1>0. PICK s : s = Now
  OBVIOUS
<1>1. Settled(s) /\ s \in Stages /\ s.items = stage.items
  BY <1>0, NowIs DEF IInv, Holds, Settled, Sound, Placed
<1>2. CASE ShowSlot
  <2>1. PICK name \in Names \cup {Scratch} :
            \/ ViewFor(Now, name) # None /\ Acts(FocusView(Now, ViewFor(Now, name), TRUE))
            \/ Asks(Op("open", name, None, FALSE))
    BY <1>2 DEF ShowSlot
  <2>2. CASE Asks(Op("open", name, None, FALSE))
    <3>1. Open
      BY <2>2 DEF Open
    <3>. QED  BY <3>1, AsksStep
  <2>3. CASE ViewFor(Now, name) # None /\ Acts(FocusView(Now, ViewFor(Now, name), TRUE))
    <3>1. PICK v : v = ViewFor(Now, name)
      OBVIOUS
    <3>2. v \in ToSet(stage.items)
      <4>1. ViewFor(s, name) \in ToSet(s.items) \cup {None}
        BY <1>1, ViewForIs
      <4>. QED  BY <1>0, <1>1, <2>3, <3>1, <4>1
    <3>3. Acts(FocusView(Now, v, TRUE))
      BY <2>3, <3>1
    <3>. QED  BY <3>2, <3>3, FocusStep
  <2>. QED  BY <2>1, <2>2, <2>3
<1>3. CASE CycleWorkspace
  <2>1. PICK forward \in BOOLEAN : Acts(Cycle(Now, forward))
    BY <1>3 DEF CycleWorkspace
  <2>2. PICK t : t = Cycle(s, forward)
    OBVIOUS
  <2>3. Settled(t) /\ Stays(s, t)
    BY <1>1, <2>2, CycleStays
  <2>4. Becomes(t) /\ UNCHANGED queue
    BY <1>0, <2>1, <2>2 DEF Acts
  <2>. QED  BY <1>0, <2>3, <2>4, StaysStep
<1>4. CASE StepToColumn
  <2>1. PICK right \in BOOLEAN : Acts(FocusView(Now, StepColumn(stage, right), FALSE))
    BY <1>4 DEF StepToColumn
  <2>2. PICK v : v = StepColumn(stage, right)
    OBVIOUS
  <2>3. v \in ToSet(stage.items) \cup {None}
    <3>1. PICK c : c = stage
      OBVIOUS
    <3>2. Empty(c) \/ Fit(c, ToSet(stage.items))
      BY <3>1, NowOpen
    <3>3. StepColumn(c, right) \in ToSet(c.shown) \cup {None}
      BY <3>2, StepIs
    <3>. QED  BY <2>2, <3>1, <3>3, NowOpen
  <2>4. Acts(FocusView(Now, v, FALSE))
    BY <2>1, <2>2
  <2>. QED  BY <2>3, <2>4, FocusStep
<1>5. CASE RemoveFromSplit
  <2>1. PICK v \in ToSet(stage.shown) : Acts(RemoveShown(Now, v))
    BY <1>5 DEF RemoveFromSplit
  <2>2. PICK t : t = RemoveShown(s, v)
    OBVIOUS
  <2>3. Settled(t) /\ Stays(s, t)
    BY <1>1, <2>2, RemoveStays
  <2>4. Becomes(t) /\ UNCHANGED queue
    BY <1>0, <2>1, <2>2 DEF Acts
  <2>. QED  BY <1>0, <2>3, <2>4, StaysStep
<1>6. CASE ShowActiveAlone
  <2>1. PICK v : v = stage.active
    OBVIOUS
  <2>2. Acts(FocusView(Now, v, TRUE)) /\ v \in ToSet(stage.items) \cup {None}
    BY <1>6, <2>1, NowOpen DEF ShowActiveAlone
  <2>. QED  BY <2>2, FocusStep
<1>. QED  BY <1>2, <1>3, <1>4, <1>5, <1>6

\* The user drags a gutter, clicks in a view, or opens an overlay.
LEMMA TouchesStep ==
    ASSUME IInv, DragGutter \/ Click \/ OverlayOpens \/ OverlayCloses \/ WindowFocused, UNCHANGED <<left, boot>>
    PROVE  IInv'
<1>0. PICK s : s = Now
  OBVIOUS
<1>1. /\ Settled(s) /\ s \in Stages /\ Placed(s) /\ KeysOk(s) /\ Follows(s)
      /\ s.items = stage.items /\ s.shown = stage.shown /\ s.doc = doc /\ s.overlay = overlay
  BY <1>0, NowIs DEF IInv, Holds, Settled, Sound, Placed
<1>2. CASE DragGutter
  <2>1. PICK p : p = [s EXCEPT !.equal = FALSE]
    OBVIOUS
  <2>2. /\ p \in Stages /\ p.items = s.items /\ p.recent = s.recent /\ p.active = s.active /\ p.shown = s.shown
        /\ p.pending = s.pending /\ p.told = s.told /\ p.doc = s.doc /\ p.overlay = s.overlay /\ p.keys = s.keys
        /\ p.persisting = s.persisting
    BY <1>1, <2>1 DEF Stages
  <2>3. Placed(p) /\ KeysOk(p)
    BY <1>1, <2>2, PlacedStays
  <2>4. PICK t : t = Persist(p)
    OBVIOUS
  <2>5. Settled(t) /\ Stays(p, t)
    BY <2>3, <2>4, PersistStays
  <2>6. Stays(s, t)
    BY <2>2, <2>5 DEF Stays, SameDocs
  <2>7. Becomes(t) /\ UNCHANGED queue
    BY <1>0, <1>2, <2>1, <2>4 DEF DragGutter, Acts
  <2>. QED  BY <1>0, <2>5, <2>6, <2>7, StaysStep
<1>3. CASE Click
  <2>1. PICK v \in ToSet(stage.shown) :
            IsLive(doc[v]) /\ ~ overlay /\ Acts([TakeColumn(Now, v) EXCEPT !.keys = v, !.doc[v].suspended = FALSE])
    BY <1>3 DEF Click
  <2>2. PICK t : t = [TakeColumn(s, v) EXCEPT !.keys = v, !.doc[v].suspended = FALSE]
    OBVIOUS
  <2>3. Settled(t) /\ Stays(s, t)
    BY <1>1, <2>1, <2>2, ClickStays
  <2>4. Becomes(t) /\ UNCHANGED queue
    BY <1>0, <2>1, <2>2 DEF Acts
  <2>. QED  BY <1>0, <2>3, <2>4, StaysStep
<1>4. CASE OverlayOpens
  <2>1. PICK t : t = [s EXCEPT !.overlay = TRUE, !.keys = Shell]
    OBVIOUS
  <2>2. /\ t \in Stages /\ t.items = s.items /\ t.recent = s.recent /\ t.active = s.active /\ t.shown = s.shown
        /\ t.equal = s.equal /\ t.told = s.told /\ t.persisting = s.persisting
        /\ t.stored = s.stored /\ t.keys = Shell /\ t.pending = s.pending /\ t.doc = s.doc
    BY <1>1, <2>1 DEF Stages
  <2>3. Core(t)
    <3>1. Core(s) /\ SameDocs(s, t) /\ ToSet(t.recent) \subseteq ToSet(s.items)
      BY <1>1, <2>2 DEF Placed, SameDocs, Core
    <3>. QED  BY <1>1, <2>2, <3>1, CoreStays
  <2>4. Cols(t)
    BY <1>1, <2>2 DEF Placed, Cols, Empty, Fit
  <2>5. Knows(t)
    BY <1>1, <2>2 DEF Placed, Knows
  <2>6. KeysOk(t)
    BY <2>2 DEF KeysOk, KeysSeen
  <2>7. Follows(t)
    BY <1>1, <2>2, FollowsStays
  <2>8. Settled(t)
    BY <2>2, <2>3, <2>4, <2>5, <2>6, <2>7 DEF Settled, Sound, Placed, KeysOk
  <2>9. Becomes(t) /\ UNCHANGED queue
    BY <1>0, <1>4, <2>1 DEF OverlayOpens, Acts
  <2>10. t.items = stage.items /\ t.persisting = stage.persisting /\ (stage.active # None => t.active # None)
    BY <1>0, <2>2, NowIs
  <2>. QED  BY <2>8, <2>9, <2>10, ActsOn
<1>5. CASE OverlayCloses
  <2>1. PICK p : p = [s EXCEPT !.overlay = FALSE]
    OBVIOUS
  <2>2. /\ p \in Stages /\ p.items = s.items /\ p.recent = s.recent /\ p.active = s.active /\ p.shown = s.shown
        /\ p.equal = s.equal /\ p.told = s.told /\ p.persisting = s.persisting
        /\ p.stored = s.stored /\ p.keys = s.keys /\ p.pending = s.pending /\ p.doc = s.doc
    BY <1>1, <2>1 DEF Stages
  <2>3. Core(p)
    <3>1. Core(s) /\ SameDocs(s, p) /\ ToSet(p.recent) \subseteq ToSet(s.items)
      BY <1>1, <2>2 DEF Placed, SameDocs, Core
    <3>. QED  BY <1>1, <2>2, <3>1, CoreStays
  <2>4. Cols(p)
    BY <1>1, <2>2 DEF Placed, Cols, Empty, Fit
  <2>5. Knows(p)
    BY <1>1, <2>2 DEF Placed, Knows
  <2>6. KeysOk(p)
    <3>1. s.keys = Shell
      BY <1>1, <1>5 DEF OverlayCloses, KeysOk, KeysSeen
    <3>. QED  BY <2>2, <3>1 DEF KeysOk, KeysSeen
  <2>7. Follows(p)
    BY <1>1, <2>2, FollowsStays
  <2>8. Settled(p)
    BY <2>2, <2>3, <2>4, <2>5, <2>6, <2>7 DEF Settled, Sound, Placed, KeysOk
  <2>9. PICK v : v = stage.active
    OBVIOUS
  <2>10. v \in ToSet(p.items) \cup {None}
    BY <1>1, <2>2, <2>9, NowOpen
  <2>11. PICK t : t = FocusView(p, v, FALSE)
    OBVIOUS
  <2>12. Settled(t) /\ Stays(p, t)
    BY <2>8, <2>10, <2>11, FocusStays
  <2>13. Becomes(t) /\ UNCHANGED queue
    BY <1>0, <1>5, <2>1, <2>9, <2>11 DEF OverlayCloses, Acts
  <2>14. t.items = stage.items /\ t.persisting = stage.persisting /\ (stage.active # None => t.active # None)
    BY <1>0, <2>2, <2>12, NowIs DEF Stays
  <2>. QED  BY <2>12, <2>13, <2>14, ActsOn
<1>6. CASE WindowFocused
  <2>1. PICK v : v = stage.active
    OBVIOUS
  <2>2. Acts(FocusView(Now, v, FALSE)) /\ v \in ToSet(stage.items) \cup {None}
    BY <1>6, <2>1, NowOpen DEF WindowFocused
  <2>. QED  BY <2>2, FocusStep
<1>. QED  BY <1>2, <1>3, <1>4, <1>5, <1>6

\* A scratch view is saved: it goes by another name.
LEMMA PromoteStep ==
    ASSUME IInv, NEW v \in ToSet(stage.items), Promote(v), UNCHANGED <<left, boot>>
    PROVE  IInv'
<1>0. PICK s : s = Now
  OBVIOUS
<1>1. /\ Settled(s) /\ s \in Stages /\ s.doc = doc /\ v \in ViewIds /\ s.doc[v] \in Docs
      /\ s.items = stage.items /\ s.persisting = stage.persisting /\ s.active = stage.active
  <2>1. Settled(s) /\ s \in Stages /\ s.doc = doc /\ v \in ViewIds
    BY <1>0, NowIs, NowOpen DEF Settled, Sound, Placed
  <2>2. s.doc[v] \in Docs
    BY <2>1 DEF Stages
  <2>. QED  BY <1>0, <2>1, <2>2, NowIs
<1>2. PICK n \in Names : doc' = [doc EXCEPT ![v].name = n, ![v].kept = FALSE] /\ IsLive(doc[v])
  BY DEF Promote
<1>3. PICK e : e = [s.doc[v] EXCEPT !.name = n, !.kept = FALSE]
  OBVIOUS
<1>4. /\ e \in Docs /\ e.phase = "live" /\ s.doc[v].phase = "live" /\ e.kept = FALSE
      /\ e.suspended = s.doc[v].suspended /\ e.hidden = s.doc[v].hidden
  <2>1. n \in Goes
    BY DEF Goes
  <2>. QED  BY <1>1, <1>2, <1>3, <2>1 DEF Docs, IsLive
<1>5. doc' = [s.doc EXCEPT ![v] = e]
  <2>1. s.doc \in [ViewIds -> Docs]
    BY <1>1 DEF Stages
  <2>2. PICK e0 : e0 = [s.doc[v] EXCEPT !.name = n]
    OBVIOUS
  <2>3. doc' = [[s.doc EXCEPT ![v] = e0] EXCEPT ![v].kept = FALSE]
    BY <1>1, <1>2, <2>1, <2>2
  <2>4. [s.doc EXCEPT ![v] = e0][v] = e0 /\ [e0 EXCEPT !.kept = FALSE] = e
    BY <1>1, <1>3, <2>1, <2>2 DEF Docs
  <2>. QED  BY <1>1, <2>1, <2>3, <2>4
<1>6. PICK t : t = [s EXCEPT !.doc = [s.doc EXCEPT ![v] = e]]
  OBVIOUS
<1>7. /\ Settled(t) /\ t.items = s.items /\ t.overlay = s.overlay /\ t.persisting = s.persisting
      /\ t.active = s.active
  BY <1>1, <1>4, <1>6, DocIs
<1>8. Now' = t
  <2>1. UNCHANGED <<stage, overlay, keys>>
    BY DEF Promote
  <2>. QED  BY <1>0, <1>5, <1>6, <2>1 DEF Now
<1>9. Holds(s, queue, boot, left)
  BY <1>0 DEF IInv
<1>10. Holds(t, queue, boot, left)
  BY <1>7, <1>9, HoldsOn
<1>11. UNCHANGED <<queue, left, boot>>
  BY DEF Promote
<1>. QED  BY <1>8, <1>10, <1>11 DEF IInv

-----------------------------------------------------------------------------
(* What the window answers. *)

\* A step of the stage whose operation is over.
LEMMA FinishedStep ==
    ASSUME IInv, queue # << >>, Finished, UNCHANGED <<left, boot>>, NEW t, Settled(t), Now' = t,
           t.persisting = stage.persisting, (t.active = None) = (t.items = << >>)
    PROVE  IInv'
<1>1. QueueFor(queue, boot) /\ BootFor(Now, boot)
  BY DEF IInv, Holds
<1>2. QueueFor(Tail(queue), boot) /\ \A kind : ~ RunsIn(Tail(queue), kind)
  BY <1>1, TailIs
<1>3. QueueFor(queue', boot') /\ (\A kind : ~ RunsIn(queue', kind)) /\ boot' = boot /\ left' = left
  BY <1>2 DEF Finished
<1>4. BootFor(t, boot')
  BY <1>1, <1>3, NowIs DEF BootFor
<1>5. left \subseteq Names
  BY DEF IInv, Holds
<1>. QED  BY <1>3, <1>4, <1>5 DEF IInv, Holds, MannedFor, CloseFor

\* A view has the keyboard when there is one, unless views are coming back.
LEMMA NowManned ==
    ASSUME IInv, ~ RunsIn(queue, "restore")
    PROVE  (stage.active = None) = (stage.items = << >>)
BY NowIs DEF IInv, Holds, MannedFor

\* The running operation is the first one.
LEMMA HeadIs ==
    ASSUME IInv, queue # << >>
    PROVE  /\ Head(queue) \in Ops /\ Tail(queue) \in Seq(Ops)
           /\ Head(queue).kind = "restore" => boot = "restoring" /\ Planned(Head(queue).plan) /\ ~ stage.persisting
           /\ RunsIn(queue, "close") => Head(queue).view \in ToSet(stage.items)
<1>1. QueueFor(queue, boot) /\ BootFor(Now, boot) /\ CloseFor(Now, queue)
  BY DEF IInv, Holds
<1>2. Head(queue) \in Ops /\ (Head(queue).kind = "restore" => boot = "restoring" /\ Planned(Head(queue).plan))
  BY <1>1, TailIs
<1>3. Tail(queue) \in Seq(Ops)
  BY <1>1 DEF QueueFor
<1>. QED  BY <1>1, <1>2, <1>3, NowIs DEF BootFor, CloseFor

\* An operation runs from now on.
LEMMA WaitsStep ==
    ASSUME IInv, queue # << >>, Waits, UNCHANGED <<stage, doc, overlay, keys, left, boot>>,
           ~ RunsIn(queue, "restore"),
           Head(queue).kind = "close" => Head(queue).view \in ToSet(stage.items)
    PROVE  IInv'
<1>1. Now' = Now
  BY DEF Now
<1>2. QueueFor(queue, boot) /\ Head(queue) \in Ops
  BY HeadIs DEF IInv, Holds
<1>3. PICK op : op = [Head(queue) EXCEPT !.running = TRUE]
  OBVIOUS
<1>4. op \in Ops /\ op.kind = Head(queue).kind /\ op.plan = Head(queue).plan /\ op.view = Head(queue).view
  BY <1>2, <1>3 DEF Ops
<1>5. QueueFor(queue', boot) /\ queue' # << >> /\ Head(queue') = op
  BY <1>2, <1>3, <1>4, GoesOnIs DEF Waits
<1>6. (stage.active = None) = (stage.items = << >>)
  BY NowManned
<1>. QED  BY <1>1, <1>4, <1>5, <1>6, NowIs DEF IInv, Holds, MannedFor, CloseFor, RunsIn

\* A workspace is opened.
LEMMA OpenStep ==
    ASSUME IInv, StartOpen \/ OpenAnswer
    PROVE  IInv'
<1>0. PICK s : s = Now
  OBVIOUS
<1>1. /\ Settled(s) /\ s \in Stages /\ Cols(s) /\ s.items = stage.items /\ s.persisting = stage.persisting
      /\ s.active = stage.active
  BY <1>0, NowIs DEF IInv, Holds, Settled, Sound, Placed
<1>2. queue # << >> /\ Head(queue).kind = "open" /\ Head(queue) \in Ops /\ UNCHANGED <<left, boot>>
  BY HeadIs DEF StartOpen, OpenAnswer, Starts, Running
<1>3. ~ RunsIn(queue, "restore") /\ (stage.active = None) = (stage.items = << >>)
  BY <1>2, NowManned DEF RunsIn
<1>4. PICK op \in Ops : op = Head(queue)
  BY <1>2
<1>5. op.name \in Goes /\ op.beside \in BOOLEAN
  BY DEF Ops
<1>6. CASE StartOpen
  <2>1. PICK v : v = ViewFor(Now, op.name)
    OBVIOUS
  <2>2. CASE v = None
    <3>1. Waits /\ UNCHANGED <<stage, doc, overlay, keys>>
      BY <1>4, <1>6, <2>1, <2>2 DEF StartOpen
    <3>. QED  BY <1>2, <1>3, <3>1, WaitsStep
  <2>3. CASE v # None
    <3>1. v \in ToSet(s.items)
      <4>1. ViewFor(s, op.name) \in ToSet(s.items) \cup {None}
        BY <1>1, ViewForIs
      <4>. QED  BY <1>0, <2>1, <2>3, <4>1
    <3>2. PICK t : t = IF op.beside THEN ToggleShown(s, v) ELSE FocusView(s, v, FALSE)
      OBVIOUS
    <3>3. Finished /\ Becomes(t)
      BY <1>0, <1>4, <1>6, <2>1, <2>3, <3>2 DEF StartOpen
    <3>4. Settled(t) /\ Stays(s, t)
      <4>1. CASE op.beside
        BY <1>1, <3>1, <3>2, <4>1, ToggleStays
      <4>2. CASE ~ op.beside
        <5>1. t = FocusView(s, v, FALSE) /\ v \in ToSet(s.items) \cup {None} /\ FALSE \in BOOLEAN
          BY <3>1, <3>2, <4>2
        <5>2. Settled(s)
          BY <1>1
        <5>. QED  BY ONLY <5>1, <5>2, FocusStays
      <4>. QED  BY <4>1, <4>2
    <3>5. Now' = t
      BY <3>3, <3>4, BecomesIs DEF Settled, Sound, Placed
    <3>6. t.items # << >> /\ t.active # None /\ t.persisting = stage.persisting
      <4>1. stage.items # << >>
        BY <1>1, <3>1, ListFacts DEF Stages
      <4>. QED  BY <1>1, <1>3, <3>4, <4>1 DEF Stays
    <3>. QED  BY <1>2, <3>3, <3>4, <3>5, <3>6, FinishedStep
  <2>. QED  BY <2>2, <2>3
<1>7. CASE OpenAnswer
  <2>1. Finished
    BY <1>7 DEF OpenAnswer
  <2>2. CASE UNCHANGED <<stage, doc, overlay, keys>>
    <3>1. Now' = s
      BY <1>0, <2>2 DEF Now
    <3>. QED  BY <1>1, <1>2, <1>3, <2>1, <3>1, FinishedStep
  <2>3. CASE NextId(Now) \in ViewIds /\ Becomes(Opened(Now, op.name, op.beside))
    <3>1. PICK t : t = Opened(s, op.name, op.beside)
      OBVIOUS
    <3>2. /\ Settled(t) /\ t.active # None /\ t.persisting = s.persisting
      BY <1>0, <1>1, <1>5, <2>3, <3>1, OpenedIs
    <3>3. Now' = t
      BY <1>0, <2>3, <3>1, <3>2, BecomesIs DEF Settled, Sound, Placed
    <3>4. t.items # << >>
      <4>1. Cols(t) /\ t.items \in Seq(ViewIds)
        BY <3>2 DEF Settled, Sound, Placed, Stages
      <4>2. ToSet(t.items) # {}
        BY <3>2, <4>1 DEF Cols, Empty, Fit
      <4>. QED  BY <4>1, <4>2, ListFacts
    <3>. QED  BY <1>1, <1>2, <2>1, <3>2, <3>3, <3>4, FinishedStep
  <2>. QED  BY <1>4, <1>7, <2>2, <2>3 DEF OpenAnswer
<1>. QED  BY <1>6, <1>7

\* A view is closed.
LEMMA CloseStep ==
    ASSUME IInv, StartClose \/ CloseAnswer
    PROVE  IInv'
<1>0. PICK s : s = Now
  OBVIOUS
<1>1. /\ Settled(s) /\ s \in Stages /\ Cols(s) /\ s.items = stage.items /\ s.persisting = stage.persisting
      /\ s.active = stage.active
  BY <1>0, NowIs DEF IInv, Holds, Settled, Sound, Placed
<1>2. queue # << >> /\ Head(queue).kind = "close" /\ UNCHANGED <<left, boot>>
  BY DEF StartClose, CloseAnswer, Starts, Running
<1>3. ~ RunsIn(queue, "restore") /\ (stage.active = None) = (stage.items = << >>)
  BY <1>2, NowManned DEF RunsIn
<1>4. CASE UNCHANGED <<stage, doc, overlay, keys>> /\ Finished
  <2>1. Now' = s
    BY <1>0, <1>4 DEF Now
  <2>. QED  BY <1>1, <1>2, <1>3, <1>4, <2>1, FinishedStep
<1>5. CASE StartClose /\ ~ Finished
  <2>1. Waits /\ UNCHANGED <<stage, doc, overlay, keys>> /\ Has(stage.items, Head(queue).view)
    BY <1>5 DEF StartClose
  <2>. QED  BY <1>2, <1>3, <2>1, WaitsStep DEF Has
<1>6. CASE CloseAnswer /\ Becomes(Closed(Now, Head(queue).view))
  <2>1. PICK v : v = Head(queue).view
    OBVIOUS
  <2>2. v \in ToSet(s.items)
    BY <1>1, <1>2, <1>6, <2>1, HeadIs DEF CloseAnswer, Running, RunsIn
  <2>3. s.active # None
    <3>1. s.items # << >>
      BY <1>1, <2>2, ListFacts DEF Stages
    <3>. QED  BY <1>1, <1>3, <3>1
  <2>4. PICK t : t = Closed(s, v)
    OBVIOUS
  <2>5. Settled(t) /\ t.persisting = s.persisting /\ (t.active = None => t.items = << >>)
    BY <1>1, <2>2, <2>3, <2>4, ClosedIs
  <2>6. Now' = t
    BY <1>0, <1>6, <2>1, <2>4, <2>5, BecomesIs DEF Settled, Sound, Placed
  <2>7. t.items = << >> => t.active = None
    <3>1. Cols(t) /\ t.items \in Seq(ViewIds)
      BY <2>5 DEF Settled, Sound, Placed, Stages
    <3>2. t.items = << >> => ToSet(t.items) = {}
      BY <3>1, ListFacts
    <3>. QED  BY <3>1, <3>2 DEF Cols, Empty, Fit
  <2>8. Finished
    BY <1>6 DEF CloseAnswer
  <2>. QED  BY <1>1, <1>2, <2>5, <2>6, <2>7, <2>8, FinishedStep
<1>7. StartClose => UNCHANGED <<stage, doc, overlay, keys>>
  BY DEF StartClose
<1>8. CloseAnswer => Finished /\ (UNCHANGED <<stage, doc, overlay, keys>> \/ Becomes(Closed(Now, Head(queue).view)))
  BY DEF CloseAnswer
<1>. QED  BY <1>4, <1>5, <1>6, <1>7, <1>8

\* The boot has restored: what is open is stored from now on.
LEMMA UpStep ==
    ASSUME NEW s, Settled(s), NEW t, t = Persist([s EXCEPT !.persisting = TRUE])
    PROVE  Settled(t) /\ t.items = s.items /\ t.active = s.active
<1>1. s \in Stages /\ Placed(s) /\ KeysOk(s)
  BY DEF Settled, Sound, Placed
<1>2. PICK p : p = [s EXCEPT !.persisting = TRUE]
  OBVIOUS
<1>3. /\ p \in Stages /\ p.items = s.items /\ p.recent = s.recent /\ p.active = s.active /\ p.shown = s.shown
      /\ p.pending = s.pending /\ p.told = s.told /\ p.doc = s.doc /\ p.overlay = s.overlay /\ p.keys = s.keys
  BY <1>1, <1>2 DEF Stages
<1>4. Placed(p) /\ KeysOk(p)
  BY <1>1, <1>3, PlacedStays
<1>5. Settled(t) /\ Stays(p, t) /\ t.active = p.active
  BY <1>2, <1>4, PersistStays
<1>. QED  BY <1>3, <1>5 DEF Stays

\* What was open is looked up, and comes back.
LEMMA SavedStep ==
    ASSUME IInv, RestoreSaved
    PROVE  IInv'
<1>0. PICK s : s = Now
  OBVIOUS
<1>1. /\ Holds(s, queue, boot, left) /\ Settled(s) /\ s.stored = stage.stored /\ s.stored \in Records
      /\ QueueFor(queue, boot) /\ boot = "restore" /\ left' = left
  BY <1>0, NowIs DEF IInv, Holds, Settled, Sound, Placed, Stages, RestoreSaved
<1>2. ~ RunsIn(queue, "restore")
  <2>1. queue # << >> => (Head(queue).kind = "restore" => boot = "restoring")
    BY <1>1, TailIs
  <2>. QED  BY <1>1, <2>1 DEF RunsIn
<1>3. CASE boot' = "open" /\ Becomes(Persist([Now EXCEPT !.persisting = TRUE])) /\ queue' = queue
  <2>1. PICK t : t = Persist([s EXCEPT !.persisting = TRUE])
    OBVIOUS
  <2>2. Settled(t) /\ t.items = s.items /\ t.active = s.active
    BY <1>1, <2>1, UpStep
  <2>3. Now' = t
    BY <1>0, <1>3, <2>1, <2>2, BecomesIs DEF Settled, Sound, Placed
  <2>4. QueueFor(queue, "open")
    BY <1>1 DEF QueueFor
  <2>. QED  BY <1>1, <1>3, <2>2, <2>3, <2>4 DEF IInv, Holds, BootFor, MannedFor, CloseFor
<1>4. CASE \E missing \in SUBSET Names :
              /\ ParseOpenViews(stage.stored) # None /\ boot' = "restoring"
              /\ queue' = Append(queue, [Op("restore", None, None, FALSE) EXCEPT
                                            !.plan = RestorePlan(ParseOpenViews(stage.stored), missing)])
              /\ UNCHANGED <<stage, doc, overlay, keys>>
  <2>1. PICK missing \in SUBSET Names :
              /\ ParseOpenViews(stage.stored) # None /\ boot' = "restoring"
              /\ queue' = Append(queue, [Op("restore", None, None, FALSE) EXCEPT
                                            !.plan = RestorePlan(ParseOpenViews(stage.stored), missing)])
              /\ UNCHANGED <<stage, doc, overlay, keys>>
    BY <1>4
  <2>2. PICK plan : plan = RestorePlan(ParseOpenViews(stage.stored), missing)
    OBVIOUS
  <2>3. Planned(plan)
    <3>1. PICK r \in Records : r = stage.stored
      BY <1>1
    <3>2. Planned(RestorePlan(ParseOpenViews(r), missing))
      BY <2>1, <3>1, PlanIs
    <3>. QED  BY <2>2, <3>1, <3>2
  <2>4. PICK op : op = [Op("restore", None, None, FALSE) EXCEPT !.plan = plan]
    OBVIOUS
  <2>5. op \in Ops /\ ~ op.running /\ op.plan = plan
    <3>1. None \in Goes
      BY DEF Goes
    <3>2. PICK o \in Ops : o = Op("restore", None, None, FALSE) /\ ~ o.running
      BY <3>1, OpIs
    <3>3. op = [o EXCEPT !.plan = plan] /\ plan \in Records
      BY <2>3, <2>4, <3>2 DEF Planned
    <3>. QED  BY <3>2, <3>3 DEF Ops
  <2>6. PICK q : q = queue'
    OBVIOUS
  <2>7. /\ q \in Seq(Ops) /\ Len(q) = Len(queue) + 1 /\ Len(queue) \in Nat /\ q # << >> /\ Head(q) = q[1]
        /\ \A i \in 1 .. Len(queue) : q[i] = queue[i]
        /\ q[Len(queue) + 1] = op
    <3>1. queue \in Seq(Ops)
      BY <1>1 DEF QueueFor
    <3>2. q = Append(queue, op)
      BY <2>1, <2>2, <2>4, <2>6
    <3>. QED  BY <2>5, <3>1, <3>2
  <2>8. \A i \in 1 .. Len(q) : i \in 1 .. Len(queue) \/ i = Len(queue) + 1
    BY <2>7
  <2>9. \A i \in 1 .. Len(queue) : q[i].kind # "restore" /\ (q[i].running => i = 1)
    BY <1>1, <2>7 DEF QueueFor
  <2>10. QueueFor(q, "restoring")
    <3>1. \A i \in 1 .. Len(q) : q[i].running => i = 1
      BY <2>5, <2>7, <2>8, <2>9
    <3>2. \A i \in 1 .. Len(q) : q[i].kind = "restore" => i = Len(queue) + 1 /\ q[i] = op
      BY <2>7, <2>8, <2>9
    <3>3. \A i \in 1 .. Len(q) : q[i].kind = "restore" =>
              /\ Planned(q[i].plan)
              /\ \A j \in 1 .. Len(q) : q[j].kind = "restore" => j = i
      BY <2>3, <2>5, <3>2
    <3>. QED  BY <2>7, <3>1, <3>3 DEF QueueFor
  <2>11. \A kind : RunsIn(q, kind) => RunsIn(queue, kind) /\ Head(q) = Head(queue)
    <3>1. SUFFICES ASSUME NEW kind, RunsIn(q, kind) PROVE RunsIn(queue, kind) /\ Head(q) = Head(queue)
      OBVIOUS
    <3>2. q[1].running /\ 1 \in 1 .. Len(q)
      BY <2>7, <3>1 DEF RunsIn
    <3>3. 1 \in 1 .. Len(queue)
      BY <2>5, <2>7, <2>8, <3>2
    <3>4. queue # << >> /\ Head(queue) = queue[1] /\ q[1] = queue[1]
      BY <2>7, <3>3
    <3>. QED  BY <2>7, <3>1, <3>4 DEF RunsIn
  <2>12. Now' = s
    BY <1>0, <2>1 DEF Now
  <2>13. ~ s.persisting
    BY <1>1 DEF Holds, BootFor
  <2>. QED  BY <1>1, <1>2, <2>1, <2>6, <2>10, <2>11, <2>12, <2>13 DEF IInv, Holds, BootFor, MannedFor, CloseFor
<1>. QED  BY <1>3, <1>4 DEF RestoreSaved

\* The workspaces come back one after another.
LEMMA RestoreStep ==
    ASSUME IInv, StartRestore \/ RestoreAnswer \/ RestoreEnds
    PROVE  IInv'
<1>0. PICK s : s = Now
  OBVIOUS
<1>1. /\ Settled(s) /\ s \in Stages /\ Placed(s) /\ KeysOk(s) /\ s.items = stage.items /\ s.persisting = stage.persisting
      /\ s.active = stage.active /\ QueueFor(queue, boot) /\ left \subseteq Names
  BY <1>0, NowIs DEF IInv, Holds, Settled, Sound, Placed
<1>2. queue # << >> /\ Head(queue).kind = "restore" /\ left' = left
  BY DEF StartRestore, RestoreAnswer, RestoreEnds, Starts, Running
<1>3. PICK op \in Ops : op = Head(queue) /\ boot = "restoring" /\ Planned(op.plan) /\ ~ stage.persisting
  BY <1>2, HeadIs
<1>4. QueueFor(Tail(queue), "open") /\ \A kind : ~ RunsIn(Tail(queue), kind)
  BY <1>1, <1>2, TailIs
\* It is over, and the window is open.
<1>5. ASSUME NEW t, Settled(t), Now' = t, Finished, boot' = "open", (t.active = None) = (t.items = << >>)
      PROVE  IInv'
  BY <1>1, <1>2, <1>4, <1>5 DEF IInv, Holds, BootFor, MannedFor, CloseFor, Finished
<1>6. CASE StartRestore
  <2>1. CASE stage.items # << >>
    <3>1. Finished /\ boot' = "open" /\ Becomes(Persist([Now EXCEPT !.persisting = TRUE]))
      BY <1>6, <2>1 DEF StartRestore
    <3>2. PICK t : t = Persist([s EXCEPT !.persisting = TRUE])
      OBVIOUS
    <3>3. Settled(t) /\ t.items = s.items /\ t.active = s.active
      BY <1>1, <3>2, UpStep
    <3>4. Now' = t
      BY <1>0, <3>1, <3>2, <3>3, BecomesIs DEF Settled, Sound, Placed
    <3>5. ~ RunsIn(queue, "restore")
      BY <1>6 DEF StartRestore, Starts, RunsIn
    <3>6. (stage.active = None) = (stage.items = << >>)
      BY <3>5, NowManned
    <3>. QED  BY <1>1, <1>5, <3>1, <3>3, <3>4, <3>6
  <2>2. CASE stage.items = << >>
    <3>1. Waits /\ UNCHANGED <<stage, doc, overlay, keys, left, boot>>
      BY <1>6, <2>2 DEF StartRestore
    <3>2. ~ RunsIn(queue, "restore")
      BY <1>6 DEF StartRestore, Starts, RunsIn
    <3>. QED  BY <1>2, <3>1, <3>2, WaitsStep
  <2>. QED  BY <2>1, <2>2
<1>7. CASE RestoreAnswer
  <2>1. PICK i : i = Len(op.names) + 1
    OBVIOUS
  <2>2. op.names \in Seq(Goes) /\ Len(op.names) \in Nat /\ op.plan.open \in Seq(Goes) /\ Len(op.plan.open) \in Nat
    <3>1. op.names \in Seq(Goes) /\ op.plan \in Records
      BY DEF Ops
    <3>. QED  BY <3>1 DEF Records
  <2>3. i \in 1 .. Len(op.plan.open) /\ op.plan.open[i] \in Goes
    <3>1. i <= Len(op.plan.open)
      BY <1>3, <1>7, <2>1 DEF RestoreAnswer
    <3>. QED  BY <2>1, <2>2, <3>1
  <2>4. PICK failed \in BOOLEAN :
            /\ queue' = <<[op EXCEPT !.names = Append(@, op.plan.open[i]), !.failed = @ \/ failed]>> \o Tail(queue)
            /\ \/ UNCHANGED <<stage, doc, overlay, keys>>
               \/ NextId(Now) \in ViewIds /\ Becomes(Place(Now, op.plan.open[i]))
    BY <1>3, <1>7, <2>1 DEF RestoreAnswer
  <2>5. PICK o : o = [op EXCEPT !.names = Append(op.names, op.plan.open[i]), !.failed = op.failed \/ failed]
    OBVIOUS
  <2>6. o \in Ops /\ o.kind = "restore" /\ o.plan = op.plan /\ o.running
    <3>1. Append(op.names, op.plan.open[i]) \in Seq(Goes)
      BY <2>2, <2>3
    <3>2. op.kind = "restore" /\ op.running
      BY <1>3, <1>7 DEF RestoreAnswer, Running
    <3>3. (op.failed \/ failed) \in BOOLEAN
      OBVIOUS
    <3>. QED  BY <2>5, <3>1, <3>2, <3>3 DEF Ops
  <2>7. QueueFor(queue', boot) /\ queue' # << >> /\ Head(queue') = o
    <3>1. PICK q, r : q = queue /\ r = queue'
      OBVIOUS
    <3>2. QueueFor(q, boot) /\ q # << >> /\ o.kind = Head(q).kind /\ o.plan = Head(q).plan /\ o \in Ops
      BY <1>1, <1>2, <1>3, <2>6, <3>1
    <3>3. r = <<o>> \o Tail(q)
      BY <2>4, <2>5, <3>1
    <3>4. QueueFor(r, boot) /\ r # << >> /\ Head(r) = o
      BY ONLY <3>2, <3>3, GoesOnIs
    <3>. QED  BY <3>1, <3>4
  <2>8. boot' = boot /\ RunsIn(queue', "restore") /\ ~ RunsIn(queue', "close")
    BY <1>7, <2>6, <2>7 DEF RestoreAnswer, RunsIn
  <2>9. ASSUME NEW t, Settled(t), Now' = t, t.persisting = s.persisting
        PROVE  IInv'
    BY <1>1, <1>2, <1>3, <2>7, <2>8, <2>9 DEF IInv, Holds, BootFor, MannedFor, CloseFor
  <2>10. CASE UNCHANGED <<stage, doc, overlay, keys>>
    <3>1. Now' = s
      BY <1>0, <2>10 DEF Now
    <3>. QED  BY <1>1, <2>9, <3>1
  <2>11. CASE NextId(Now) \in ViewIds /\ Becomes(Place(Now, op.plan.open[i]))
    <3>1. PICK t : t = Place(s, op.plan.open[i])
      OBVIOUS
    <3>2. PICK v \in ViewIds : v = NextId(s)
      BY <1>0, <2>11
    <3>3. Placed(t) /\ KeysOk(t) /\ t.persisting = s.persisting
      BY <1>1, <2>3, <3>1, <3>2, PlaceIs
    <3>4. Follows(t)
      BY <1>1, <1>3, <3>3 DEF Follows
    <3>5. Settled(t)
      BY <3>3, <3>4 DEF Settled, Sound
    <3>6. Now' = t
      BY <1>0, <2>11, <3>1, <3>3, BecomesIs DEF Placed
    <3>. QED  BY <2>9, <3>3, <3>5, <3>6
  <2>. QED  BY <2>4, <2>10, <2>11
<1>8. CASE RestoreEnds
  <2>1. Finished /\ boot' = "open" /\ Becomes(Persist([Restored(Now, op.plan) EXCEPT !.persisting = TRUE]))
    BY <1>3, <1>8 DEF RestoreEnds
  <2>2. PICK r : r = Restored(s, op.plan)
    OBVIOUS
  <2>3. Settled(r) /\ (r.active = None) = (r.items = << >>)
    BY <1>1, <1>3, <2>2, RestoredIs
  <2>4. PICK t : t = Persist([r EXCEPT !.persisting = TRUE])
    OBVIOUS
  <2>5. Settled(t) /\ t.items = r.items /\ t.active = r.active
    BY <2>3, <2>4, UpStep
  <2>6. Now' = t
    BY <1>0, <2>1, <2>2, <2>4, <2>5, BecomesIs DEF Settled, Sound, Placed
  <2>. QED  BY <1>5, <2>1, <2>3, <2>5, <2>6
<1>. QED  BY <1>6, <1>7, <1>8

\* The sidebar renders, the registry answers, and the window opens its first view.
LEMMA BootStep ==
    ASSUME IInv, Update \/ ReleaseLeftovers \/ OpenFirst
    PROVE  IInv'
<1>0. PICK s : s = Now
  OBVIOUS
<1>1. Holds(s, queue, boot, left) /\ Settled(s) /\ QueueFor(queue, boot)
  BY <1>0 DEF IInv, Holds
<1>2. CASE Update
  <2>1. PICK t : t = Persist(s)
    OBVIOUS
  <2>2. Settled(t) /\ Stays(s, t)
    BY <1>1, <2>1, PersistStays DEF Settled, Sound
  <2>. QED  BY <1>0, <1>2, <2>1, <2>2, StaysStep DEF Update
<1>3. CASE ReleaseLeftovers
  <2>1. Now' = s /\ queue' = queue /\ boot = "release" /\ boot' = "restore" /\ left' \subseteq Names
    BY <1>0, <1>1, <1>3 DEF ReleaseLeftovers, Now, Holds
  <2>2. QueueFor(queue, "restore")
    BY <1>1, <2>1 DEF QueueFor
  <2>. QED  BY <1>1, <2>1, <2>2 DEF IInv, Holds, BootFor, MannedFor, CloseFor
<1>4. CASE OpenFirst
  <2>1. Now' = s /\ boot = "open" /\ boot' = "up" /\ left' = left
    BY <1>0, <1>4 DEF OpenFirst, Now
  <2>2. PICK op : op = Op("open", Scratch, None, FALSE)
    OBVIOUS
  <2>3. op \in Ops /\ ~ op.running /\ op.kind # "restore"
    <3>1. Scratch \in Goes
      BY DEF Goes
    <3>. QED  BY <2>2, <3>1, OpIs
  <2>4. queue' = queue \/ queue' = Append(queue, op)
    BY <1>4, <2>2 DEF OpenFirst
  <2>5. QueueFor(queue, "up")
    BY <1>1, <2>1 DEF QueueFor
  <2>6. /\ QueueFor(queue', "up")
        /\ \A kind : RunsIn(queue', kind) => RunsIn(queue, kind) /\ Head(queue') = Head(queue)
    <3>1. PICK q : q = queue
      OBVIOUS
    <3>2. QueueFor(q, "up")
      BY <2>5, <3>1
    <3>3. /\ QueueFor(Append(q, op), "up")
          /\ \A kind : RunsIn(Append(q, op), kind) => RunsIn(q, kind) /\ Head(Append(q, op)) = Head(q)
      BY ONLY <2>3, <3>2, AsksIs
    <3>. QED  BY <2>4, <3>1, <3>2, <3>3
  <2>7. ~ RunsIn(queue, "restore")
    <3>1. queue # << >> => (Head(queue).kind = "restore" => boot = "restoring")
      BY <1>1, TailIs
    <3>. QED  BY <2>1, <3>1 DEF RunsIn
  <2>. QED  BY <1>1, <2>1, <2>6, <2>7 DEF IInv, Holds, BootFor, MannedFor, CloseFor
<1>. QED  BY <1>2, <1>3, <1>4

\* A document boots.
LEMMA BootsStep ==
    ASSUME IInv, NEW v \in ViewIds, Boots(v)
    PROVE  IInv'
<1>0. PICK s : s = Now
  OBVIOUS
<1>1. /\ Settled(s) /\ s \in Stages /\ s.doc = doc /\ s.items = stage.items /\ s.persisting = stage.persisting
      /\ s.active = stage.active
  BY <1>0, NowIs DEF IInv, Holds, Settled, Sound, Placed
<1>2. PICK name \in {doc[v].asked, Scratch} :
          /\ doc[v].phase = "loading" /\ UNCHANGED <<queue, left, boot>>
          /\ Becomes(Ready([Now EXCEPT !.doc[v].name = name,
                                       !.doc[v].kept = Now.doc[v].kept /\ name = doc[v].asked], v))
  BY DEF Boots
<1>4. name \in Goes
  <2>1. s.doc[v] \in Docs
    BY <1>1 DEF Stages
  <2>2. s.doc[v].asked \in Goes /\ Scratch \in Goes
    BY <2>1 DEF Docs, Goes
  <2>. QED  BY <1>1, <1>2, <2>2
<1>5. PICK t : t = Ready(Booted(s, v, name), v)
  OBVIOUS
<1>6. /\ Settled(t) /\ t.items = s.items /\ t.overlay = s.overlay /\ t.persisting = s.persisting
      /\ s.active # None => t.active # None
  <2>1. s.doc[v].phase = "loading" /\ Settled(s) /\ v \in ViewIds
    BY <1>1, <1>2
  <2>. QED  BY ONLY <1>4, <1>5, <2>1, BootsIs
<1>7. Becomes(t)
  BY <1>0, <1>1, <1>2, <1>5 DEF Booted
<1>. QED  BY <1>1, <1>2, <1>6, <1>7, ActsOn

\* The page of one view loads again.
LEMMA FrameStep ==
    ASSUME IInv, NEW v \in ToSet(stage.items), FrameReload(v)
    PROVE  IInv'
<1>0. PICK s : s = Now
  OBVIOUS
<1>1. Settled(s) /\ s \in Stages /\ Core(s) /\ s.doc = doc /\ v \in ViewIds /\ Holds(s, queue, boot, left)
  BY <1>0, NowIs, NowOpen DEF IInv, Holds, Settled, Sound, Placed
<1>2. s.doc[v] \in Docs /\ s.doc[v].phase = "live" /\ (s.doc[v].kept => s.doc[v].name = s.doc[v].asked)
  BY <1>1 DEF FrameReload, IsLive, Stages, Core
<1>3. PICK e : e = [NoDoc EXCEPT !.phase = "loading", !.asked = doc[v].asked, !.name = doc[v].asked, !.kept = doc[v].kept]
  OBVIOUS
<1>4. e \in Docs /\ e.phase = "loading" /\ e.asked = s.doc[v].asked /\ e.name = s.doc[v].asked /\ e.kept = s.doc[v].kept
  <2>1. None \in Goes
    BY DEF Goes
  <2>2. s.doc[v].asked \in Goes /\ s.doc[v].kept \in BOOLEAN
    BY <1>2 DEF Docs
  <2>. QED  BY <1>1, <1>3, <2>1, <2>2 DEF NoDoc, Docs
<1>5. PICK t : t = [s EXCEPT !.doc = [s.doc EXCEPT ![v] = e]]
  OBVIOUS
<1>6. /\ Settled(t) /\ t.items = s.items /\ t.overlay = s.overlay /\ t.persisting = s.persisting
      /\ t.active = s.active
  <2>1. /\ Settled(s) /\ v \in ViewIds /\ e \in Docs /\ s.doc[v].phase = "live" /\ e.phase \in {"loading", "live"}
        /\ e.phase = "live" => e.suspended = s.doc[v].suspended /\ e.hidden = s.doc[v].hidden
        /\ e.kept => s.doc[v].kept /\ e.name = s.doc[v].name /\ e.name = e.asked
    BY <1>1, <1>2, <1>4
  <2>. QED  BY <1>5, <2>1, DocIs
<1>7. doc' = [s.doc EXCEPT ![v] = e] /\ UNCHANGED <<stage, overlay, keys, queue, left, boot>>
  BY <1>1, <1>3 DEF FrameReload
<1>8. Now' = t
  BY <1>0, <1>5, <1>7 DEF Now
<1>9. Holds(t, queue, boot, left)
  BY <1>1, <1>6, HoldsOn
<1>. QED  BY <1>7, <1>8, <1>9 DEF IInv

\* A page that starts has no view.
LEMMA FreshHolds ==
    ASSUME NEW d \in [ViewIds -> Docs], NEW r \in Records, NEW l, l \subseteq Names,
           \A v \in ViewIds : d[v].phase \in {"none", "gone"} /\ d[v].name = d[v].asked,
           \E n \in 0 .. MaxViews : \A v \in ViewIds : d[v].phase # "none" <=> v <= n,
           NEW t,
           t = [items |-> << >>, recent |-> << >>, active |-> None, shown |-> << >>, equal |-> TRUE,
                pending |-> None, told |-> [v \in ViewIds |-> None], persisting |-> FALSE, stored |-> r,
                doc |-> d, overlay |-> FALSE, keys |-> Shell]
    PROVE  Holds(t, << >>, "release", l)
<1>1. /\ t.items = << >> /\ t.recent = << >> /\ t.active = None /\ t.shown = << >> /\ t.pending = None
      /\ t.doc = d /\ t.keys = Shell /\ t.persisting = FALSE
  OBVIOUS
<1>2. << >> \in Seq(ViewIds) /\ ToSet(<< >>) = {} /\ IsInjective(<< >>) /\ << >> \in Seq(Ops) /\ Len(<< >>) = 0
  BY DEF ToSet, IsInjective
<1>3. t \in Stages
  <2>1. [v \in ViewIds |-> None] \in [ViewIds -> BOOLEAN \cup {None}]
    OBVIOUS
  <2>. QED  BY <1>2, <2>1 DEF Stages
<1>4. Core(t)
  <2>1. Open3(t) = {}
    BY <1>1 DEF Open3
  <2>2. \A v \in ViewIds : t.doc[v].kept => t.doc[v].name = t.doc[v].asked
    BY <1>1
  <2>. QED  BY <1>1, <1>2, <2>1, <2>2 DEF Core
<1>5. Cols(t) /\ Knows(t) /\ KeysOk(t) /\ Follows(t)
  BY <1>1, <1>2 DEF Cols, Empty, Knows, KeysOk, KeysSeen, Follows
<1>6. QueueFor(<< >>, "release")
  BY <1>2 DEF QueueFor
<1>7. BootFor(t, "release") /\ MannedFor(t, << >>) /\ CloseFor(t, << >>)
  BY <1>1 DEF BootFor, MannedFor, CloseFor, RunsIn
<1>. QED  BY <1>3, <1>4, <1>5, <1>6, <1>7 DEF Holds, Settled, Sound, Placed, KeysOk

\* No document yet.
LEMMA NoDocIs == NoDoc \in Docs /\ NoDoc.phase = "none" /\ NoDoc.name = NoDoc.asked
<1>1. None \in Goes
  BY DEF Goes
<1>. QED  BY <1>1 DEF NoDoc, Docs

\* The page loads again.
LEMMA ReloadStep ==
    ASSUME IInv, Reload
    PROVE  IInv'
<1>0. PICK s : s = Now
  OBVIOUS
<1>1. s \in Stages /\ Core(s) /\ s.doc = doc /\ s.stored = stage.stored
  BY <1>0, NowIs DEF IInv, Holds, Settled, Sound, Placed
<1>2. PICK d : d = [v \in ViewIds |-> IF doc[v].phase = "none" THEN NoDoc ELSE [NoDoc EXCEPT !.phase = "gone"]]
  OBVIOUS
<1>3. PICK g : g = [NoDoc EXCEPT !.phase = "gone"]
  OBVIOUS
<1>4. g \in Docs /\ g.phase = "gone" /\ g.name = g.asked
  <2>1. None \in Goes
    BY DEF Goes
  <2>. QED  BY <1>3, <2>1 DEF NoDoc, Docs
<1>5. \A v \in ViewIds : d[v] = IF s.doc[v].phase = "none" THEN NoDoc ELSE g
  BY <1>1, <1>2, <1>3
<1>6. d \in [ViewIds -> Docs] /\ \A v \in ViewIds : d[v].phase \in {"none", "gone"} /\ d[v].name = d[v].asked
  BY <1>2, <1>4, <1>5, NoDocIs
<1>7. \E n \in 0 .. MaxViews : \A v \in ViewIds : d[v].phase # "none" <=> v <= n
  <2>1. PICK n \in 0 .. MaxViews : \A v \in ViewIds : s.doc[v].phase # "none" <=> v <= n
    BY <1>1 DEF Core
  <2>2. \A v \in ViewIds : d[v].phase # "none" <=> s.doc[v].phase # "none"
    BY <1>4, <1>5, NoDocIs
  <2>. QED  BY <2>1, <2>2
<1>8. PICK r \in Records : r = stage.stored
  BY <1>1 DEF Stages
<1>9. /\ stage' = [items |-> << >>, recent |-> << >>, active |-> None, shown |-> << >>, equal |-> TRUE,
                   pending |-> None, told |-> [v \in ViewIds |-> None], persisting |-> FALSE, stored |-> r]
      /\ doc' = d /\ overlay' = FALSE /\ keys' = Shell /\ queue' = << >> /\ boot' = "release" /\ left' \subseteq Names
  BY <1>2, <1>8 DEF Reload
<1>10. PICK t : t = [items |-> << >>, recent |-> << >>, active |-> None, shown |-> << >>, equal |-> TRUE,
                     pending |-> None, told |-> [v \in ViewIds |-> None], persisting |-> FALSE, stored |-> r,
                     doc |-> d, overlay |-> FALSE, keys |-> Shell]
  OBVIOUS
<1>11. Now' = t
  BY <1>9, <1>10 DEF Now
<1>12. PICK l : l = left'
  OBVIOUS
<1>13. Holds(t, << >>, "release", l)
  <2>1. l \subseteq Names
    BY <1>9, <1>12
  <2>. QED  BY ONLY <1>6, <1>7, <1>8, <1>10, <2>1, FreshHolds
<1>. QED  BY <1>9, <1>11, <1>12, <1>13 DEF IInv

\* It holds of the first page.
LEMMA InitHolds ==
    ASSUME Init
    PROVE  IInv
<1>1. PICK d : d = [v \in ViewIds |-> NoDoc]
  OBVIOUS
<1>2. d \in [ViewIds -> Docs] /\ \A v \in ViewIds : d[v].phase \in {"none", "gone"} /\ d[v].name = d[v].asked
  BY <1>1, NoDocIs
<1>3. \E n \in 0 .. MaxViews : \A v \in ViewIds : d[v].phase # "none" <=> v <= n
  <2>1. 0 \in 0 .. MaxViews /\ \A v \in ViewIds : ~ (v <= 0)
    BY StageAssumption DEF ViewIds
  <2>2. \A v \in ViewIds : ~ (d[v].phase # "none")
    BY <1>1, NoDocIs
  <2>. QED  BY <2>1, <2>2
<1>4. PICK r \in Records : r = Nothing
  <2>1. Nothing \in Records
    BY DEF Nothing, Record, Records, Goes
  <2>. QED  BY <2>1
<1>5. PICK t : t = [items |-> << >>, recent |-> << >>, active |-> None, shown |-> << >>, equal |-> TRUE,
                    pending |-> None, told |-> [v \in ViewIds |-> None], persisting |-> FALSE, stored |-> r,
                    doc |-> d, overlay |-> FALSE, keys |-> Shell]
  OBVIOUS
<1>6. Now = t /\ queue = << >> /\ boot = "release" /\ left = {}
  BY <1>1, <1>4, <1>5 DEF Init, Now
<1>7. {} \subseteq Names
  OBVIOUS
<1>8. Holds(t, << >>, "release", {})
  BY ONLY <1>2, <1>3, <1>4, <1>5, <1>7, FreshHolds
<1>. QED  BY <1>6, <1>8 DEF IInv

\* It holds after every step.
LEMMA StepHolds ==
    ASSUME IInv, [Next]_vars
    PROVE  IInv'
<1>1. CASE Command
  <2>1. UNCHANGED <<left, boot>>
    BY <1>1 DEF Command
  <2>2. CASE Open \/ Close
    BY <2>1, <2>2, AsksStep
  <2>3. CASE ShowSlot \/ CycleWorkspace \/ StepToColumn \/ RemoveFromSplit \/ ShowActiveAlone
    BY <2>1, <2>3, MovesStep
  <2>4. CASE DragGutter \/ Click \/ OverlayOpens \/ OverlayCloses \/ WindowFocused
    BY <2>1, <2>4, TouchesStep
  <2>5. CASE \E v \in ToSet(stage.items) : Promote(v)
    BY <2>1, <2>5, PromoteStep
  <2>. QED  BY <1>1, <2>2, <2>3, <2>4, <2>5 DEF Command
<1>2. CASE Answer
  <2>1. CASE StartOpen \/ OpenAnswer
    BY <2>1, OpenStep
  <2>2. CASE StartClose \/ CloseAnswer
    BY <2>2, CloseStep
  <2>3. CASE StartRestore \/ RestoreAnswer \/ RestoreEnds
    BY <2>3, RestoreStep
  <2>4. CASE Update \/ ReleaseLeftovers \/ OpenFirst
    BY <2>4, BootStep
  <2>5. CASE RestoreSaved
    BY <2>5, SavedStep
  <2>6. CASE \E v \in ViewIds : Boots(v)
    BY <2>6, BootsStep
  <2>. QED  BY <1>2, <2>1, <2>2, <2>3, <2>4, <2>5, <2>6 DEF Answer
<1>3. CASE Reload
  BY <1>3, ReloadStep
<1>4. CASE \E v \in ToSet(stage.items) : FrameReload(v)
  BY <1>4, FrameStep
<1>5. CASE UNCHANGED vars
  BY <1>5 DEF IInv, Now, vars
<1>. QED  BY <1>1, <1>2, <1>3, <1>4, <1>5 DEF Next

\* What the window shows is what it promises.
LEMMA HoldsWell ==
    ASSUME IInv
    PROVE  ViewsKnowTheirPlace /\ KeysStayInPlace /\ StoreFollows
<1>0. PICK s : s = Now
  OBVIOUS
<1>1. /\ s \in Stages /\ Core(s) /\ Cols(s) /\ Knows(s) /\ KeysSeen(s) /\ KeysOk(s) /\ Follows(s)
      /\ QueueFor(queue, boot) /\ BootFor(s, boot) /\ MannedFor(s, queue) /\ left \subseteq Names
  BY <1>0 DEF IInv, Holds, Settled, Sound, Placed
<1>2. /\ s.items = stage.items /\ s.recent = stage.recent /\ s.active = stage.active /\ s.shown = stage.shown
      /\ s.equal = stage.equal /\ s.pending = stage.pending /\ s.told = stage.told
      /\ s.persisting = stage.persisting /\ s.stored = stage.stored
      /\ s.doc = doc /\ s.overlay = overlay /\ s.keys = keys
  BY <1>0, NowIs
<1>3. TypeOK
  <2>1. ToSet(stage.items) = {v \in ViewIds : doc[v].phase \in {"loading", "live"}}
    BY <1>1, <1>2 DEF Core, Open3
  <2>2. \A list \in {stage.recent, stage.shown} : ToSet(list) \subseteq ViewIds
    BY <1>1, <1>2, ListFacts DEF Stages
  <2>3. stage.active \in ViewIds \cup {None} /\ stage.pending \in ToSet(stage.items) \cup {None}
    BY <1>1, <1>2 DEF Stages, Core, Has
  <2>4. /\ stage.equal \in BOOLEAN /\ stage.persisting \in BOOLEAN /\ overlay \in BOOLEAN
        /\ stage.told \in [ViewIds -> BOOLEAN \cup {None}] /\ keys \in ViewIds \cup {Shell}
    BY <1>1, <1>2 DEF Stages
  <2>5. doc \in [ViewIds -> [phase : {"none", "loading", "live", "gone"}, asked : Names \cup {Scratch, None},
                             name : Names \cup {Scratch, None}, suspended : BOOLEAN, hidden : BOOLEAN, kept : BOOLEAN]]
    BY <1>1, <1>2 DEF Stages, Docs, Goes
  <2>6. boot \in {"release", "restore", "restoring", "open", "up"}
    BY <1>1 DEF BootFor
  <2>. QED  BY <1>1, <2>1, <2>2, <2>3, <2>4, <2>5, <2>6 DEF TypeOK
<1>4. ColumnsHold
  <2>1. IsInjective(stage.items)
    BY <1>1, <1>2 DEF Core
  <2>2. /\ IsInjective(stage.shown) /\ Len(stage.shown) <= MaxColumns /\ ToSet(stage.shown) \subseteq ToSet(stage.items)
        /\ IF stage.active = None THEN stage.shown = << >> ELSE Has(stage.shown, stage.active)
    <3>1. CASE Empty(s)
      <4>1. stage.shown = << >> /\ stage.active = None
        BY <1>2, <3>1 DEF Empty
      <4>2. IsInjective(<< >>) /\ Len(<< >>) <= MaxColumns /\ ToSet(<< >>) = {}
        BY ColumnsAssumption DEF IsInjective, ToSet
      <4>. QED  BY <4>1, <4>2
    <3>2. CASE Fit(s, ToSet(s.items))
      <4>1. s.active \in ToSet(s.shown) /\ s.shown \in Seq(ViewIds)
        BY <3>2 DEF Fit
      <4>2. s.active # None
        BY <4>1, ListFacts, StageAssumption
      <4>. QED  BY <1>2, <3>2, <4>1, <4>2 DEF Fit, Has
    <3>. QED  BY <1>1, <3>1, <3>2 DEF Cols
  <2>3. boot \in {"open", "up"} => (stage.active = None) = (stage.items = << >>)
    <3>1. SUFFICES ASSUME boot \in {"open", "up"} PROVE ~ RunsIn(queue, "restore")
      BY <1>1, <1>2 DEF MannedFor
    <3>2. queue # << >> => (Head(queue).kind = "restore" => boot = "restoring")
      BY <1>1, TailIs
    <3>. QED  BY <3>1, <3>2 DEF RunsIn
  <2>. QED  BY <1>3, <2>1, <2>2, <2>3 DEF ColumnsHold
<1>5. ViewsKnowTheirPlace
  BY <1>1, <1>2, <1>4 DEF ViewsKnowTheirPlace, Knows
<1>6. KeysStayInPlace
  BY <1>1, <1>2 DEF KeysStayInPlace, KeysOk, KeysSeen
<1>7. StoreFollows
  BY <1>0, <1>1, <1>2 DEF StoreFollows, Follows, Goes
<1>. QED  BY <1>5, <1>6, <1>7

\* The invariant holds throughout.
THEOREM WindowHolds == Spec => []IInv
BY InitHolds, StepHolds, PTL DEF Spec

\* The columns are open views, at most MaxColumns and none twice, and every document
\* that has booted knows whether it is hidden and whether it has the keyboard.
THEOREM ViewsAreTold == Spec => []ViewsKnowTheirPlace
BY WindowHolds, HoldsWell, PTL

\* The keyboard is in the shell or in the active view, and in no view under an overlay.
THEOREM KeysAreInPlace == Spec => []KeysStayInPlace
BY WindowHolds, HoldsWell, PTL

\* What is stored is what is open, once the boot has restored.
THEOREM StoreIsKept == Spec => []StoreFollows
BY WindowHolds, HoldsWell, PTL

====
