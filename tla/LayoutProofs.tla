---------------------------- MODULE LayoutProofs ----------------------------
(***************************************************************************)
(* What TLAPS proves about Layout, for any number of panes, trees of any   *)
(* shape and depth, and any steps of a ratio:                              *)
(*   the page catches up with the tree, and what is saved is on screen;    *)
(*   the keyboard and the broadcast are where they are seen;               *)
(*   a drop moves one pane and the others keep their order.                *)
(*                                                                         *)
(* The tree is two maps over paths.  Shape says which two sets of paths    *)
(* are the leaves and the splits of a binary tree: both children of a      *)
(* split are nodes, what is above a node is a split, and there is a leaf   *)
(* more than there are splits.  Tree adds that a pane has one leaf.  The   *)
(* proofs show that putting a pane beside another (With), taking one out   *)
(* (Without: its sibling's subtree is lifted to the parent's place),       *)
(* swapping two and setting a ratio make trees of trees.                   *)
(*                                                                         *)
(* IInv is Tree, the rest of PageFollowsTree and KeysGoWhereSeen: each     *)
(* needs the other, as what a pane is told depends on the tree and on the  *)
(* zoom, and a slide that ends renders the tree of then.                   *)
(*                                                                         *)
(* The order of the panes is Precedes: one is under the first child of a   *)
(* node, the other under its second.  It is total on leaves, FirstOf finds *)
(* the first of some of them, and With and Without keep it.                *)
(***************************************************************************)
EXTENDS Layout, SequenceTheorems, FiniteSetTheorems, WellFoundedInduction, TLAPS

-----------------------------------------------------------------------------
(* Paths. *)

\* Paths as the proofs handle them: their own names keep the sequences folded.
Paths == Seq({1, 2})
Join(u, v) == u \o v
Root == << >>
One(i) == <<i>>
Child(u, i) == Append(u, i)

\* A path and how it goes on: the sum of two paths.
LEMMA Joins ==
    ASSUME NEW u \in Paths, NEW v \in Paths
    PROVE  /\ u \o v \in Paths /\ Len(u) \in Nat /\ Len(v) \in Nat /\ Len(u \o v) = Len(u) + Len(v)
           /\ \A i \in 1 .. Len(u) : (u \o v)[i] = u[i]
           /\ \A i \in 1 .. Len(v) : (u \o v)[Len(u) + i] = v[i]
<1>1. /\ u \o v \in Seq({1, 2}) /\ Len(u \o v) = Len(u) + Len(v)
      /\ \A i \in 1 .. Len(u) + Len(v) : (u \o v)[i] = IF i <= Len(u) THEN u[i] ELSE v[i - Len(u)]
  BY ConcatProperties DEF Paths
<1>2. Len(u) \in Nat /\ Len(v) \in Nat
  BY LenProperties DEF Paths
<1>3. ASSUME NEW i \in 1 .. Len(v) PROVE (u \o v)[Len(u) + i] = v[i]
  <2>1. Len(u) + i \in 1 .. Len(u) + Len(v) /\ ~ (Len(u) + i <= Len(u)) /\ Len(u) + i - Len(u) = i
    BY <1>2
  <2>. QED  BY <1>1, <2>1
<1>4. ASSUME NEW i \in 1 .. Len(u) PROVE (u \o v)[i] = u[i]
  BY <1>1, <1>2
<1>. QED  BY <1>1, <1>2, <1>3, <1>4 DEF Paths

\* Paths of one length with the same turns are one path.
LEMMA SameTurns ==
    ASSUME NEW u \in Paths, NEW v \in Paths, Len(u) = Len(v), \A i \in 1 .. Len(u) : u[i] = v[i]
    PROVE  u = v
BY SeqEqual DEF Paths

\* The way from the root is the way on from there.
LEMMA Chain ==
    /\ \A u, v \in Paths : Join(u, v) \in Paths
    /\ \A u, v, w \in Paths : Join(Join(u, v), w) = Join(u, Join(v, w))
    /\ \A u, v, w \in Paths : Join(u, v) = Join(u, w) => v = w
    /\ \A u \in Paths : Join(u, Root) = u /\ Join(Root, u) = u
    /\ \A u, v \in Paths : Join(u, v) = u => v = Root
    /\ Root \in Paths
<1>0. Root \in Seq({1, 2})
  BY EmptySeq DEF Root
<1>1. ASSUME NEW u \in Paths, NEW v \in Paths PROVE Join(u, v) \in Paths
  BY Joins DEF Join
<1>2. ASSUME NEW u \in Paths, NEW v \in Paths, NEW w \in Paths PROVE Join(Join(u, v), w) = Join(u, Join(v, w))
  BY ConcatAssociative DEF Paths, Join
<1>3. ASSUME NEW u \in Paths, NEW v \in Paths, NEW w \in Paths, Join(u, v) = Join(u, w) PROVE v = w
  <2>0. u \in Seq({1, 2}) /\ v \in Seq({1, 2}) /\ w \in Seq({1, 2})
    BY DEF Paths
  <2>1. \A S : \A s, t, x \in Seq(S) : s \o t = s \o x => t = x
    BY ConcatSimplifications, Zenon
  <2>2. \A S : \A s, t, x \in Seq(S) : Join(s, t) = Join(s, x) => t = x
    BY <2>1, Zenon DEF Join
  <2>. HIDE <2>1
  <2>. QED  BY <1>3, <2>0, <2>2
<1>4. ASSUME NEW u \in Paths PROVE Join(u, Root) = u /\ Join(Root, u) = u
  BY ConcatEmptySeq DEF Paths, Join, Root
<1>5. ASSUME NEW u \in Paths, NEW v \in Paths, Join(u, v) = u PROVE v = Root
  <2>1. Root \in Paths
    BY <1>0 DEF Paths
  <2>2. Join(u, v) = Join(u, Root)
    BY <1>4, <1>5
  <2>. QED  BY <1>3, <2>1, <2>2
<1>. QED  BY <1>0, <1>1, <1>2, <1>3, <1>4, <1>5 DEF Paths

\* What goes on alike from one path is one path.
LEMMA Cancel ==
    \A u, v, w : u \in Paths /\ v \in Paths /\ w \in Paths /\ Join(u, v) = Join(u, w) => v = w
BY Chain

\* A turn more.
LEMMA Turn ==
    ASSUME NEW u \in Paths, NEW i \in {1, 2}
    PROVE  /\ One(i) \in Paths /\ Child(u, i) = Join(u, One(i)) /\ Child(u, i) \in Paths
           /\ Up(Child(u, i)) = u /\ Side(Child(u, i)) = i /\ Child(u, i) # Root
           /\ One(i) # Root /\ Len(One(i)) = 1 /\ One(i)[1] = i
<1>0. u \in Seq({1, 2}) /\ Len(u) \in Nat
  BY LenProperties DEF Paths
<1>1. Append(u, i) = u \o <<i>>
  BY <1>0, AppendIsConcat
<1>2. /\ Append(u, i) \in Seq({1, 2}) /\ Len(Append(u, i)) = Len(u) + 1
      /\ \A k \in 1 .. Len(u) : Append(u, i)[k] = u[k]
      /\ Append(u, i)[Len(u) + 1] = i
  BY <1>0, AppendProperties
<1>3. Side(Append(u, i)) = i
  BY <1>2 DEF Side, Last
<1>4. PICK q : q = Append(u, i)
  OBVIOUS
<1>5. \A k \in 1 .. Len(u) : q[k] \in {1, 2}
  BY <1>0, <1>2, <1>4, ElementOfSeq
<1>6. SubSeq(q, 1, Len(u)) \in Seq({1, 2}) /\ Len(SubSeq(q, 1, Len(u))) = Len(u)
      /\ \A k \in 1 .. Len(u) : SubSeq(q, 1, Len(u))[k] = q[k]
  <2>1. /\ SubSeq(q, 1, Len(u)) \in Seq({1, 2})
        /\ Len(SubSeq(q, 1, Len(u))) = IF 1 <= Len(u) THEN Len(u) - 1 + 1 ELSE 0
        /\ \A k \in 1 .. Len(u) - 1 + 1 : SubSeq(q, 1, Len(u))[k] = q[1 + k - 1]
    BY <1>0, <1>5, SubSeqProperties
  <2>. QED  BY <1>0, <2>1
<1>7. SubSeq(q, 1, Len(u)) = u
  BY <1>0, <1>2, <1>4, <1>6, SameTurns DEF Paths
<1>8. Up(Append(u, i)) = u
  BY <1>0, <1>2, <1>4, <1>7 DEF Up, Front
<1>9. One(i) \in Seq({1, 2}) /\ One(i) # Root /\ Len(One(i)) = 1 /\ One(i)[1] = i
  BY DEF One, Root
<1>10. Append(u, i) = Join(u, One(i))
  BY <1>1 DEF Join, One
<1>11. Append(u, i) # << >>
  BY <1>0, AppendProperties
<1>. QED  BY <1>2, <1>3, <1>8, <1>9, <1>10, <1>11 DEF Paths, Child, Root

\* Every path but the root's is a turn behind another.
LEMMA LastTurn ==
    ASSUME NEW q \in Paths, q # Root
    PROVE  /\ Up(q) \in Paths /\ Side(q) \in {1, 2} /\ q = Child(Up(q), Side(q))
<1>1. PICK s \in Seq({1, 2}), e \in {1, 2} : q = Append(s, e)
  BY SequenceEmptyOrAppend DEF Paths, Root
<1>2. q = Child(s, e)
  BY <1>1 DEF Child
<1>. QED  BY <1>1, <1>2, Turn DEF Paths

\* What is behind a path, and which paths are behind it.
LEMMA Suffix ==
    ASSUME NEW u \in Paths, NEW w \in Paths
    PROVE  /\ SubSeq(u \o w, Len(u) + 1, Len(u \o w)) = w
           /\ SubSeq(u \o w, 1, Len(u)) = u
<1>0. PICK q, m, n : q = u \o w /\ m = Len(u) /\ n = Len(w)
  OBVIOUS
<1>1. /\ q \in Paths /\ m \in Nat /\ n \in Nat /\ Len(q) = m + n
      /\ \A i \in 1 .. m : q[i] = u[i]
      /\ \A i \in 1 .. n : q[m + i] = w[i]
  BY <1>0, Joins
<1>2. \A i \in 1 .. m + n : q[i] \in {1, 2}
  BY <1>1, ElementOfSeq DEF Paths
<1>3. PICK v : v = SubSeq(q, m + 1, m + n)
  OBVIOUS
<1>4. v \in Paths /\ Len(v) = n /\ \A i \in 1 .. n : v[i] = q[m + i]
  <2>1. v \in Seq({1, 2}) /\ Len(v) = n /\ \A i \in 1 .. n : v[i] = q[m + i]
    <3>1. PICK a \in Int, b \in Int : a = m + 1 /\ b = m + n
      BY <1>1
    <3>2. \A i \in a .. b : q[i] \in {1, 2}
      BY <1>1, <1>2, <3>1
    <3>3. /\ SubSeq(q, a, b) \in Seq({1, 2}) /\ Len(SubSeq(q, a, b)) = IF a <= b THEN b - a + 1 ELSE 0
          /\ \A i \in 1 .. b - a + 1 : SubSeq(q, a, b)[i] = q[a + i - 1]
      BY <3>2, SubSeqProperties
    <3>4. IF a <= b THEN b - a + 1 = n ELSE n = 0
      BY <1>1, <3>1
    <3>5. \A i \in 1 .. n : i \in 1 .. b - a + 1 /\ a + i - 1 = m + i
      BY <1>1, <3>1
    <3>6. Len(v) = n
      BY <1>3, <3>1, <3>3, <3>4
    <3>7. \A i \in 1 .. n : v[i] = q[m + i]
      BY <1>3, <3>1, <3>3, <3>5
    <3>. QED  BY <1>3, <3>1, <3>3, <3>6, <3>7
  <2>. QED  BY <1>1, <2>1 DEF Paths
<1>5. v = w
  BY <1>0, <1>1, <1>4, SameTurns
<1>6. PICK a : a = SubSeq(q, 1, m)
  OBVIOUS
<1>7. a \in Paths /\ Len(a) = m /\ \A i \in 1 .. m : a[i] = q[i]
  <2>1. /\ a \in Seq({1, 2}) /\ Len(a) = IF 1 <= m THEN m - 1 + 1 ELSE 0
        /\ \A i \in 1 .. m - 1 + 1 : a[i] = q[1 + i - 1]
    <3>1. 1 \in Int /\ m \in Int /\ \A i \in 1 .. m : q[i] \in {1, 2}
      BY <1>1, <1>2
    <3>. QED  BY <1>6, <3>1, SubSeqProperties
  <2>. QED  BY <1>1, <2>1 DEF Paths
<1>8. a = u
  BY <1>0, <1>1, <1>7, SameTurns
<1>. QED  BY <1>0, <1>1, <1>3, <1>5, <1>6, <1>8

\* A path is before another when the other goes on from it.
LEMMA PrefixIs ==
    ASSUME NEW u \in Paths, NEW q \in Paths
    PROVE  IsPrefix(u, q) <=> \E w \in Paths : q = Join(u, w)
<1>0. Len(u) \in Nat /\ Len(q) \in Nat /\ SubSeq(u, 1, Len(u)) = u
  BY LenProperties, SubSeqFull DEF Paths
<1>1. ASSUME NEW w \in Paths, q = u \o w PROVE IsPrefix(u, q)
  <2>1. Len(u) <= Len(q)
    BY <1>0, <1>1, Joins
  <2>2. SubSeq(q, 1, Len(u)) = u
    BY <1>1, Suffix
  <2>. QED  BY <1>0, <2>1, <2>2 DEF IsPrefix
<1>2. ASSUME IsPrefix(u, q) PROVE \E w \in Paths : q = u \o w
  <2>1. Len(u) <= Len(q) /\ u = SubSeq(q, 1, Len(u))
    BY <1>0, <1>2 DEF IsPrefix
  <2>2. PICK w : w = SubSeq(q, Len(u) + 1, Len(q))
    OBVIOUS
  <2>3. u \o w = SubSeq(q, 1, Len(q))
    <3>1. 1 \in 1 .. Len(q) + 1 /\ Len(u) \in 1 - 1 .. Len(q) /\ Len(q) \in Len(u) .. Len(q)
      BY <1>0, <2>1
    <3>. QED  BY <2>1, <2>2, <3>1, ConcatAdjacentSubSeq DEF Paths
  <2>4. w \in Paths
    <3>1. \A i \in Len(u) + 1 .. Len(q) : q[i] \in {1, 2}
      BY <1>0, ElementOfSeq DEF Paths
    <3>. QED  BY <1>0, <2>2, <3>1, SubSeqProperties DEF Paths
  <2>. QED  BY <2>3, <2>4, SubSeqFull DEF Paths
<1>. QED  BY <1>1, <1>2 DEF Join

\* Of two paths that another goes on from, the longer goes on from the shorter.
LEMMA LongerBehind ==
    ASSUME NEW c \in Paths, NEW d \in Paths, NEW e \in Paths, NEW f \in Paths,
           Join(c, d) = Join(e, f), Len(c) <= Len(e)
    PROVE  \E x \in Paths : e = Join(c, x) /\ d = Join(x, f)
<1>0. Len(c) \in Nat /\ Len(e) \in Nat
  BY LenProperties DEF Paths
<1>1. \A i \in 1 .. Len(c) : c[i] = e[i]
  <2>. TAKE i \in 1 .. Len(c)
  <2>1. i \in 1 .. Len(e)
    BY <1>0
  <2>2. Join(c, d)[i] = c[i] /\ Join(e, f)[i] = e[i]
    BY <2>1, Joins DEF Join
  <2>. QED  BY <2>2
<1>2. SubSeq(e, 1, Len(c)) = c
  <2>1. PICK g : g = SubSeq(e, 1, Len(c))
    OBVIOUS
  <2>2. \A i \in 1 .. Len(c) : e[i] \in {1, 2}
    <3>1. \A i \in 1 .. Len(e) : e[i] \in {1, 2}
      BY ElementOfSeq DEF Paths
    <3>. QED  BY <1>0, <3>1
  <2>3. /\ g \in Seq({1, 2}) /\ Len(g) = IF 1 <= Len(c) THEN Len(c) - 1 + 1 ELSE 0
        /\ \A i \in 1 .. Len(c) - 1 + 1 : g[i] = e[1 + i - 1]
    <3>1. 1 \in Int /\ Len(c) \in Int
      BY <1>0
    <3>. QED  BY <2>1, <2>2, <3>1, SubSeqProperties
  <2>4. g \in Paths /\ Len(g) = Len(c) /\ \A i \in 1 .. Len(g) : g[i] = c[i]
    BY <1>0, <1>1, <2>3 DEF Paths
  <2>. QED  BY <2>1, <2>4, SameTurns
<1>3. SubSeq(c, 1, Len(c)) = c
  BY SubSeqFull DEF Paths
<1>4. PICK x \in Paths : e = Join(c, x)
  <2>1. IsPrefix(c, e)
    BY <1>2, <1>3 DEF IsPrefix
  <2>. QED  BY <2>1, PrefixIs
<1>5. Join(c, d) = Join(c, Join(x, f)) /\ Join(x, f) \in Paths
  BY <1>4, Chain
<1>6. d = Join(x, f)
  BY <1>5, Chain
<1>. QED  BY <1>4, <1>6

Same(u, v, a, b) == u \in Paths /\ v \in Paths /\ a \in Paths /\ b \in Paths /\ Join(u, v) = Join(a, b)

\* Two paths that another goes on from: one of them goes on from the other.
LEMMA OneBehindTheOther ==
    \A u, v, a, b : Same(u, v, a, b) =>
        \/ \E x \in Paths : a = Join(u, x) /\ v = Join(x, b)
        \/ \E x \in Paths : x # Root /\ u = Join(a, x) /\ b = Join(x, v)
<1>. SUFFICES ASSUME NEW u \in Paths, NEW v \in Paths, NEW a \in Paths, NEW b \in Paths, Join(u, v) = Join(a, b)
              PROVE  \/ \E x \in Paths : a = Join(u, x) /\ v = Join(x, b)
                     \/ \E x \in Paths : x # Root /\ u = Join(a, x) /\ b = Join(x, v)
  BY DEF Same
<1>1. Len(u) \in Nat /\ Len(a) \in Nat
  BY LenProperties DEF Paths
<1>2. CASE Len(u) <= Len(a)
  BY <1>2, LongerBehind
<1>3. CASE ~ (Len(u) <= Len(a))
  <2>1. Len(a) <= Len(u) /\ Join(a, b) = Join(u, v)
    BY <1>1, <1>3
  <2>2. PICK x \in Paths : u = Join(a, x) /\ b = Join(x, v)
    BY <2>1, LongerBehind
  <2>3. x # Root
    BY <1>1, <1>3, <2>2, Chain
  <2>. QED  BY <2>2, <2>3
<1>. QED  BY <1>2, <1>3

\* How long a path is that goes on.
LEMMA Longer ==
    /\ \A u, v \in Paths : Len(Join(u, v)) = Len(u) + Len(v)
    /\ \A u \in Paths : Len(u) \in Nat /\ (Len(u) = 0 <=> u = Root)
<1>1. \A u \in Paths : Len(u) \in Nat /\ (Len(u) = 0 <=> u = Root)
  BY EmptySeq, LenProperties DEF Paths, Root
<1>2. \A u, v \in Paths : Len(Join(u, v)) = Len(u) + Len(v)
  BY Joins DEF Join
<1>. QED  BY <1>1, <1>2

\* Only the root leads to itself.
LEMMA RootOnly ==
    \A x, w : x \in Paths /\ w \in Paths /\ Join(x, w) = Root => x = Root /\ w = Root
<1>. SUFFICES ASSUME NEW x \in Paths, NEW w \in Paths, Join(x, w) = Root PROVE x = Root /\ w = Root
  OBVIOUS
<1>1. Len(Join(x, w)) = 0
  BY Longer, Chain
<1>2. Len(x) \in Nat /\ Len(w) \in Nat /\ 0 = Len(x) + Len(w)
  BY <1>1, Longer
<1>3. \A m, n \in Nat : 0 = m + n => m = 0 /\ n = 0
  OBVIOUS
<1>4. Len(x) = 0 /\ Len(w) = 0
  BY <1>2, <1>3
<1>. QED  BY <1>4, Longer

\* A path begins with the turn it is made of.
LEMMA Begins ==
    \A i, w : i \in {1, 2} /\ w \in Paths => Join(One(i), w)[1] = i
<1>. SUFFICES ASSUME NEW i \in {1, 2}, NEW w \in Paths PROVE Join(One(i), w)[1] = i
  OBVIOUS
<1>1. PICK o \in Paths : o = One(i) /\ Len(o) = 1 /\ o[1] = i
  BY Turn, Chain
<1>2. 1 \in 1 .. Len(o)
  BY <1>1
<1>3. (o \o w)[1] = o[1]
  BY <1>2, Joins
<1>. QED  BY <1>1, <1>3 DEF Join

\* A path of one turn that goes on is that turn.
LEMMA OneLong ==
    \A x, w, i : x \in Paths /\ w \in Paths /\ i \in {1, 2} /\ One(i) = Join(x, w) => x = Root \/ w = Root
<1>. SUFFICES ASSUME NEW x \in Paths, NEW w \in Paths, NEW i \in {1, 2}, One(i) = Join(x, w), x # Root, w # Root PROVE FALSE
  OBVIOUS
<1>1. PICK q : q = One(i) /\ q = Join(x, w)
  OBVIOUS
<1>2. Len(q) = 1
  BY <1>1, Turn, Chain
<1>3. Len(q) = Len(x) + Len(w)
  BY <1>1, Longer
<1>4. Len(x) \in Nat /\ Len(x) # 0 /\ Len(w) \in Nat /\ Len(w) # 0
  BY Longer
<1>5. \A m, n \in Nat : m # 0 /\ n # 0 => 1 # m + n
  OBVIOUS
<1>. QED  BY <1>2, <1>3, <1>4, <1>5

-----------------------------------------------------------------------------
(* A subtree takes the place of its parent. *)

\* q is u or further down; what LiftedIs says the domain of a lifted map is, and
\* which of the paths it had they come from.
Under(u, q) == \E w \in Paths : q = Join(u, w)
LiftedSet(X, up, from) ==
    {q \in X : ~ Under(up, q)} \cup {Join(up, w) : w \in {x \in Paths : Join(from, x) \in X}}

Kept(X, up, from) == {q \in X : ~ Under(up, q) \/ Under(from, q)}

\* A path that is not the root's begins with a turn.
LEMMA FirstTurn ==
    ASSUME NEW w \in Paths, w # Root
    PROVE  \E i \in {1, 2}, x \in Paths : w = Join(One(i), x)
<1>1. w \in Seq({1, 2}) /\ Len(w) \in Nat \ {0}
  BY EmptySeq DEF Paths, Root
<1>2. SubSeq(w, 1, Len(w)) = <<w[1]>> \o SubSeq(w, 1 + 1, Len(w))
  <2>1. 1 \in 1 .. Len(w) /\ Len(w) \in 1 .. Len(w)
    BY <1>1
  <2>. QED  BY <1>1, <2>1, SubSeqRecursiveFirst
<1>3. SubSeq(w, 1, Len(w)) = w
  BY <1>1, SubSeqFull
<1>4. w[1] \in {1, 2}
  BY <1>1, ElementOfSeq
<1>5. SubSeq(w, 1 + 1, Len(w)) \in Paths
  <2>1. PICK a \in Int, n \in Int : a = 1 + 1 /\ n = Len(w)
    BY <1>1
  <2>2. \A i \in 1 .. Len(w) : w[i] \in {1, 2}
    BY <1>1, ElementOfSeq
  <2>3. \A i \in a .. n : w[i] \in {1, 2}
    BY <1>1, <2>1, <2>2
  <2>. QED  BY <2>1, <2>3, SubSeqProperties DEF Paths
<1>. QED  BY <1>2, <1>3, <1>4, <1>5 DEF Join, One

\* What the lifting of a subtree makes of a map over paths.
LEMMA LiftedIs ==
    ASSUME NEW f, DOMAIN f \subseteq Paths, NEW up \in Paths, NEW i \in {1, 2}
    PROVE  /\ DOMAIN Lifted(f, Child(up, i)) = LiftedSet(DOMAIN f, up, Child(up, i))
           /\ \A q \in DOMAIN f : ~ Under(up, q) => Lifted(f, Child(up, i))[q] = f[q]
           /\ \A w \in Paths : Join(Child(up, i), w) \in DOMAIN f =>
                  Lifted(f, Child(up, i))[Join(up, w)] = f[Join(Child(up, i), w)]
<1>z. PICK from : from = Child(up, i)
  OBVIOUS
<1>. DEFINE To(path) == up \o SubSeq(path, Len(from) + 1, Len(path))
            From(path) == from \o SubSeq(path, Len(up) + 1, Len(path))
            stays == {path \in DOMAIN f : ~ IsPrefix(up, path)}
            moves == {path \in DOMAIN f : IsPrefix(from, path)}
<1>0. from \in Paths /\ Up(from) = up
  BY <1>z, Turn
<1>1. Lifted(f, from) = [path \in stays \cup {To(m) : m \in moves} |-> IF path \in stays THEN f[path] ELSE f[From(path)]]
  BY <1>0 DEF Lifted
<1>2. \A w \in Paths : To(Join(from, w)) = Join(up, w) /\ From(Join(up, w)) = Join(from, w)
  <2>. TAKE w \in Paths
  <2>1. SubSeq(Join(from, w), Len(from) + 1, Len(Join(from, w))) = w
    BY <1>0, Suffix DEF Join
  <2>2. SubSeq(Join(up, w), Len(up) + 1, Len(Join(up, w))) = w
    BY <1>0, Suffix DEF Join
  <2>. QED  BY <2>1, <2>2 DEF Join
<1>3. \A q \in DOMAIN f : q \in stays <=> ~ Under(up, q)
  BY PrefixIs DEF Under
<1>4. \A q \in DOMAIN f : q \in moves <=> Under(from, q)
  BY <1>0, PrefixIs DEF Under
<1>5. \A w \in Paths : Join(up, w) \notin stays
  BY <1>3 DEF Under
<1>. HIDE DEF To, From, stays, moves
<1>6. stays = {q \in DOMAIN f : ~ Under(up, q)}
  BY <1>3 DEF stays
<1>7. {To(m) : m \in moves} = {Join(up, w) : w \in {x \in Paths : Join(from, x) \in DOMAIN f}}
  <2>1. ASSUME NEW m \in moves PROVE To(m) \in {Join(up, w) : w \in {x \in Paths : Join(from, x) \in DOMAIN f}}
    <3>1. m \in DOMAIN f
      BY DEF moves
    <3>2. PICK w \in Paths : m = Join(from, w)
      BY <1>4, <3>1 DEF Under
    <3>. QED  BY <1>2, <3>1, <3>2
  <2>2. ASSUME NEW w \in Paths, Join(from, w) \in DOMAIN f PROVE Join(up, w) \in {To(m) : m \in moves}
    <3>1. Join(from, w) \in moves
      BY <1>4, <2>2 DEF Under
    <3>. QED  BY <1>2, <3>1
  <2>. QED  BY <2>1, <2>2
<1>8. DOMAIN Lifted(f, from) = LiftedSet(DOMAIN f, up, from)
  BY <1>1, <1>6, <1>7 DEF LiftedSet
<1>9. \A q \in DOMAIN f : ~ Under(up, q) => Lifted(f, from)[q] = f[q]
  BY <1>1, <1>3
<1>10. ASSUME NEW w \in Paths, Join(from, w) \in DOMAIN f PROVE Lifted(f, from)[Join(up, w)] = f[Join(from, w)]
  <2>1. Join(up, w) \in {To(m) : m \in moves}
    BY <1>7, <1>10
  <2>. QED  BY <1>1, <1>2, <1>5, <2>1
<1>. QED  BY <1>z, <1>8, <1>9, <1>10

\* Who is under a node and under its child.
LEMMA UnderChild ==
    ASSUME NEW up \in Paths, NEW i \in {1, 2}
    PROVE  /\ Child(up, i) \in Paths
           /\ \A w \in Paths : Join(Child(up, i), w) = Join(up, Join(One(i), w)) /\ Join(One(i), w) \in Paths
           /\ \A q : Under(Child(up, i), q) => Under(up, q) /\ q # up
<1>z. PICK from : from = Child(up, i)
  OBVIOUS
<1>0. from \in Paths /\ from = Join(up, One(i)) /\ One(i) \in Paths /\ One(i) # Root
  BY <1>z, Turn
<1>1. \A w \in Paths : Join(from, w) = Join(up, Join(One(i), w)) /\ Join(One(i), w) \in Paths
  BY <1>0, Chain
<1>2. \A w \in Paths : Join(One(i), w) # Root
  <2>. TAKE w \in Paths
  <2>1. Len(Join(One(i), w)) = Len(One(i)) + Len(w) /\ Len(One(i)) = 1 /\ Len(w) \in Nat
    BY <1>0, Turn, Longer
  <2>. QED  BY <1>0, <2>1, Chain, Longer
<1>3. ASSUME NEW w \in Paths PROVE Join(from, w) # up
  <2>1. PICK x \in Paths : x = Join(One(i), w)
    BY <1>1
  <2>2. Join(from, w) = Join(up, x) /\ x # Root
    BY <1>1, <1>2, <2>1
  <2>3. Join(up, x) = up => x = Root
    BY Chain, Zenon
  <2>. QED  BY <2>2, <2>3
<1>. QED  BY <1>z, <1>0, <1>1, <1>3 DEF Under

\* What is behind a child is behind its parent, a turn later.
LEMMA BehindChild ==
    \A x, i, w : x \in Paths /\ i \in {1, 2} /\ w \in Paths =>
        Join(Child(x, i), w) = Join(x, Join(One(i), w)) /\ Join(One(i), w) \in Paths
BY UnderChild

\* Lifting a subtree loses what was under its parent and not under it, and no more.
LEMMA LiftedCount ==
    ASSUME NEW X, X \subseteq Paths, IsFiniteSet(X), NEW up \in Paths, NEW i \in {1, 2}
    PROVE  /\ IsFiniteSet(LiftedSet(X, up, Child(up, i))) /\ LiftedSet(X, up, Child(up, i)) \subseteq Paths
           /\ Cardinality(LiftedSet(X, up, Child(up, i))) =
                  Cardinality(Kept(X, up, Child(up, i)))
<1>z. PICK from : from = Child(up, i)
  OBVIOUS
<1>. DEFINE K == {q \in X : ~ Under(up, q) \/ Under(from, q)}
            Behind(q) == CHOOSE w \in Paths : q = Join(from, w)
            h == [q \in K |-> IF Under(from, q) THEN Join(up, Behind(q)) ELSE q]
            T == LiftedSet(X, up, from)
<1>0. from \in Paths /\ \A q : Under(from, q) => Under(up, q)
  BY <1>z, UnderChild
<1>1. \A q : Under(from, q) => Behind(q) \in Paths /\ q = Join(from, Behind(q))
  BY DEF Under
<1>2. \A w \in Paths : Under(from, Join(from, w)) /\ Behind(Join(from, w)) = w /\ Under(up, Join(up, w))
  <2>. TAKE w \in Paths
  <2>1. Under(from, Join(from, w)) /\ Under(up, Join(up, w))
    BY DEF Under
  <2>2. PICK x \in Paths : x = Behind(Join(from, w)) /\ Join(from, w) = Join(from, x)
    BY <1>1, <2>1
  <2>3. Join(from, w) = Join(from, x) => w = x
    BY <1>0, Cancel
  <2>4. x = w
    BY <2>2, <2>3
  <2>. QED  BY <2>1, <2>2, <2>4
<1>. HIDE DEF Behind
<1>3. h \in [K -> T]
  <2>. SUFFICES ASSUME NEW q \in K PROVE h[q] \in T
    OBVIOUS
  <2>1. CASE Under(from, q)
    BY <1>1, <2>1 DEF LiftedSet
  <2>2. CASE ~ Under(from, q)
    BY <2>2 DEF LiftedSet
  <2>. QED  BY <2>1, <2>2
<1>4. ASSUME NEW a \in K, NEW b \in K, h[a] = h[b] PROVE a = b
  <2>1. CASE Under(from, a) /\ Under(from, b)
    <3>1. Join(up, Behind(a)) = Join(up, Behind(b)) /\ Behind(a) \in Paths /\ Behind(b) \in Paths
      BY <1>1, <1>4, <2>1
    <3>2. Behind(a) = Behind(b)
      BY <3>1, Chain
    <3>. QED  BY <1>1, <2>1, <3>2
  <2>2. CASE ~ Under(from, a) /\ ~ Under(from, b)
    BY <1>4, <2>2
  <2>3. CASE Under(from, a) /\ ~ Under(from, b)
    BY <1>1, <1>2, <1>4, <2>3
  <2>4. CASE ~ Under(from, a) /\ Under(from, b)
    BY <1>1, <1>2, <1>4, <2>4
  <2>. QED  BY <2>1, <2>2, <2>3, <2>4
<1>5. ASSUME NEW t \in T PROVE \E q \in K : h[q] = t
  <2>1. CASE t \in {q \in X : ~ Under(up, q)}
    BY <1>0, <2>1
  <2>2. CASE \E w \in Paths : Join(from, w) \in X /\ t = Join(up, w)
    <3>1. PICK w \in Paths : Join(from, w) \in X /\ t = Join(up, w)
      BY <2>2
    <3>2. Join(from, w) \in K /\ h[Join(from, w)] = Join(up, w)
      BY <1>2, <3>1
    <3>. QED  BY <3>1, <3>2
  <2>. QED  BY <2>1, <2>2 DEF LiftedSet
<1>6. K \in SUBSET X /\ T \subseteq Paths
  BY Chain DEF LiftedSet
<1>7. IsFiniteSet(K)
  BY <1>6, FS_Subset
<1>8. h \in Bijection(K, T)
  <2>. HIDE DEF K, h, T
  <2>. QED  BY <1>3, <1>4, <1>5 DEF Bijection, Injection, Surjection, IsInjective
<1>9. ExistsBijection(K, T)
  <2>. HIDE DEF K, h, T
  <2>. QED  BY <1>8 DEF ExistsBijection
<1>10. IsFiniteSet(T) /\ Cardinality(T) = Cardinality(K)
  <2>. HIDE DEF K, h, T
  <2>. QED  BY <1>7, <1>9, FS_Bijection
<1>. QED  BY <1>z, <1>6, <1>10 DEF Kept

-----------------------------------------------------------------------------
(* The shape of a tree. *)

\* D are the leaves and E the inner nodes of a binary tree.
Shape(D, E) ==
    /\ D \subseteq Paths /\ E \subseteq Paths /\ IsFiniteSet(D) /\ IsFiniteSet(E)
    /\ D \cap E = {} /\ Root \in D \cup E
    /\ \A e \in E, i \in {1, 2} : Child(e, i) \in D \cup E
    /\ \A u, w \in Paths : Join(u, w) \in D \cup E /\ w # Root => u \in E
    /\ Cardinality(D) = Cardinality(E) + 1

\* Every node but the root is a child of an inner one, every inner one is a parent.
LEMMA ShapeSaid ==
    ASSUME NEW D, NEW E, Shape(D, E)
    PROVE  {Up(path) : path \in (D \cup E) \ {Root}} = E
<1>1. ASSUME NEW q \in (D \cup E) \ {Root} PROVE Up(q) \in E
  <2>1. q \in Paths /\ q # Root
    BY DEF Shape
  <2>2. Up(q) \in Paths /\ Side(q) \in {1, 2} /\ q = Child(Up(q), Side(q))
    BY <2>1, LastTurn
  <2>3. PICK u \in Paths, i \in {1, 2} : u = Up(q) /\ i = Side(q) /\ q = Child(u, i)
    BY <2>2
  <2>4. q = Join(u, One(i)) /\ One(i) \in Paths /\ One(i) # Root
    BY <2>3, Turn
  <2>. QED  BY <2>3, <2>4 DEF Shape
<1>2. ASSUME NEW e \in E PROVE e \in {Up(path) : path \in (D \cup E) \ {Root}}
  <2>1. e \in Paths /\ Child(e, 1) \in D \cup E
    BY DEF Shape
  <2>2. Up(Child(e, 1)) = e /\ Child(e, 1) # Root
    BY <2>1, Turn, AppendProperties DEF Paths, Root
  <2>. QED  BY <2>1, <2>2
<1>. QED  BY <1>1, <1>2

\* Nothing is under a leaf but itself.
LEMMA UnderLeaf ==
    ASSUME NEW D, NEW E, Shape(D, E), NEW a \in D
    PROVE  /\ \A q \in D \cup E : Under(a, q) => q = a
           /\ a \in Paths
<1>1. ASSUME NEW q \in D \cup E, Under(a, q) PROVE q = a
  <2>1. PICK w \in Paths : q = Join(a, w)
    BY <1>1 DEF Under
  <2>2. a \in Paths /\ a \notin E
    BY DEF Shape
  <2>3. w = Root
    BY <2>1, <2>2 DEF Shape
  <2>. QED  BY <2>1, <2>2, <2>3, Chain
<1>. QED  BY <1>1 DEF Shape

\* What is under a parent is the parent, or one of its children, or under one.
LEMMA UnderParent ==
    ASSUME NEW up \in Paths, NEW i \in {1, 2}, NEW k \in {1, 2}, k # i, NEW q, Under(up, q)
    PROVE  q = up \/ Under(Child(up, i), q) \/ Under(Child(up, k), q)
<1>1. PICK w \in Paths : q = Join(up, w)
  BY DEF Under
<1>2. CASE w = Root
  BY <1>1, <1>2, Chain
<1>3. CASE w # Root
  <2>1. PICK j \in {1, 2}, x \in Paths : w = Join(One(j), x)
    BY <1>3, FirstTurn
  <2>2. PICK child : child = Child(up, j)
    OBVIOUS
  <2>3. Join(child, x) = q
    BY <1>1, <2>1, <2>2, BehindChild
  <2>4. j = i \/ j = k
    OBVIOUS
  <2>. QED  BY <2>2, <2>3, <2>4 DEF Under
<1>. QED  BY <1>2, <1>3

\* A tree whose split at up loses the leaf beside from.
LEMMA LiftedShape ==
    ASSUME NEW D, NEW E, Shape(D, E), NEW up \in E, NEW i \in {1, 2}, NEW from, from = Child(up, i),
           NEW other \in {1, 2}, other # i, NEW gone \in D, gone = Child(up, other)
    PROVE  Shape(LiftedSet(D, up, from), LiftedSet(E, up, from))
<1>. DEFINE N == D \cup E
            A == LiftedSet(D, up, from)
            B == LiftedSet(E, up, from)
<1>0. /\ D \subseteq Paths /\ E \subseteq Paths /\ IsFiniteSet(D) /\ IsFiniteSet(E) /\ D \cap E = {}
      /\ Root \in N /\ up \in Paths /\ from \in N /\ from \in Paths
      /\ \A u, w \in Paths : Join(u, w) \in N /\ w # Root => u \in E
      /\ Cardinality(D) = Cardinality(E) + 1
  BY Turn DEF Shape
<1>a. up \in Paths /\ from \in Paths
  BY <1>0
<1>1. \A q : Under(from, q) => Under(up, q) /\ q # up
  BY <1>0, UnderChild
<1>2. \A q : q \in A \cup B <=> (q \in N /\ ~ Under(up, q)) \/ \E w \in Paths : Join(from, w) \in N /\ q = Join(up, w)
  BY DEF LiftedSet
<1>3. \A w \in Paths : /\ Under(up, Join(up, w))
                       /\ Join(up, w) \in A <=> Join(from, w) \in D
                       /\ Join(up, w) \in B <=> Join(from, w) \in E
  <2>. TAKE w \in Paths
  <2>1. Under(up, Join(up, w))
    BY DEF Under
  <2>2. \A x \in Paths : Join(up, x) = Join(up, w) => x = w
    BY <1>0, Chain
  <2>. QED  BY <2>1, <2>2 DEF LiftedSet
<1>4. \A q : ~ Under(up, q) => (q \in A <=> q \in D) /\ (q \in B <=> q \in E)
  BY <1>3 DEF LiftedSet
<1>5. A \cap B = {}
  <2>. SUFFICES ASSUME NEW q \in A, q \in B PROVE FALSE
    OBVIOUS
  <2>1. CASE ~ Under(up, q)
    BY <1>0, <1>4, <2>1
  <2>2. CASE Under(up, q)
    <3>1. PICK w \in Paths : q = Join(up, w)
      BY <2>2 DEF Under
    <3>. QED  BY <1>0, <1>3, <3>1
  <2>. QED  BY <2>1, <2>2
<1>6. up \in A \cup B
  BY <1>0, <1>2, Chain
<1>7. Root \in A \cup B
  <2>1. CASE Under(up, Root)
    <3>1. PICK w \in Paths : Root = Join(up, w)
      BY <2>1 DEF Under
    <3>3. up = Root
      BY <1>a, <3>1, RootOnly
    <3>. QED  BY <1>6, <3>3
  <2>. QED  BY <1>0, <1>2, <2>1
<1>8. ASSUME NEW e \in B, NEW k \in {1, 2} PROVE Child(e, k) \in A \cup B
  <2>0. e \in Paths
    BY <1>0, Chain DEF LiftedSet
  <2>1. CASE ~ Under(up, e)
    <3>1. e \in E /\ Child(e, k) \in N
      BY <1>4, <2>1 DEF Shape
    <3>2. CASE Under(up, Child(e, k))
      <4>1. PICK w \in Paths : Child(e, k) = Join(up, w)
        BY <3>2 DEF Under
      <4>2. Child(e, k) = Join(e, One(k)) /\ One(k) \in Paths /\ Len(One(k)) = 1
        BY <2>0, Turn
      <4>3. PICK x \in Paths : x # Root /\ up = Join(e, x) /\ One(k) = Join(x, w)
        <5>1. Same(e, One(k), up, w)
          BY <1>a, <2>0, <4>1, <4>2 DEF Same
        <5>2. \/ \E x \in Paths : up = Join(e, x) /\ One(k) = Join(x, w)
              \/ \E x \in Paths : x # Root /\ e = Join(up, x) /\ w = Join(x, One(k))
          BY <5>1, OneBehindTheOther
        <5>3. PICK x \in Paths : up = Join(e, x) /\ One(k) = Join(x, w)
          BY <2>1, <5>2 DEF Under
        <5>4. CASE x = Root
          <6>1. up = e /\ Join(up, Root) = up /\ Root \in Paths
            BY <1>0, <2>0, <5>3, <5>4, Chain
          <6>. QED  BY <2>1, <6>1 DEF Under
        <5>. QED  BY <5>3, <5>4
      <4>5. w = Root
        BY <4>3, OneLong
      <4>. QED  BY <1>0, <1>6, <4>1, <4>5, Chain
    <3>. QED  BY <1>2, <3>1, <3>2
  <2>2. CASE Under(up, e)
    <3>1. PICK w \in Paths : e = Join(up, w)
      BY <2>2 DEF Under
    <3>2. Join(from, w) \in E
      BY <1>3, <3>1
    <3>3. Child(Join(from, w), k) \in N
      BY <3>2 DEF Shape
    <3>4. PICK x \in Paths : x = Join(w, One(k))
      BY Chain, Turn
    <3>5. Child(Join(from, w), k) = Join(from, x)
      <4>1. Child(Join(from, w), k) = Join(Join(from, w), One(k)) /\ One(k) \in Paths
        BY <1>0, <3>2, Turn
      <4>. QED  BY <1>0, <3>4, <4>1, Chain
    <3>6. Child(e, k) = Join(up, x)
      <4>1. Child(e, k) = Join(e, One(k)) /\ One(k) \in Paths
        BY <2>0, Turn
      <4>. QED  BY <1>0, <3>1, <3>4, <4>1, Chain
    <3>. QED  BY <1>2, <3>3, <3>5, <3>6
  <2>. QED  BY <2>1, <2>2
<1>9. ASSUME NEW u \in Paths, NEW w \in Paths, Join(u, w) \in A \cup B, w # Root PROVE u \in B
  <2>1. CASE Join(u, w) \in N /\ ~ Under(up, Join(u, w))
    <3>1. u \in E
      BY <1>0, <1>9, <2>1
    <3>2. ~ Under(up, u)
      <4>. SUFFICES ASSUME NEW x \in Paths, u = Join(up, x) PROVE FALSE
        BY DEF Under
      <4>1. Join(u, w) = Join(up, Join(x, w)) /\ Join(x, w) \in Paths
        BY <1>0, Chain
      <4>. QED  BY <2>1, <4>1 DEF Under
    <3>. QED  BY <1>4, <3>1, <3>2
  <2>2. CASE \E v \in Paths : Join(from, v) \in N /\ Join(u, w) = Join(up, v)
    <3>1. PICK v \in Paths : Join(from, v) \in N /\ Join(u, w) = Join(up, v)
      BY <2>2
    <3>2. \/ \E x \in Paths : up = Join(u, x) /\ w = Join(x, v)
          \/ \E x \in Paths : x # Root /\ u = Join(up, x) /\ v = Join(x, w)
      <4>1. Same(u, w, up, v)
        BY <1>a, <3>1 DEF Same
      <4>. QED  BY <4>1, OneBehindTheOther
    <3>3. CASE \E x \in Paths : x # Root /\ u = Join(up, x) /\ v = Join(x, w)
      <4>1. PICK x \in Paths : u = Join(up, x) /\ v = Join(x, w)
        BY <3>3
      <4>2. Join(from, v) = Join(Join(from, x), w) /\ Join(from, x) \in Paths
        BY <1>0, <4>1, Chain
      <4>3. Join(from, x) \in E
        BY <1>0, <1>9, <3>1, <4>2
      <4>. QED  BY <1>3, <4>1, <4>3
    <3>4. CASE \E x \in Paths : up = Join(u, x) /\ w = Join(x, v)
      <4>1. PICK x \in Paths : up = Join(u, x) /\ w = Join(x, v)
        BY <3>4
      <4>2. CASE x = Root
        <5>1. up = u /\ w = v /\ u = Join(up, Root) /\ Root \in Paths
          BY <4>1, <4>2, Chain
        <5>2. from \in E
          BY <1>0, <1>9, <3>1, <5>1
        <5>3. Join(from, Root) = from
          BY <1>0, Chain
        <5>. QED  BY <1>3, <5>1, <5>2, <5>3
      <4>3. CASE x # Root
        <5>1. u \in E
          BY <1>0, <4>1, <4>3
        <5>2. ~ Under(up, u)
          <6>. SUFFICES ASSUME NEW y \in Paths, u = Join(up, y) PROVE FALSE
            BY DEF Under
          <6>1. up = Join(up, Join(y, x)) /\ Join(y, x) \in Paths
            BY <1>0, <4>1, Chain
          <6>2. Join(y, x) = Root
            BY <1>0, <6>1, Chain
          <6>. QED  BY <4>3, <6>2, RootOnly
        <5>. QED  BY <1>4, <5>1, <5>2
      <4>. QED  BY <4>2, <4>3
    <3>. QED  BY <3>2, <3>3, <3>4
  <2>. QED  BY <1>2, <1>9, <2>1, <2>2
<1>10. /\ IsFiniteSet(A) /\ A \subseteq Paths /\ IsFiniteSet(B) /\ B \subseteq Paths
       /\ Cardinality(A) = Cardinality(Kept(D, up, from)) /\ Cardinality(B) = Cardinality(Kept(E, up, from))
  <2>1. /\ IsFiniteSet(A) /\ A \subseteq Paths /\ Cardinality(A) = Cardinality(Kept(D, up, from))
    BY <1>0, LiftedCount
  <2>2. /\ IsFiniteSet(B) /\ B \subseteq Paths /\ Cardinality(B) = Cardinality(Kept(E, up, from))
    BY <1>0, LiftedCount
  <2>. QED  BY <2>1, <2>2
<1>11. Kept(D, up, from) = D \ {gone}
  <2>1. ASSUME NEW q \in D PROVE (~ Under(up, q) \/ Under(from, q)) <=> q # gone
    <3>1. ASSUME Under(up, q), ~ Under(from, q) PROVE q = gone
      <4>1. q = up \/ Under(from, q) \/ Under(gone, q)
        BY <1>0, <3>1, UnderParent
      <4>2. q # up
        BY <1>0
      <4>3. Under(gone, q) => q = gone
        BY UnderLeaf
      <4>. QED  BY <3>1, <4>1, <4>2, <4>3
    <3>2. Under(up, gone) /\ ~ Under(from, gone)
      <4>1. gone = Join(up, One(other)) /\ One(other) \in Paths /\ gone \in Paths
        BY <1>a, Turn
      <4>2. from = Join(up, One(i)) /\ One(i) \in Paths
        BY <1>0, Turn
      <4>3. ASSUME NEW w \in Paths, gone = Join(from, w) PROVE FALSE
        <5>0. PICK a \in Paths, b \in Paths : a = One(other) /\ b = Join(One(i), w)
          BY <4>1, <4>2, Chain
        <5>1. gone = Join(up, b) /\ gone = Join(up, a)
          <6>1. Join(Child(up, i), w) = Join(up, b)
            BY <1>a, <5>0, BehindChild
          <6>. QED  BY <4>1, <4>3, <5>0, <6>1
        <5>2. a = b
          BY <1>0, <5>1, Cancel
        <5>3. b[1] = i
          BY <5>0, Begins
        <5>4. a[1] = other
          BY <1>a, <5>0, Turn
        <5>. QED  BY <5>2, <5>3, <5>4
      <4>. QED  BY <4>1, <4>3 DEF Under
    <3>. QED  BY <3>1, <3>2
  <2>. QED  BY <2>1 DEF Kept
<1>12. Kept(E, up, from) = E \ {up}
  <2>1. ASSUME NEW q \in E PROVE (~ Under(up, q) \/ Under(from, q)) <=> q # up
    <3>1. ASSUME Under(up, q), ~ Under(from, q) PROVE q = up
      <4>1. q = up \/ Under(from, q) \/ Under(gone, q)
        BY <1>0, <3>1, UnderParent
      <4>2. ~ Under(gone, q)
        BY <1>0, UnderLeaf
      <4>. QED  BY <3>1, <4>1, <4>2
    <3>2. Under(up, up)
      BY <1>0, Chain DEF Under
    <3>. QED  BY <1>1, <3>1, <3>2
  <2>. QED  BY <2>1 DEF Kept
<1>13. Cardinality(A) = Cardinality(D) - 1 /\ Cardinality(B) = Cardinality(E) - 1
  <2>1. Cardinality(D \ {gone}) = Cardinality(D) - 1 /\ Cardinality(E \ {up}) = Cardinality(E) - 1
    BY <1>0, FS_RemoveElement
  <2>. QED  BY <1>10, <1>11, <1>12, <2>1
<1>14. Cardinality(A) = Cardinality(B) + 1
  <2>1. Cardinality(D) \in Nat /\ Cardinality(E) \in Nat
    BY <1>0, FS_CardinalityType
  <2>. QED  BY <1>0, <1>13, <2>1
<1>15. \A e \in B, k \in {1, 2} : Child(e, k) \in A \cup B
  BY <1>8
<1>16. \A u, w \in Paths : Join(u, w) \in A \cup B /\ w # Root => u \in B
  BY <1>9
<1>. HIDE DEF A, B
<1>17. Shape(A, B)
  BY <1>5, <1>7, <1>10, <1>14, <1>15, <1>16 DEF Shape
<1>. QED  BY <1>17 DEF A, B

\* A tree whose leaf at path becomes a split of two leaves.
LEMMA WithShape ==
    ASSUME NEW D, NEW E, Shape(D, E), NEW path \in D
    PROVE  /\ Shape((D \ {path}) \cup {Child(path, 1), Child(path, 2)}, E \cup {path})
           /\ Child(path, 1) \notin D \cup E /\ Child(path, 2) \notin D \cup E /\ Child(path, 1) # Child(path, 2)
<1>. DEFINE N == D \cup E
            A == (D \ {path}) \cup {Child(path, 1), Child(path, 2)}
            B == E \cup {path}
<1>0. /\ D \subseteq Paths /\ E \subseteq Paths /\ IsFiniteSet(D) /\ IsFiniteSet(E) /\ D \cap E = {}
      /\ Root \in N /\ path \in Paths /\ path \notin E
      /\ \A e \in E, i \in {1, 2} : Child(e, i) \in N
      /\ \A u, w \in Paths : Join(u, w) \in N /\ w # Root => u \in E
      /\ Cardinality(D) = Cardinality(E) + 1
  BY DEF Shape
<1>1. \A i \in {1, 2} : /\ Child(path, i) \in Paths /\ Child(path, i) = Join(path, One(i)) /\ One(i) \in Paths
                        /\ One(i) # Root /\ Len(One(i)) = 1 /\ Side(Child(path, i)) = i
  BY <1>0, Turn
<1>2. \A i \in {1, 2} : Child(path, i) \notin N
  BY <1>0, <1>1
<1>3. Child(path, 1) # Child(path, 2)
  BY <1>1
<1>4. \A q : q \in A \cup B <=> q \in N \/ \E i \in {1, 2} : q = Child(path, i)
  OBVIOUS
<1>5. A \cap B = {}
  BY <1>0, <1>2
<1>6. ASSUME NEW e \in B, NEW i \in {1, 2} PROVE Child(e, i) \in A \cup B
  BY <1>0, <1>4
<1>7. ASSUME NEW u \in Paths, NEW w \in Paths, Join(u, w) \in A \cup B, w # Root PROVE u \in B
  <2>1. CASE Join(u, w) \in N
    BY <1>0, <1>7, <2>1
  <2>2. CASE \E i \in {1, 2} : Join(u, w) = Child(path, i)
    <3>1. PICK i \in {1, 2} : Join(u, w) = Join(path, One(i))
      BY <1>1, <2>2
    <3>2. \/ \E x \in Paths : path = Join(u, x) /\ w = Join(x, One(i))
          \/ \E x \in Paths : x # Root /\ u = Join(path, x) /\ One(i) = Join(x, w)
      <4>1. Same(u, w, path, One(i))
        BY <1>0, <1>1, <3>1 DEF Same
      <4>. QED  BY <4>1, OneBehindTheOther
    <3>3. CASE \E x \in Paths : path = Join(u, x)
      <4>1. PICK x \in Paths : path = Join(u, x)
        BY <3>3
      <4>2. CASE x = Root
        BY <4>1, <4>2, Chain
      <4>3. CASE x # Root
        BY <1>0, <4>1, <4>3
      <4>. QED  BY <4>2, <4>3
    <3>4. CASE \E x \in Paths : x # Root /\ u = Join(path, x) /\ One(i) = Join(x, w)
      <4>1. PICK x \in Paths : x # Root /\ One(i) = Join(x, w)
        BY <3>4
      <4>. QED  BY <1>7, <4>1, OneLong
    <3>. QED  BY <3>2, <3>3, <3>4
  <2>. QED  BY <1>4, <1>7, <2>1, <2>2
<1>8. IsFiniteSet(A) /\ Cardinality(A) = Cardinality(D) + 1
  <2>1. PICK C : C = D \ {path}
    OBVIOUS
  <2>2. IsFiniteSet(C) /\ Cardinality(C) = Cardinality(D) - 1
    BY <1>0, <2>1, FS_RemoveElement
  <2>3. PICK a, b : a = Child(path, 1) /\ b = Child(path, 2)
    OBVIOUS
  <2>4. a \notin C /\ b \notin C \cup {a}
    BY <1>2, <1>3, <2>1, <2>3
  <2>5. IsFiniteSet(C \cup {a}) /\ Cardinality(C \cup {a}) = Cardinality(C) + 1
    BY <2>2, <2>4, FS_AddElement
  <2>6. IsFiniteSet((C \cup {a}) \cup {b}) /\ Cardinality((C \cup {a}) \cup {b}) = Cardinality(C \cup {a}) + 1
    BY <2>4, <2>5, FS_AddElement
  <2>7. A = (C \cup {a}) \cup {b}
    BY <2>1, <2>3
  <2>8. Cardinality(D) \in Nat
    BY <1>0, FS_CardinalityType
  <2>9. \A m \in Nat : ((m - 1) + 1) + 1 = m + 1
    OBVIOUS
  <2>. QED  BY <2>2, <2>5, <2>6, <2>7, <2>8, <2>9
<1>9. IsFiniteSet(B) /\ Cardinality(B) = Cardinality(E) + 1
  BY <1>0, FS_AddElement
<1>10. A \subseteq Paths /\ B \subseteq Paths /\ Root \in A \cup B
  BY <1>0, <1>1, <1>4
<1>11. Cardinality(A) = Cardinality(B) + 1
  BY <1>0, <1>8, <1>9
<1>12. Shape(A, B)
  <2>. HIDE DEF A, B
  <2>. QED  BY <1>5, <1>6, <1>7, <1>8, <1>9, <1>10, <1>11 DEF Shape
<1>. QED  BY <1>2, <1>3, <1>12

-----------------------------------------------------------------------------
(* Trees of panes. *)

\* What a split is, and a tree: two maps over a shape, no pane at two leaves.
Splits == [dir : Dirs, ratio : 1 .. Steps - 1]
Tree(l, s) ==
    /\ l \in [DOMAIN l -> Panes] /\ s \in [DOMAIN s -> Splits] /\ Shape(DOMAIN l, DOMAIN s)
    /\ \A a, b \in DOMAIN l : l[a] = l[b] => a = b

\* Where a pane is.
LEMMA PathOf ==
    ASSUME NEW l, NEW s, Tree(l, s)
    PROVE  /\ \A p \in LeavesOf(l) : PathTo(l, p) \in DOMAIN l /\ l[PathTo(l, p)] = p
           /\ \A a \in DOMAIN l : PathTo(l, l[a]) = a /\ l[a] \in LeavesOf(l)
           /\ LeavesOf(l) \subseteq Panes /\ DOMAIN l \subseteq Paths /\ DOMAIN s \subseteq Paths
<1>1. \A p \in LeavesOf(l) : PathTo(l, p) \in DOMAIN l /\ l[PathTo(l, p)] = p
  BY DEF LeavesOf, PathTo
<1>2. \A a \in DOMAIN l : l[a] \in LeavesOf(l)
  BY DEF LeavesOf
<1>3. \A a \in DOMAIN l : PathTo(l, l[a]) = a
  BY <1>1, <1>2 DEF Tree
<1>. QED  BY <1>1, <1>2, <1>3 DEF Tree, Shape, LeavesOf

\* The panes are as many as the leaves.
LEMMA CountPanes ==
    ASSUME NEW l, NEW s, Tree(l, s)
    PROVE  IsFiniteSet(LeavesOf(l)) /\ Cardinality(LeavesOf(l)) = Cardinality(DOMAIN l)
<1>1. l \in Bijection(DOMAIN l, LeavesOf(l))
  BY DEF Tree, LeavesOf, Bijection, Injection, Surjection, IsInjective
<1>2. IsFiniteSet(DOMAIN l)
  BY DEF Tree, Shape
<1>. QED  BY <1>1, <1>2, FS_Bijection DEF ExistsBijection

\* The half of a split is a ratio.
LEMMA HalfIs == Half \in 1 .. Steps - 1
<1>1. Steps \in Nat /\ Margin \in Nat /\ 0 < Margin /\ 2 * Margin < Steps
  BY LayoutAssumption
<1>. QED  BY <1>1 DEF Half

\* A pane alone.
LEMMA LeafIs ==
    ASSUME NEW p \in Panes
    PROVE  Tree(Leaf(p)[1], Leaf(p)[2]) /\ LeavesOf(Leaf(p)[1]) = {p} /\ Leaf(p) = <<Leaf(p)[1], Leaf(p)[2]>>
<1>. DEFINE l == [path \in {Root} |-> p]
            s == [path \in {} |-> 0]
<1>1. Leaf(p)[1] = l /\ Leaf(p)[2] = s /\ Leaf(p) = <<Leaf(p)[1], Leaf(p)[2]>>
  BY DEF Leaf, Root
<1>2. DOMAIN l = {Root} /\ DOMAIN s = {} /\ l \in [{Root} -> Panes] /\ s \in [{} -> Splits]
  OBVIOUS
<1>3. Shape({Root}, {})
  <2>1. Root \in Paths
    BY Chain
  <2>2. ASSUME NEW u \in Paths, NEW w \in Paths, Join(u, w) = Root PROVE w = Root
    <3>. QED  BY <2>2, RootOnly
  <2>3. IsFiniteSet({Root}) /\ IsFiniteSet({}) /\ Cardinality({Root}) = 1 /\ Cardinality({}) = 0
    BY FS_Singleton, FS_EmptySet
  <2>. QED  BY <2>1, <2>2, <2>3 DEF Shape
<1>4. Tree(l, s)
  BY <1>2, <1>3 DEF Tree
<1>5. LeavesOf(l) = {p}
  BY DEF LeavesOf
<1>. QED  BY <1>1, <1>4, <1>5

\* p comes beside the pane at path.
LEMMA WithIs ==
    ASSUME NEW l, NEW s, Tree(l, s), NEW path \in DOMAIN l, NEW p \in Panes \ LeavesOf(l),
           NEW side \in {1, 2}, NEW dir \in Dirs
    PROVE  LET t == With(l, s, path, p, side, dir) IN
           /\ Tree(t[1], t[2]) /\ t = <<t[1], t[2]>> /\ LeavesOf(t[1]) = LeavesOf(l) \cup {p}
           /\ Child(path, side) \in DOMAIN t[1] /\ t[1][Child(path, side)] = p
           /\ Child(path, Other(side)) \in DOMAIN t[1] /\ t[1][Child(path, Other(side))] = l[path]
           /\ \A q \in DOMAIN l \ {path} : q \in DOMAIN t[1] /\ t[1][q] = l[q]
           /\ t[2][path].dir = dir
<1>. DEFINE D == DOMAIN l
            E == DOMAIN s
            A == (D \ {path}) \cup {Child(path, 1), Child(path, 2)}
            f == [q \in A |-> IF q = Child(path, side) THEN p
                              ELSE IF q = Child(path, Other(side)) THEN l[path] ELSE l[q]]
            g == [q \in E \cup {path} |-> IF q = path THEN [dir |-> dir, ratio |-> Half] ELSE s[q]]
<1>1. With(l, s, path, p, side, dir) = <<f, g>>
  BY DEF With, Child
<1>2. Shape(A, E \cup {path}) /\ Child(path, 1) \notin D \cup E /\ Child(path, 2) \notin D \cup E
      /\ Child(path, 1) # Child(path, 2)
  BY WithShape DEF Tree
<1>3. Other(side) \in {1, 2} /\ {side, Other(side)} = {1, 2}
  BY DEF Other
<1>4. PICK a, b : a = Child(path, side) /\ b = Child(path, Other(side))
  OBVIOUS
<1>5. a # b /\ a \notin D /\ b \notin D /\ {Child(path, 1), Child(path, 2)} = {a, b}
  BY <1>2, <1>3, <1>4
<1>6. A = (D \ {path}) \cup {a, b}
  BY <1>5
<1>7. DOMAIN f = A /\ f[a] = p /\ f[b] = l[path] /\ \A q \in D \ {path} : f[q] = l[q]
  BY <1>4, <1>5, <1>6
<1>8. l \in [D -> Panes] /\ s \in [E -> Splits] /\ \A c, d \in D : l[c] = l[d] => c = d
  BY DEF Tree
<1>9. \A d \in D : l[d] # p
  BY DEF LeavesOf
<1>10. DOMAIN g = E \cup {path} /\ g \in [E \cup {path} -> Splits] /\ g[path].dir = dir
  BY <1>8, HalfIs DEF Splits
<1>. HIDE DEF A, f, g
<1>11. f \in [A -> Panes]
  <2>1. f = [q \in A |-> f[q]]
    BY <1>7 DEF f
  <2>2. \A q \in A : f[q] \in Panes
    BY <1>6, <1>7, <1>8
  <2>. QED  BY <2>1, <2>2
<1>12. ASSUME NEW c \in A, NEW d \in A, f[c] = f[d] PROVE c = d
  <2>1. c \in D \ {path} \/ c = a \/ c = b
    BY <1>6
  <2>2. d \in D \ {path} \/ d = a \/ d = b
    BY <1>6
  <2>. QED  BY <1>7, <1>8, <1>9, <1>12, <2>1, <2>2
<1>13. Tree(f, g)
  BY <1>2, <1>7, <1>10, <1>11, <1>12 DEF Tree
<1>14. LeavesOf(f) = LeavesOf(l) \cup {p}
  <2>1. ASSUME NEW q \in A PROVE f[q] \in LeavesOf(l) \cup {p}
    BY <1>6, <1>7 DEF LeavesOf
  <2>2. ASSUME NEW q \in D PROVE \E c \in A : f[c] = l[q]
    BY <1>6, <1>7
  <2>3. \E c \in A : f[c] = p
    BY <1>6, <1>7
  <2>. QED  BY <1>7, <2>1, <2>2, <2>3 DEF LeavesOf
<1>. QED  BY <1>1, <1>4, <1>6, <1>7, <1>10, <1>13, <1>14

-----------------------------------------------------------------------------
(* A node and what is under it. *)

\* Of some subsets of a finite set one has none of the others within it.
LEMMA SmallestOf ==
    ASSUME NEW S, IsFiniteSet(S), NEW F \in SUBSET (SUBSET S), F # {}
    PROVE  \E T \in F : \A U \in F : U \subseteq T => U = T
<1>1. IsWellFoundedOn(StrictSubsetOrdering(S), FiniteSubsetsOf(S))
  BY FS_StrictSubsetOrderingWellFounded
<1>2. F \subseteq FiniteSubsetsOf(S)
  BY FS_FiniteSubsetsOfFinite
<1>3. PICK T \in F : \A U \in F : ~ (<<U, T>> \in StrictSubsetOrdering(S))
  BY <1>1, <1>2, WFMin
<1>4. ASSUME NEW U \in F, U \subseteq T, U # T PROVE <<U, T>> \in StrictSubsetOrdering(S)
  <2>1. U \in SUBSET S /\ T \in SUBSET S
    OBVIOUS
  <2>. QED  BY ONLY <1>4, <2>1 DEF StrictSubsetOrdering
<1>5. \A U \in F : U \subseteq T => U = T
  BY <1>3, <1>4
<1>. QED  BY <1>5

\* A set of numbers has a least one.
LEMMA LeastNumber ==
    ASSUME NEW T \in SUBSET Nat, T # {}
    PROVE  \E x \in T : \A y \in T : x <= y
<1>1. PICK x \in T : \A y \in T : ~ (<<y, x>> \in OpToRel(<, Nat))
  BY NatLessThanWellFounded, WFMin
<1>2. \A y \in T : ~ (y < x)
  BY <1>1 DEF OpToRel
<1>. QED  BY <1>2

\* Being under is an order; two nodes above a third are one under the other.
LEMMA UnderOrder ==
    /\ \A u \in Paths : Under(u, u) /\ Under(Root, u)
    /\ \A u \in Paths : \A q : Under(u, q) => q \in Paths
    /\ \A u, v \in Paths : \A q : Under(u, v) /\ Under(v, q) => Under(u, q)
    /\ \A u, v \in Paths : \A q : Under(u, q) /\ Under(v, q) => Under(u, v) \/ Under(v, u)
<1>1. ASSUME NEW u \in Paths PROVE Under(u, u) /\ Under(Root, u)
  BY Chain DEF Under
<1>2. ASSUME NEW u \in Paths, NEW q, Under(u, q) PROVE q \in Paths
  BY <1>2, Chain DEF Under
<1>3. ASSUME NEW u \in Paths, NEW v \in Paths, NEW q, Under(u, v), Under(v, q) PROVE Under(u, q)
  <2>1. PICK x \in Paths : v = Join(u, x)
    BY <1>3 DEF Under
  <2>2. PICK y \in Paths : q = Join(v, y)
    BY <1>3 DEF Under
  <2>3. q = Join(u, Join(x, y)) /\ Join(x, y) \in Paths
    BY <2>1, <2>2, Chain
  <2>. QED  BY <2>3 DEF Under
<1>4. ASSUME NEW u \in Paths, NEW v \in Paths, NEW q, Under(u, q), Under(v, q) PROVE Under(u, v) \/ Under(v, u)
  <2>1. PICK x \in Paths, y \in Paths : q = Join(u, x) /\ q = Join(v, y)
    BY <1>4 DEF Under
  <2>2. \/ \E z \in Paths : v = Join(u, z) /\ x = Join(z, y)
        \/ \E z \in Paths : z # Root /\ u = Join(v, z) /\ y = Join(z, x)
    <3>1. Same(u, x, v, y)
      BY <2>1 DEF Same
    <3>. QED  BY <3>1, OneBehindTheOther
  <2>. QED  BY <2>2 DEF Under
<1>. QED  BY <1>1, <1>2, <1>3, <1>4

\* Children: under their parent, apart, and one of them above all that is under it.
LEMMA Children ==
    ASSUME NEW x \in Paths
    PROVE  /\ \A i \in {1, 2} : Child(x, i) \in Paths /\ Under(x, Child(x, i)) /\ ~ Under(Child(x, i), x)
           /\ \A q : Under(x, q) => q = x \/ Under(Child(x, 1), q) \/ Under(Child(x, 2), q)
           /\ \A q : ~ (Under(Child(x, 1), q) /\ Under(Child(x, 2), q))
<1>1. ASSUME NEW i \in {1, 2} PROVE Child(x, i) \in Paths /\ Under(x, Child(x, i)) /\ ~ Under(Child(x, i), x)
  <2>1. Child(x, i) \in Paths /\ Child(x, i) = Join(x, One(i)) /\ One(i) \in Paths
    BY Turn
  <2>2. ~ Under(Child(x, i), x)
    BY UnderChild
  <2>. QED  BY <2>1, <2>2 DEF Under
<1>2. ASSUME NEW q, Under(x, q) PROVE q = x \/ Under(Child(x, 1), q) \/ Under(Child(x, 2), q)
  <2>1. q = x \/ Under(Child(x, 1), q) \/ Under(Child(x, 3 - 1), q)
    BY <1>2, UnderParent
  <2>2. 3 - 1 = 2
    OBVIOUS
  <2>. QED  BY <2>1, <2>2
<1>3. ASSUME NEW q, Under(Child(x, 1), q), Under(Child(x, 2), q) PROVE FALSE
  <2>1. PICK v \in Paths : q = Join(Child(x, 1), v)
    BY <1>3 DEF Under
  <2>2. PICK w \in Paths : q = Join(Child(x, 2), w)
    BY <1>3 DEF Under
  <2>3. q = Join(x, Join(One(1), v)) /\ q = Join(x, Join(One(2), w))
    BY <2>1, <2>2, UnderChild
  <2>4. One(1) \in Paths /\ One(2) \in Paths /\ Len(One(1)) = 1 /\ Len(One(2)) = 1
    BY Turn
  <2>5. Join(One(1), v) = Join(One(2), w)
    BY <2>3, <2>4, Chain
  <2>6. Join(One(1), v)[1] = 1
    BY Begins
  <2>7. Join(One(2), w)[1] = 2
    BY Begins
  <2>. QED  BY <2>5, <2>6, <2>7
<1>. QED  BY <1>1, <1>2, <1>3

\* Under every node there is a leaf.
LEMMA LeafUnder ==
    ASSUME NEW D, NEW E, Shape(D, E), NEW q \in D \cup E
    PROVE  \E a \in D : Under(q, a)
<1>. DEFINE N == D \cup E
            Down(r) == {d \in N : Under(r, d)}
            F == {Down(r) : r \in {x \in N : Under(q, x)}}
<1>0. N \subseteq Paths /\ IsFiniteSet(N) /\ q \in Paths /\ \A e \in E : Child(e, 1) \in N
  BY FS_Union DEF Shape
<1>1. F \in SUBSET (SUBSET N) /\ F # {}
  <2>1. Down(q) \in F
    BY <1>0, UnderOrder
  <2>. QED  BY <2>1
<1>2. PICK T \in F : \A U \in F : U \subseteq T => U = T
  <2>. HIDE DEF N, F
  <2>. QED  BY <1>0, <1>1, SmallestOf
<1>3. PICK r \in N : Under(q, r) /\ T = Down(r)
  OBVIOUS
<1>4. ASSUME r \in E PROVE FALSE
  <2>1. PICK c \in N : c = Child(r, 1)
    BY <1>0, <1>4
  <2>2. Under(r, c) /\ ~ Under(c, r) /\ r \in Paths /\ c \in Paths
    BY <1>0, <2>1, Children
  <2>3. Under(q, c)
    BY <1>0, <1>3, <2>2, UnderOrder
  <2>4. Down(c) \in F
    BY <2>3
  <2>5. Down(c) \subseteq Down(r)
    BY <2>2, UnderOrder
  <2>6. r \in Down(r) /\ r \notin Down(c)
    BY <2>2, UnderOrder
  <2>. QED  BY <1>2, <1>3, <2>4, <2>5, <2>6
<1>. QED  BY <1>3, <1>4

-----------------------------------------------------------------------------
(* The order of the panes. *)

\* a comes before b: they part at some node, and a takes its first child.  Ahead is
\* how FirstOf says it.
Precedes(a, b) == \E x \in Paths : Under(Child(x, 1), a) /\ Under(Child(x, 2), b)
Ahead(a, b) ==
    \E n \in 0 .. Len(a) - 1 : n < Len(b) /\ SubSeq(a, 1, n) = SubSeq(b, 1, n) /\ a[n + 1] < b[n + 1]

\* It is an order, and total on nodes none of which is under another.
LEMMA PrecedesOrder ==
    /\ \A a : ~ Precedes(a, a)
    /\ \A a, b, c \in Paths : Precedes(a, b) /\ Precedes(b, c) => Precedes(a, c)
    /\ \A a, b \in Paths : Under(a, b) \/ Under(b, a) \/ Precedes(a, b) \/ Precedes(b, a)
<1>1. ASSUME NEW a, Precedes(a, a) PROVE FALSE
  BY <1>1, Children DEF Precedes
<1>2. ASSUME NEW a \in Paths, NEW b \in Paths, NEW c \in Paths, Precedes(a, b), Precedes(b, c) PROVE Precedes(a, c)
  <2>1. PICK x \in Paths : Under(Child(x, 1), a) /\ Under(Child(x, 2), b)
    BY <1>2 DEF Precedes
  <2>2. PICK y \in Paths : Under(Child(y, 1), b) /\ Under(Child(y, 2), c)
    BY <1>2 DEF Precedes
  <2>3. PICK x1 \in Paths, x2 \in Paths, y1 \in Paths, y2 \in Paths :
            x1 = Child(x, 1) /\ x2 = Child(x, 2) /\ y1 = Child(y, 1) /\ y2 = Child(y, 2)
    BY Children
  <2>4. Under(x, x1) /\ Under(x, x2) /\ Under(y, y1) /\ Under(y, y2)
    BY <2>3, Children
  <2>5. Under(x, b) /\ Under(y, b)
    BY <2>1, <2>2, <2>3, <2>4, UnderOrder
  <2>6. x # y
    BY <2>1, <2>2, Children
  <2>7. CASE Under(x, y)
    <3>1. Under(x1, y) \/ Under(x2, y)
      BY <2>3, <2>6, <2>7, Children
    <3>2. ~ Under(x1, y)
      <4>1. Under(x1, y) => Under(x1, b)
        BY <2>5, UnderOrder
      <4>. QED  BY <2>1, <2>3, <4>1, Children
    <3>3. Under(x2, c)
      BY <2>2, <2>3, <2>4, <3>1, <3>2, UnderOrder
    <3>. QED  BY <2>1, <2>3, <3>3 DEF Precedes
  <2>8. CASE Under(y, x)
    <3>1. Under(y1, x) \/ Under(y2, x)
      BY <2>3, <2>6, <2>8, Children
    <3>2. ~ Under(y2, x)
      <4>1. Under(y2, x) => Under(y2, b)
        BY <2>5, UnderOrder
      <4>. QED  BY <2>2, <2>3, <4>1, Children
    <3>3. Under(y1, a)
      BY <2>1, <2>3, <2>4, <3>1, <3>2, UnderOrder
    <3>. QED  BY <2>2, <2>3, <3>3 DEF Precedes
  <2>. QED  BY <2>5, <2>7, <2>8, UnderOrder
<1>3. ASSUME NEW a \in Paths, NEW b \in Paths, ~ Under(a, b), ~ Under(b, a) PROVE Precedes(a, b) \/ Precedes(b, a)
  <2>. DEFINE T == {Len(y) : y \in {z \in Paths : \E x \in Paths : a = Join(x, z) /\ Under(x, b)}}
  <2>1. T \in SUBSET Nat
    BY Joins
  <2>2. Len(a) \in T
    BY Chain, UnderOrder
  <2>3. PICK m \in T : \A n \in T : m <= n
    <3>. HIDE DEF T
    <3>. QED  BY <2>1, <2>2, LeastNumber
  <2>4. PICK y \in Paths, x \in Paths : m = Len(y) /\ a = Join(x, y) /\ Under(x, b)
    OBVIOUS
  <2>5. Under(x, a) /\ x # a /\ x # b
    BY <1>3, <2>4 DEF Under
  <2>6. \A i \in {1, 2} : ~ (Under(Child(x, i), a) /\ Under(Child(x, i), b))
    <3>. SUFFICES ASSUME NEW i \in {1, 2}, Under(Child(x, i), a), Under(Child(x, i), b) PROVE FALSE
      OBVIOUS
    <3>1. PICK c \in Paths : c = Child(x, i)
      BY Children
    <3>2. PICK z \in Paths : a = Join(c, z)
      BY <3>1 DEF Under
    <3>3. Len(z) \in T
      BY <3>1, <3>2
    <3>4. a = Join(x, Join(One(i), z)) /\ One(i) \in Paths /\ Len(One(i)) = 1
      BY <3>1, <3>2, UnderChild, Turn
    <3>5. y = Join(One(i), z)
      <4>1. PICK r \in Paths : r = Join(One(i), z)
        BY <3>4, Chain
      <4>2. Join(x, y) = Join(x, r)
        BY <2>4, <3>4, <4>1
      <4>. QED  BY <4>1, <4>2, Cancel
    <3>6. Len(y) = 1 + Len(z) /\ Len(z) \in Nat
      <4>1. PICK o \in Paths : o = One(i) /\ Len(o) = 1
        BY <3>4
      <4>2. Len(Join(o, z)) = Len(o) + Len(z) /\ Len(z) \in Nat
        BY Longer
      <4>. QED  BY <3>5, <4>1, <4>2
    <3>. QED  BY <2>3, <2>4, <3>3, <3>6
  <2>7. Under(Child(x, 1), a) \/ Under(Child(x, 2), a)
    BY <2>5, Children
  <2>8. Under(Child(x, 1), b) \/ Under(Child(x, 2), b)
    BY <2>4, <2>5, Children
  <2>. QED  BY <2>6, <2>7, <2>8 DEF Precedes
<1>. QED  BY <1>1, <1>2, <1>3

-----------------------------------------------------------------------------
(* The order, above and below. *)

\* What is above a child is that child, or above its parent.
LEMMA AboveChild ==
    \A c, x, j : c \in Paths /\ x \in Paths /\ j \in {1, 2} /\ Under(c, Child(x, j)) => c = Child(x, j) \/ Under(c, x)
<1>. SUFFICES ASSUME NEW c \in Paths, NEW x \in Paths, NEW j \in {1, 2}, Under(c, Child(x, j)), c # Child(x, j)
              PROVE  Under(c, x)
  OBVIOUS
<1>1. Child(x, j) = Join(x, One(j)) /\ One(j) \in Paths /\ Child(x, j) \in Paths
  BY Turn
<1>2. PICK w \in Paths : Child(x, j) = Join(c, w)
  BY DEF Under
<1>3. Same(x, One(j), c, w)
  BY <1>1, <1>2 DEF Same
<1>4. \/ \E y \in Paths : c = Join(x, y) /\ One(j) = Join(y, w)
      \/ \E y \in Paths : x = Join(c, y)
  BY <1>3, OneBehindTheOther
<1>5. ASSUME NEW y \in Paths, c = Join(x, y), One(j) = Join(y, w) PROVE Under(c, x)
  <2>1. y = Root \/ w = Root
    BY <1>5, OneLong
  <2>2. CASE y = Root
    BY <1>5, <2>2, Chain, UnderOrder
  <2>3. CASE w = Root
    BY <1>2, <2>3, Chain
  <2>. QED  BY <2>1, <2>2, <2>3
<1>. QED  BY <1>4, <1>5 DEF Under

\* What comes before something under c, but not under c itself, comes before c.
LEMMA BeforeAbove ==
    /\ \A a, b, c : a \in Paths /\ c \in Paths /\ Precedes(a, b) /\ Under(c, b) /\ ~ Under(c, a) => Precedes(a, c)
    /\ \A a, b, c : b \in Paths /\ c \in Paths /\ Precedes(a, b) /\ Under(c, a) /\ ~ Under(c, b) => Precedes(c, b)
<1>1. ASSUME NEW a \in Paths, NEW b, NEW c \in Paths, Precedes(a, b), Under(c, b), ~ Under(c, a) PROVE Precedes(a, c)
  <2>1. PICK x \in Paths : Under(Child(x, 1), a) /\ Under(Child(x, 2), b)
    BY <1>1 DEF Precedes
  <2>2. PICK x1 \in Paths, x2 \in Paths : x1 = Child(x, 1) /\ x2 = Child(x, 2) /\ Under(x, x1) /\ Under(x, x2)
    BY Children
  <2>3. Under(x, a)
    BY <2>1, <2>2, UnderOrder
  <2>4. Under(x2, c) \/ Under(c, x2)
    BY <1>1, <2>1, <2>2, UnderOrder
  <2>5. ASSUME Under(c, x2) PROVE c = x2
    <3>1. c = x2 \/ Under(c, x)
      BY <2>2, <2>5, AboveChild
    <3>2. ~ Under(c, x)
      BY <1>1, <2>3, UnderOrder
    <3>. QED  BY <3>1, <3>2
  <2>6. Under(x2, c)
    BY <2>2, <2>4, <2>5, UnderOrder
  <2>. QED  BY <2>1, <2>2, <2>6 DEF Precedes
<1>2. ASSUME NEW a, NEW b \in Paths, NEW c \in Paths, Precedes(a, b), Under(c, a), ~ Under(c, b) PROVE Precedes(c, b)
  <2>1. PICK x \in Paths : Under(Child(x, 1), a) /\ Under(Child(x, 2), b)
    BY <1>2 DEF Precedes
  <2>2. PICK x1 \in Paths, x2 \in Paths : x1 = Child(x, 1) /\ x2 = Child(x, 2) /\ Under(x, x1) /\ Under(x, x2)
    BY Children
  <2>3. Under(x, b)
    BY <2>1, <2>2, UnderOrder
  <2>4. Under(x1, c) \/ Under(c, x1)
    BY <1>2, <2>1, <2>2, UnderOrder
  <2>5. ASSUME Under(c, x1) PROVE c = x1
    <3>1. c = x1 \/ Under(c, x)
      BY <2>2, <2>5, AboveChild
    <3>2. ~ Under(c, x)
      BY <1>2, <2>3, UnderOrder
    <3>. QED  BY <3>1, <3>2
  <2>6. Under(x1, c)
    BY <2>2, <2>4, <2>5, UnderOrder
  <2>. QED  BY <2>1, <2>2, <2>6 DEF Precedes
<1>. QED  BY <1>1, <1>2

\* What is under something that comes before or after does so too.
LEMMA BelowBefore ==
    /\ \A a, c, d : c \in Paths /\ Precedes(a, c) /\ Under(c, d) => Precedes(a, d)
    /\ \A b, c, d : c \in Paths /\ Precedes(c, b) /\ Under(c, d) => Precedes(d, b)
<1>1. ASSUME NEW a, NEW c \in Paths, NEW d, Precedes(a, c), Under(c, d) PROVE Precedes(a, d)
  <2>1. PICK x \in Paths, y \in Paths : y = Child(x, 2) /\ Under(Child(x, 1), a) /\ Under(y, c)
    BY <1>1, Children DEF Precedes
  <2>2. Under(y, d)
    BY <1>1, <2>1, UnderOrder
  <2>. QED  BY <2>1, <2>2 DEF Precedes
<1>2. ASSUME NEW b, NEW c \in Paths, NEW d, Precedes(c, b), Under(c, d) PROVE Precedes(d, b)
  <2>1. PICK x \in Paths, y \in Paths : y = Child(x, 1) /\ Under(Child(x, 2), b) /\ Under(y, c)
    BY <1>2, Children DEF Precedes
  <2>2. Under(y, d)
    BY <1>2, <2>1, UnderOrder
  <2>. QED  BY <2>1, <2>2 DEF Precedes
<1>. QED  BY <1>1, <1>2

\* Under c, the order is that of the ways on from c.
LEMMA OrderUnder ==
    \A c, v, w : c \in Paths /\ v \in Paths /\ w \in Paths => (Precedes(Join(c, v), Join(c, w)) <=> Precedes(v, w))
<1>. SUFFICES ASSUME NEW c \in Paths, NEW v \in Paths, NEW w \in Paths
              PROVE  Precedes(Join(c, v), Join(c, w)) <=> Precedes(v, w)
  OBVIOUS
<1>1. PICK a \in Paths, b \in Paths : a = Join(c, v) /\ b = Join(c, w) /\ Under(c, a) /\ Under(c, b)
  <2>1. Join(c, v) \in Paths /\ Join(c, w) \in Paths
    BY Chain
  <2>2. Under(c, Join(c, v)) /\ Under(c, Join(c, w))
    BY DEF Under
  <2>. QED  BY <2>1, <2>2
<1>2. \A y, j : y \in Paths /\ j \in {1, 2} => Child(Join(c, y), j) = Join(c, Child(y, j)) /\ Child(y, j) \in Paths
  <2>. SUFFICES ASSUME NEW y \in Paths, NEW j \in {1, 2}
                PROVE Child(Join(c, y), j) = Join(c, Child(y, j)) /\ Child(y, j) \in Paths
    OBVIOUS
  <2>1. Child(y, j) = Join(y, One(j)) /\ Child(y, j) \in Paths /\ One(j) \in Paths
    BY Turn
  <2>2. PICK z \in Paths : z = Join(c, y)
    BY Chain
  <2>3. Child(z, j) = Join(z, One(j))
    BY Turn
  <2>. QED  BY <2>1, <2>2, <2>3, Chain
<1>3. \A y, v1 : y \in Paths /\ v1 \in Paths => (Under(Join(c, y), Join(c, v1)) <=> Under(y, v1))
  <2>. SUFFICES ASSUME NEW y \in Paths, NEW v1 \in Paths PROVE Under(Join(c, y), Join(c, v1)) <=> Under(y, v1)
    OBVIOUS
  <2>1. ASSUME NEW z \in Paths, Join(c, v1) = Join(Join(c, y), z) PROVE v1 = Join(y, z)
    <3>1. PICK r \in Paths : r = Join(y, z)
      BY Chain
    <3>2. Join(c, v1) = Join(c, r)
      BY <2>1, <3>1, Chain
    <3>. QED  BY <3>1, <3>2, Cancel
  <2>2. ASSUME NEW z \in Paths, v1 = Join(y, z) PROVE Join(c, v1) = Join(Join(c, y), z)
    BY <2>2, Chain
  <2>. QED  BY <2>1, <2>2 DEF Under
<1>4. ASSUME Precedes(v, w) PROVE Precedes(a, b)
  <2>1. PICK y \in Paths : Under(Child(y, 1), v) /\ Under(Child(y, 2), w)
    BY <1>4 DEF Precedes
  <2>2. PICK x \in Paths : x = Join(c, y)
    BY Chain
  <2>3. Child(x, 1) = Join(c, Child(y, 1)) /\ Child(y, 1) \in Paths /\ Child(x, 2) = Join(c, Child(y, 2)) /\ Child(y, 2) \in Paths
    BY <1>2, <2>2
  <2>4. Under(Child(x, 1), a) /\ Under(Child(x, 2), b)
    BY <1>1, <1>3, <2>1, <2>3
  <2>. QED  BY <2>4 DEF Precedes
<1>5. ASSUME Precedes(a, b) PROVE Precedes(v, w)
  <2>1. PICK x \in Paths : Under(Child(x, 1), a) /\ Under(Child(x, 2), b)
    BY <1>5 DEF Precedes
  <2>2. PICK x1 \in Paths, x2 \in Paths : x1 = Child(x, 1) /\ x2 = Child(x, 2) /\ Under(x, x1) /\ Under(x, x2)
    BY Children
  <2>3. Under(x, a)
    BY <2>1, <2>2, UnderOrder
  <2>4. Under(x, c) \/ Under(c, x)
    BY <1>1, <2>3, UnderOrder
  <2>5. ASSUME Under(x, c), x # c PROVE FALSE
    <3>1. Under(x1, c) \/ Under(x2, c)
      BY <2>2, <2>5, Children
    <3>2. Under(x1, c) => Under(x1, b)
      BY <1>1, <2>2, UnderOrder
    <3>3. Under(x2, c) => Under(x2, a)
      BY <1>1, <2>2, UnderOrder
    <3>. QED  BY <2>1, <2>2, <3>1, <3>2, <3>3, Children
  <2>6. Under(c, x)
    BY <2>4, <2>5, UnderOrder
  <2>7. PICK y \in Paths : x = Join(c, y)
    BY <2>6 DEF Under
  <2>8. Child(x, 1) = Join(c, Child(y, 1)) /\ Child(y, 1) \in Paths /\ Child(x, 2) = Join(c, Child(y, 2)) /\ Child(y, 2) \in Paths
    BY <1>2, <2>7
  <2>9. Under(Child(y, 1), v) /\ Under(Child(y, 2), w)
    BY <1>1, <1>3, <2>1, <2>8
  <2>. QED  BY <2>9 DEF Precedes
<1>. QED  BY <1>1, <1>4, <1>5

-----------------------------------------------------------------------------
(* The first of some leaves. *)

\* A path is before another at the place where they part.
LEMMA AheadIs ==
    \A a, b : a \in Paths /\ b \in Paths => (Ahead(a, b) <=> Precedes(a, b))
<1>. SUFFICES ASSUME NEW a \in Paths, NEW b \in Paths PROVE Ahead(a, b) <=> Precedes(a, b)
  OBVIOUS
<1>0. Len(a) \in Nat /\ Len(b) \in Nat
  BY Longer
<1>1. \A x, i, v : x \in Paths /\ i \in {1, 2} /\ v \in Paths =>
          LET q == Join(Child(x, i), v) IN
          SubSeq(q, 1, Len(x)) = x /\ Len(x) < Len(q) /\ q[Len(x) + 1] = i /\ Len(x) \in Nat
  <2>. SUFFICES ASSUME NEW x \in Paths, NEW i \in {1, 2}, NEW v \in Paths, NEW q, q = Join(Child(x, i), v)
                PROVE  SubSeq(q, 1, Len(x)) = x /\ Len(x) < Len(q) /\ q[Len(x) + 1] = i /\ Len(x) \in Nat
    OBVIOUS
  <2>1. PICK r \in Paths : r = Join(One(i), v)
    BY Turn, Chain
  <2>2. q = Join(x, r)
    BY <2>1, BehindChild
  <2>3. r[1] = i
    BY <2>1, Begins
  <2>4. Len(r) = 1 + Len(v) /\ Len(v) \in Nat /\ Len(x) \in Nat
    <3>1. One(i) \in Paths /\ Len(One(i)) = 1
      BY Turn
    <3>2. Len(r) = Len(One(i)) + Len(v)
      BY <2>1, <3>1, Longer
    <3>. QED  BY <3>1, <3>2, Longer
  <2>5. Len(q) = Len(x) + Len(r)
    BY <2>2, Longer
  <2>6. SubSeq(q, 1, Len(x)) = x
    BY <2>2, Suffix DEF Join
  <2>7. q[Len(x) + 1] = r[1]
    <3>1. 1 \in 1 .. Len(r)
      BY <2>4
    <3>. QED  BY <2>2, <3>1, Joins DEF Join
  <2>. QED  BY <2>3, <2>4, <2>5, <2>6, <2>7
<1>2. ASSUME Precedes(a, b) PROVE Ahead(a, b)
  <2>1. PICK x \in Paths : Under(Child(x, 1), a) /\ Under(Child(x, 2), b)
    BY <1>2 DEF Precedes
  <2>2. PICK v \in Paths, w \in Paths : a = Join(Child(x, 1), v) /\ b = Join(Child(x, 2), w)
    BY <2>1 DEF Under
  <2>3. SubSeq(a, 1, Len(x)) = x /\ Len(x) < Len(a) /\ a[Len(x) + 1] = 1 /\ Len(x) \in Nat
    BY <1>1, <2>2
  <2>4. SubSeq(b, 1, Len(x)) = x /\ Len(x) < Len(b) /\ b[Len(x) + 1] = 2
    BY <1>1, <2>2
  <2>5. PICK n \in Nat : n = Len(x)
    BY <2>3
  <2>6. n \in 0 .. Len(a) - 1
    BY <1>0, <2>3, <2>5
  <2>. QED  BY <2>3, <2>4, <2>5, <2>6 DEF Ahead
<1>3. \A q, n : q \in Paths /\ n \in Nat /\ n < Len(q) =>
          \E x \in Paths, i \in {1, 2} : x = SubSeq(q, 1, n) /\ i = q[n + 1] /\ Under(Child(x, i), q)
  <2>. SUFFICES ASSUME NEW q \in Paths, NEW n \in Nat, n < Len(q)
                PROVE  \E x \in Paths, i \in {1, 2} : x = SubSeq(q, 1, n) /\ i = q[n + 1] /\ Under(Child(x, i), q)
    OBVIOUS
  <2>0. Len(q) \in Nat /\ \A k \in 1 .. Len(q) : q[k] \in {1, 2}
    BY Longer, ElementOfSeq DEF Paths
  <2>1. PICK x : x = SubSeq(q, 1, n)
    OBVIOUS
  <2>2. x \in Paths /\ Len(x) = n
    <3>1. \A k \in 1 .. n : q[k] \in {1, 2}
      BY <2>0
    <3>2. x \in Seq({1, 2}) /\ Len(x) = IF 1 <= n THEN n - 1 + 1 ELSE 0
      BY <2>1, <3>1, SubSeqProperties
    <3>. QED  BY <3>2 DEF Paths
  <2>3. IsPrefix(x, q)
    <3>1. SubSeq(x, 1, Len(x)) = x
      BY <2>2, SubSeqFull DEF Paths
    <3>. QED  BY <2>0, <2>1, <2>2, <3>1 DEF IsPrefix
  <2>4. PICK y \in Paths : q = Join(x, y)
    BY <2>2, <2>3, PrefixIs
  <2>5. Len(y) \in Nat /\ Len(q) = n + Len(y)
    BY <2>2, <2>4, Longer
  <2>6. y # Root
    <3>1. Len(y) # 0
      BY <2>5
    <3>. QED  BY <3>1, Longer
  <2>7. PICK i \in {1, 2}, v \in Paths : y = Join(One(i), v)
    BY <2>6, FirstTurn
  <2>8. q = Join(Child(x, i), v)
    BY <2>2, <2>4, <2>7, BehindChild
  <2>9. q[n + 1] = i
    BY <1>1, <2>2, <2>8
  <2>. QED  BY <2>1, <2>2, <2>8, <2>9 DEF Under
<1>4. ASSUME Ahead(a, b) PROVE Precedes(a, b)
  <2>1. PICK n \in 0 .. Len(a) - 1 : n < Len(b) /\ SubSeq(a, 1, n) = SubSeq(b, 1, n) /\ a[n + 1] < b[n + 1]
    BY <1>4 DEF Ahead
  <2>2. n \in Nat /\ n < Len(a)
    BY <1>0
  <2>3. PICK x \in Paths, i \in {1, 2} : x = SubSeq(a, 1, n) /\ i = a[n + 1] /\ Under(Child(x, i), a)
    BY <1>3, <2>2
  <2>4. PICK y \in Paths, j \in {1, 2} : y = SubSeq(b, 1, n) /\ j = b[n + 1] /\ Under(Child(y, j), b)
    BY <1>3, <2>1, <2>2
  <2>5. x = y /\ i = 1 /\ j = 2
    <3>1. i < j
      BY <2>1, <2>3, <2>4
    <3>. QED  BY <2>1, <2>3, <2>4, <3>1
  <2>. QED  BY <2>3, <2>4, <2>5 DEF Precedes
<1>. QED  BY <1>2, <1>4

-----------------------------------------------------------------------------
\* None of these nodes is under another.
Apart(S) == \A a, b \in S : Under(a, b) => a = b

\* Some nodes apart have a first one.
LEMMA FirstOne ==
    ASSUME NEW S, S \subseteq Paths, IsFiniteSet(S), S # {}, Apart(S)
    PROVE  \E a \in S : \A b \in S : a = b \/ Precedes(a, b)
<1>. DEFINE Pre(a) == {b \in S : Precedes(b, a)}
            F == {Pre(a) : a \in S}
<1>1. F \in SUBSET (SUBSET S) /\ F # {}
  OBVIOUS
<1>2. PICK T \in F : \A U \in F : U \subseteq T => U = T
  <2>. HIDE DEF F
  <2>. QED  BY <1>1, SmallestOf
<1>3. PICK a \in S : T = Pre(a)
  OBVIOUS
<1>4. ASSUME NEW b \in S, a # b, ~ Precedes(a, b) PROVE FALSE
  <2>1. Precedes(b, a)
    BY <1>4, PrecedesOrder DEF Apart
  <2>2. Pre(b) \subseteq Pre(a)
    BY <2>1, PrecedesOrder
  <2>3. b \in Pre(a) /\ b \notin Pre(b)
    BY <2>1, PrecedesOrder
  <2>4. Pre(b) \in F
    OBVIOUS
  <2>. QED  BY <1>2, <1>3, <2>2, <2>3, <2>4
<1>. QED  BY <1>4

FirstPath(S) == CHOOSE path \in S : \A q \in S : path = q \/ Ahead(path, q)

\* That is the one FirstOf takes.
LEMMA FirstIs ==
    ASSUME NEW l, NEW S, S \subseteq Paths, IsFiniteSet(S), S # {}, Apart(S)
    PROVE  /\ FirstOf(l, S) = l[FirstPath(S)]
           /\ FirstPath(S) \in S /\ \A q \in S : FirstPath(S) = q \/ Precedes(FirstPath(S), q)
<1>1. FirstOf(l, S) = l[FirstPath(S)]
  BY DEF FirstOf, FirstPath, Ahead
<1>2. \E path \in S : \A q \in S : path = q \/ Ahead(path, q)
  BY FirstOne, AheadIs
<1>3. FirstPath(S) \in S /\ \A q \in S : FirstPath(S) = q \/ Ahead(FirstPath(S), q)
  BY <1>2 DEF FirstPath
<1>. QED  BY <1>1, <1>3, AheadIs

\* The leaves of a tree are apart.
LEMMA LeavesApart ==
    ASSUME NEW l, NEW s, Tree(l, s), NEW S, S \subseteq DOMAIN l
    PROVE  S \subseteq Paths /\ IsFiniteSet(S) /\ Apart(S)
<1>1. Shape(DOMAIN l, DOMAIN s)
  BY DEF Tree
<1>2. S \subseteq Paths /\ IsFiniteSet(S)
  BY <1>1, FS_Subset DEF Shape
<1>3. \A a, b \in DOMAIN l : Under(a, b) => a = b
  BY <1>1, UnderLeaf
<1>. QED  BY <1>2, <1>3 DEF Apart

\* The first of some leaves holds a pane of the tree.
LEMMA FirstLeaf ==
    ASSUME NEW l, NEW s, Tree(l, s), NEW S, S \subseteq DOMAIN l, S # {}
    PROVE  FirstOf(l, S) \in LeavesOf(l)
<1>1. S \subseteq Paths /\ IsFiniteSet(S) /\ Apart(S)
  BY LeavesApart
<1>2. FirstOf(l, S) = l[FirstPath(S)] /\ FirstPath(S) \in S
  BY <1>1, FirstIs
<1>. QED  BY <1>2 DEF LeavesOf

Goes(l, p, q) == Precedes(PathTo(l, p), PathTo(l, q))

\* One pane is before another when its leaf is.
LEMMA BeforeIs ==
    ASSUME NEW l, NEW s, Tree(l, s), NEW p \in LeavesOf(l), NEW q \in LeavesOf(l)
    PROVE  Before(l, p, q) <=> p = q \/ Goes(l, p, q)
<1>1. PICK a, b : a = PathTo(l, p) /\ b = PathTo(l, q)
  OBVIOUS
<1>2. a \in DOMAIN l /\ b \in DOMAIN l /\ l[a] = p /\ l[b] = q /\ a \in Paths /\ b \in Paths
  BY <1>1, PathOf
<1>3. PICK S : S = {a, b}
  OBVIOUS
<1>4. S \subseteq Paths /\ IsFiniteSet(S) /\ Apart(S) /\ S # {}
  BY <1>2, <1>3, LeavesApart
<1>5. /\ FirstOf(l, S) = l[FirstPath(S)]
      /\ FirstPath(S) \in S /\ \A r \in S : FirstPath(S) = r \/ Precedes(FirstPath(S), r)
  BY <1>4, FirstIs
<1>6. Before(l, p, q) <=> l[FirstPath(S)] = p
  BY <1>1, <1>3, <1>5 DEF Before
<1>7. CASE p = q
  BY <1>1, <1>3, <1>2, <1>5, <1>6, <1>7
<1>8. CASE p # q
  <2>1. a # b
    BY <1>2, <1>8
  <2>2. Goes(l, p, q) <=> Precedes(a, b)
    BY <1>1 DEF Goes
  <2>3. CASE FirstPath(S) = a
    BY <1>2, <1>3, <1>5, <1>6, <1>8, <2>1, <2>2, <2>3
  <2>4. CASE FirstPath(S) = b
    <3>1. Precedes(b, a)
      BY <1>3, <1>5, <2>1, <2>4
    <3>2. ~ Precedes(a, b)
      BY <1>2, <3>1, PrecedesOrder
    <3>. QED  BY <1>2, <1>6, <1>8, <2>2, <2>4, <3>2
  <2>. QED  BY <1>3, <1>5, <2>3, <2>4
<1>. QED  BY <1>7, <1>8

\* A change of the tree that turns around no two of some panes keeps their order.
LEMMA OrderKept ==
    ASSUME NEW l, NEW s, Tree(l, s), NEW l2, NEW s2, Tree(l2, s2),
           NEW Q, Q \subseteq LeavesOf(l), Q \subseteq LeavesOf(l2),
           \A p, q \in Q : Goes(l, p, q) => Goes(l2, p, q)
    PROVE  \A p, q \in Q : Goes(l2, p, q) <=> Goes(l, p, q)
<1>. SUFFICES ASSUME NEW p \in Q, NEW q \in Q, Goes(l2, p, q) PROVE Goes(l, p, q)
  OBVIOUS
<1>1. PICK a, b : a = PathTo(l, p) /\ b = PathTo(l, q)
  OBVIOUS
<1>2. a \in DOMAIN l /\ b \in DOMAIN l /\ l[a] = p /\ l[b] = q /\ a \in Paths /\ b \in Paths
  BY <1>1, PathOf
<1>3. PICK c \in Paths, d \in Paths : c = PathTo(l2, p) /\ d = PathTo(l2, q)
  BY PathOf
<1>4. Precedes(c, d)
  BY <1>3 DEF Goes
<1>5. ~ Precedes(d, c)
  BY <1>4, PrecedesOrder
<1>6. ~ Goes(l, q, p)
  BY <1>3, <1>5 DEF Goes
<1>7. p # q
  BY <1>3, <1>4, PrecedesOrder
<1>8. ~ Under(a, b) /\ ~ Under(b, a)
  <2>1. Apart(DOMAIN l)
    BY LeavesApart
  <2>. QED  BY <1>2, <1>7, <2>1 DEF Apart
<1>9. ~ Precedes(b, a)
  BY <1>1, <1>6 DEF Goes
<1>10. Precedes(a, b)
  BY <1>2, <1>8, <1>9, PrecedesOrder
<1>. QED  BY <1>1, <1>10 DEF Goes

-----------------------------------------------------------------------------
(* A pane leaves the tree. *)

\* The lifting of a map is a map.
LEMMA LiftedMap ==
    ASSUME NEW f, NEW c, NEW V, \A q \in DOMAIN Lifted(f, c) : Lifted(f, c)[q] \in V
    PROVE  Lifted(f, c) \in [DOMAIN Lifted(f, c) -> V]
<1>1. PICK g : g = Lifted(f, c)
  OBVIOUS
<1>2. g = [q \in DOMAIN g |-> g[q]]
  BY <1>1 DEF Lifted
<1>. QED  BY <1>1, <1>2

\* What the lifting makes of a tree whose other child at up is a leaf.
LEMMA LiftedTree ==
    ASSUME NEW l, NEW s, Tree(l, s), NEW up \in DOMAIN s, NEW i \in {1, 2}, NEW k \in {1, 2}, k # i,
           NEW gone \in DOMAIN l, gone = Child(up, k),
           NEW from, from = Child(up, i), NEW l2, l2 = Lifted(l, from), NEW s2, s2 = Lifted(s, from)
    PROVE  /\ Tree(l2, s2) /\ up \in DOMAIN l2 \cup DOMAIN s2
           /\ LeavesOf(l2) = LeavesOf(l) \ {l[gone]}
           /\ \A a \in DOMAIN l : a = gone \/ ~ Under(up, a) \/ Under(from, a)
           /\ \A a \in DOMAIN l : ~ Under(up, a) => a \in DOMAIN l2 /\ l2[a] = l[a]
           /\ \A w \in Paths : Join(from, w) \in DOMAIN l => Join(up, w) \in DOMAIN l2 /\ l2[Join(up, w)] = l[Join(from, w)]
<1>0. /\ Shape(DOMAIN l, DOMAIN s) /\ up \in Paths /\ DOMAIN l \subseteq Paths /\ DOMAIN s \subseteq Paths
      /\ l \in [DOMAIN l -> Panes] /\ s \in [DOMAIN s -> Splits] /\ from \in Paths
      /\ \A a, b \in DOMAIN l : l[a] = l[b] => a = b
  BY Turn DEF Tree, Shape
<1>1. /\ DOMAIN l2 = LiftedSet(DOMAIN l, up, from)
      /\ \A q \in DOMAIN l : ~ Under(up, q) => l2[q] = l[q]
      /\ \A w \in Paths : Join(from, w) \in DOMAIN l => l2[Join(up, w)] = l[Join(from, w)]
  BY <1>0, LiftedIs
<1>2. /\ DOMAIN s2 = LiftedSet(DOMAIN s, up, from)
      /\ \A q \in DOMAIN s : ~ Under(up, q) => s2[q] = s[q]
      /\ \A w \in Paths : Join(from, w) \in DOMAIN s => s2[Join(up, w)] = s[Join(from, w)]
  BY <1>0, LiftedIs
<1>3. Shape(DOMAIN l2, DOMAIN s2)
  <2>1. Shape(LiftedSet(DOMAIN l, up, from), LiftedSet(DOMAIN s, up, from))
    BY <1>0, LiftedShape
  <2>. QED  BY <1>1, <1>2, <2>1
<1>4. \A a \in DOMAIN l : ~ Under(up, a) => a \in DOMAIN l2
  BY <1>1 DEF LiftedSet
<1>5. \A w \in Paths : Join(from, w) \in DOMAIN l => Join(up, w) \in DOMAIN l2
  BY <1>1 DEF LiftedSet
<1>6. \A b \in DOMAIN l2 : \/ b \in DOMAIN l /\ ~ Under(up, b) /\ l2[b] = l[b]
                           \/ \E w \in Paths : Join(from, w) \in DOMAIN l /\ b = Join(up, w) /\ l2[b] = l[Join(from, w)]
  BY <1>1 DEF LiftedSet
<1>7. \A b \in DOMAIN s2 : \/ b \in DOMAIN s /\ s2[b] = s[b]
                           \/ \E w \in Paths : Join(from, w) \in DOMAIN s /\ b = Join(up, w) /\ s2[b] = s[Join(from, w)]
  BY <1>2 DEF LiftedSet
<1>8. l2 \in [DOMAIN l2 -> Panes]
  <2>1. \A b \in DOMAIN l2 : l2[b] \in Panes
    BY <1>0, <1>6
  <2>. QED  BY <2>1, LiftedMap
<1>9. s2 \in [DOMAIN s2 -> Splits]
  <2>1. \A b \in DOMAIN s2 : s2[b] \in Splits
    BY <1>0, <1>7
  <2>. QED  BY <2>1, LiftedMap
<1>10. \A w \in Paths : Under(up, Join(up, w)) /\ Under(from, Join(from, w)) /\ Under(up, Join(from, w))
  <2>. TAKE w \in Paths
  <2>1. Under(from, Join(from, w)) /\ Under(up, Join(up, w))
    BY DEF Under
  <2>2. Under(Child(up, i), Join(from, w))
    BY <2>1
  <2>. QED  BY <1>0, <2>1, <2>2, UnderChild
<1>11. ASSUME NEW a \in DOMAIN l2, NEW b \in DOMAIN l2, l2[a] = l2[b] PROVE a = b
  <2>1. PICK c \in DOMAIN l : l2[a] = l[c] /\ \/ c = a /\ ~ Under(up, c)
                                              \/ \E w \in Paths : c = Join(from, w) /\ a = Join(up, w)
    BY <1>6
  <2>2. PICK d \in DOMAIN l : l2[b] = l[d] /\ \/ d = b /\ ~ Under(up, d)
                                              \/ \E w \in Paths : d = Join(from, w) /\ b = Join(up, w)
    BY <1>6
  <2>3. c = d
    BY <1>0, <1>11, <2>1, <2>2
  <2>4. CASE ~ Under(up, c)
    BY <1>10, <2>1, <2>2, <2>3, <2>4
  <2>5. CASE Under(up, c)
    <3>1. PICK w \in Paths : c = Join(from, w) /\ a = Join(up, w)
      BY <2>1, <2>5
    <3>2. PICK v \in Paths : d = Join(from, v) /\ b = Join(up, v)
      BY <2>2, <2>3, <2>5
    <3>3. v = w
      BY <1>0, <2>3, <3>1, <3>2, Cancel
    <3>. QED  BY <3>1, <3>2, <3>3
  <2>. QED  BY <2>4, <2>5
<1>12. Tree(l2, s2)
  BY <1>3, <1>8, <1>9, <1>11 DEF Tree
<1>13. \A a \in DOMAIN l : a = gone \/ ~ Under(up, a) \/ Under(from, a)
  <2>. SUFFICES ASSUME NEW a \in DOMAIN l, Under(up, a), ~ Under(from, a) PROVE a = gone
    OBVIOUS
  <2>1. a = up \/ Under(from, a) \/ Under(gone, a)
    BY <1>0, UnderParent
  <2>2. a # up
    BY <1>0 DEF Shape
  <2>3. Under(gone, a) => a = gone
    BY <1>0, UnderLeaf
  <2>. QED  BY <2>1, <2>2, <2>3
<1>14. Under(up, gone) /\ ~ Under(from, gone)
  <2>1. Under(up, Child(up, k)) /\ Under(Child(up, k), Child(up, k))
    BY <1>0, Turn, Children, UnderOrder
  <2>2. ~ (Under(Child(up, 1), gone) /\ Under(Child(up, 2), gone))
    BY <1>0, Children
  <2>. QED  BY <2>1, <2>2
<1>15. LeavesOf(l2) = LeavesOf(l) \ {l[gone]}
  <2>1. ASSUME NEW b \in DOMAIN l2 PROVE l2[b] \in LeavesOf(l) \ {l[gone]}
    <3>1. PICK c \in DOMAIN l : l2[b] = l[c] /\ (~ Under(up, c) \/ Under(from, c))
      BY <1>6, <1>10
    <3>2. c # gone
      BY <1>14, <3>1
    <3>. QED  BY <1>0, <3>1, <3>2 DEF LeavesOf
  <2>2. ASSUME NEW a \in DOMAIN l, a # gone PROVE l[a] \in LeavesOf(l2)
    <3>1. CASE ~ Under(up, a)
      BY <1>1, <1>4, <3>1 DEF LeavesOf
    <3>2. CASE Under(from, a)
      <4>1. PICK w \in Paths : a = Join(from, w)
        BY <3>2 DEF Under
      <4>2. Join(up, w) \in DOMAIN l2 /\ l2[Join(up, w)] = l[a]
        BY <1>1, <1>5, <4>1
      <4>. QED  BY <4>2 DEF LeavesOf
    <3>. QED  BY <1>13, <2>2, <3>1, <3>2
  <2>. QED  BY <2>1, <2>2 DEF LeavesOf
<1>16. up \in DOMAIN l2 \cup DOMAIN s2
  <2>1. from \in DOMAIN l \cup DOMAIN s
    BY <1>0 DEF Shape
  <2>2. Join(from, Root) = from /\ Join(up, Root) = up /\ Root \in Paths
    BY <1>0, Chain
  <2>3. \A w \in Paths : Join(from, w) \in DOMAIN s => Join(up, w) \in DOMAIN s2
    BY <1>2 DEF LiftedSet
  <2>. QED  BY <1>5, <2>1, <2>2, <2>3
<1>. QED  BY <1>1, <1>4, <1>5, <1>12, <1>13, <1>15, <1>16

\* What Without takes away.
LEMMA WithoutSays ==
    ASSUME NEW l, NEW s, Tree(l, s), NEW p \in LeavesOf(l), LeavesOf(l) # {p}
    PROVE  \E up \in DOMAIN s, k \in {1, 2}, i \in {1, 2} :
               /\ k # i /\ up \in Paths /\ PathTo(l, p) = Child(up, k) /\ Up(PathTo(l, p)) = up
               /\ Without(l, s, p) = <<Lifted(l, Child(up, i)), Lifted(s, Child(up, i))>>
<1>1. PICK path : path = PathTo(l, p)
  OBVIOUS
<1>2. path \in DOMAIN l /\ l[path] = p /\ path \in Paths /\ Shape(DOMAIN l, DOMAIN s)
  BY <1>1, PathOf DEF Tree
<1>3. path # Root
  <2>1. PICK b \in DOMAIN l : l[b] # p
    BY <1>2 DEF LeavesOf
  <2>2. Under(Root, b) /\ b # path
    BY <1>2, <2>1, PathOf, UnderOrder
  <2>3. Under(path, b) => b = path
    BY <1>2, UnderLeaf
  <2>. QED  BY <2>2, <2>3
<1>4. PICK up \in Paths, k \in {1, 2} : up = Up(path) /\ k = Side(path) /\ path = Child(up, k)
  BY <1>2, <1>3, LastTurn
<1>5. up \in DOMAIN s
  <2>1. path = Join(up, One(k)) /\ One(k) \in Paths /\ One(k) # Root
    BY <1>4, Turn
  <2>. QED  BY <1>2, <2>1 DEF Shape
<1>6. PICK i \in {1, 2} : i = Other(k) /\ i # k
  BY DEF Other
<1>7. Without(l, s, p) = <<Lifted(l, Child(up, i)), Lifted(s, Child(up, i))>>
  BY <1>1, <1>4, <1>6 DEF Without, Child
<1>. QED  BY <1>1, <1>4, <1>5, <1>6, <1>7

\* The tree without p: the others are there, in their order.
LEMMA WithoutIs ==
    ASSUME NEW l, NEW s, Tree(l, s), NEW p \in LeavesOf(l), LeavesOf(l) # {p},
           NEW t, t = Without(l, s, p)
    PROVE  /\ Tree(t[1], t[2]) /\ t = <<t[1], t[2]>> /\ LeavesOf(t[1]) = LeavesOf(l) \ {p}
           /\ \A q, r \in LeavesOf(t[1]) : Goes(l, q, r) => Goes(t[1], q, r)
           /\ Up(PathTo(l, p)) \in DOMAIN t[1] \cup DOMAIN t[2] /\ Up(PathTo(l, p)) \in Paths
<1>1. PICK up \in DOMAIN s, k \in {1, 2}, i \in {1, 2} :
          /\ k # i /\ up \in Paths /\ PathTo(l, p) = Child(up, k) /\ Up(PathTo(l, p)) = up
          /\ t = <<Lifted(l, Child(up, i)), Lifted(s, Child(up, i))>>
  BY WithoutSays
<1>2. PICK gone, from, l2, s2 : gone = Child(up, k) /\ from = Child(up, i) /\ l2 = Lifted(l, from) /\ s2 = Lifted(s, from)
  OBVIOUS
<1>3. t[1] = l2 /\ t[2] = s2 /\ t = <<l2, s2>>
  BY <1>1, <1>2
<1>4. gone \in DOMAIN l /\ l[gone] = p /\ from \in Paths
  BY <1>1, <1>2, PathOf, Turn
<1>5. /\ Tree(l2, s2) /\ up \in DOMAIN l2 \cup DOMAIN s2
      /\ LeavesOf(l2) = LeavesOf(l) \ {p}
      /\ \A a \in DOMAIN l : a = gone \/ ~ Under(up, a) \/ Under(from, a)
      /\ \A a \in DOMAIN l : ~ Under(up, a) => a \in DOMAIN l2 /\ l2[a] = l[a]
      /\ \A w \in Paths : Join(from, w) \in DOMAIN l => Join(up, w) \in DOMAIN l2 /\ l2[Join(up, w)] = l[Join(from, w)]
  BY <1>1, <1>2, <1>4, LiftedTree
<1>6. ASSUME NEW q \in LeavesOf(l2)
      PROVE  \/ ~ Under(up, PathTo(l, q)) /\ PathTo(l2, q) = PathTo(l, q)
             \/ \E w \in Paths : PathTo(l, q) = Join(from, w) /\ PathTo(l2, q) = Join(up, w)
  <2>1. PICK a \in DOMAIN l : a = PathTo(l, q) /\ l[a] = q
    BY <1>5, PathOf
  <2>2. a # gone
    BY <1>4, <1>5, <2>1
  <2>3. CASE ~ Under(up, a)
    <3>1. PathTo(l2, l2[a]) = a
      BY <1>5, <2>3, PathOf
    <3>. QED  BY <1>5, <2>1, <2>3, <3>1
  <2>4. CASE Under(from, a)
    <3>1. PICK w \in Paths : a = Join(from, w)
      BY <2>4 DEF Under
    <3>2. PICK b \in DOMAIN l2 : b = Join(up, w) /\ l2[b] = q
      BY <1>5, <2>1, <3>1
    <3>3. PathTo(l2, l2[b]) = b
      BY <1>5, PathOf
    <3>. QED  BY <2>1, <3>1, <3>2, <3>3
  <2>. QED  BY <1>5, <2>2, <2>3, <2>4
<1>7. ASSUME NEW q \in LeavesOf(l2), NEW r \in LeavesOf(l2), Goes(l, q, r) PROVE Goes(l2, q, r)
  <2>1. PICK a \in Paths, b \in Paths, c \in Paths, d \in Paths :
            a = PathTo(l, q) /\ b = PathTo(l, r) /\ c = PathTo(l2, q) /\ d = PathTo(l2, r)
    BY <1>5, PathOf
  <2>2. Precedes(a, b)
    BY <1>7, <2>1 DEF Goes
  <2>3. (~ Under(up, a) /\ c = a) \/ \E w \in Paths : a = Join(from, w) /\ c = Join(up, w)
    BY <1>6, <2>1
  <2>4. (~ Under(up, b) /\ d = b) \/ \E w \in Paths : b = Join(from, w) /\ d = Join(up, w)
    BY <1>6, <2>1
  <2>5. \A w \in Paths : Under(up, Join(up, w)) /\ Under(up, Join(from, w))
    <3>. TAKE w \in Paths
    <3>1. Under(Child(up, i), Join(from, w))
      BY <1>2 DEF Under
    <3>2. Under(up, Join(from, w))
      BY <1>1, <3>1, UnderChild
    <3>. QED  BY <3>2 DEF Under
  <2>6. Precedes(c, d)
    <3>1. CASE ~ Under(up, a) /\ c = a /\ ~ Under(up, b) /\ d = b
      BY <2>2, <3>1
    <3>2. ASSUME ~ Under(up, a), c = a, NEW w \in Paths, b = Join(from, w), d = Join(up, w) PROVE Precedes(c, d)
      <4>1. Under(up, b) /\ Under(up, d)
        BY <2>5, <3>2
      <4>2. Precedes(a, up)
        BY <1>1, <2>2, <3>2, <4>1, BeforeAbove
      <4>. QED  BY <1>1, <3>2, <4>1, <4>2, BelowBefore
    <3>3. ASSUME ~ Under(up, b), d = b, NEW w \in Paths, a = Join(from, w), c = Join(up, w) PROVE Precedes(c, d)
      <4>1. Under(up, a) /\ Under(up, c)
        BY <2>5, <3>3
      <4>2. Precedes(up, b)
        BY <1>1, <2>2, <3>3, <4>1, BeforeAbove
      <4>. QED  BY <1>1, <3>3, <4>1, <4>2, BelowBefore
    <3>4. ASSUME NEW v \in Paths, NEW w \in Paths, a = Join(from, v), c = Join(up, v), b = Join(from, w), d = Join(up, w)
          PROVE  Precedes(c, d)
      <4>1. Precedes(v, w)
        BY <1>4, <2>2, <3>4, OrderUnder
      <4>. QED  BY <1>1, <3>4, <4>1, OrderUnder
    <3>. QED  BY <2>3, <2>4, <3>1, <3>2, <3>3, <3>4
  <2>. QED  BY <2>1, <2>6 DEF Goes
<1>. QED  BY <1>1, <1>3, <1>5, <1>7

-----------------------------------------------------------------------------
(* A pane comes, two swap, one is dropped. *)

\* The others keep their order when a leaf becomes a split.
LEMMA WithOrder ==
    ASSUME NEW l, NEW s, Tree(l, s), NEW path \in DOMAIN l, NEW p \in Panes \ LeavesOf(l),
           NEW side \in {1, 2}, NEW dir \in Dirs, NEW t, t = With(l, s, path, p, side, dir)
    PROVE  /\ \A q, r \in LeavesOf(l) : Goes(l, q, r) => Goes(t[1], q, r)
           /\ PathTo(t[1], p) = Child(path, side)
<1>1. /\ Tree(t[1], t[2]) /\ LeavesOf(t[1]) = LeavesOf(l) \cup {p}
      /\ Child(path, side) \in DOMAIN t[1] /\ t[1][Child(path, side)] = p
      /\ Child(path, Other(side)) \in DOMAIN t[1] /\ t[1][Child(path, Other(side))] = l[path]
      /\ \A q \in DOMAIN l \ {path} : q \in DOMAIN t[1] /\ t[1][q] = l[q]
  BY WithIs
<1>2. PICK l2, s2, away : l2 = t[1] /\ s2 = t[2] /\ away = Child(path, Other(side))
  OBVIOUS
<1>3. path \in Paths /\ Under(path, away) /\ away \in Paths
  <2>1. path \in Paths
    BY PathOf
  <2>2. Other(side) \in {1, 2}
    BY DEF Other
  <2>. QED  BY <1>2, <2>1, <2>2, Children
<1>4. ASSUME NEW q \in LeavesOf(l)
      PROVE  PathTo(l2, q) = IF PathTo(l, q) = path THEN away ELSE PathTo(l, q)
  <2>1. PICK a \in DOMAIN l : a = PathTo(l, q) /\ l[a] = q
    BY PathOf
  <2>2. \A b \in DOMAIN l2 : PathTo(l2, l2[b]) = b
    BY <1>1, <1>2, PathOf
  <2>3. CASE a = path
    <3>1. away \in DOMAIN l2 /\ l2[away] = q
      BY <1>1, <1>2, <2>1, <2>3
    <3>. QED  BY <2>1, <2>2, <2>3, <3>1
  <2>4. CASE a # path
    <3>1. a \in DOMAIN l2 /\ l2[a] = q
      BY <1>1, <1>2, <2>1, <2>4
    <3>. QED  BY <2>1, <2>2, <2>4, <3>1
  <2>. QED  BY <2>3, <2>4
<1>5. ASSUME NEW q \in LeavesOf(l), NEW r \in LeavesOf(l), Goes(l, q, r) PROVE Goes(l2, q, r)
  <2>0. PICK c, d : c = PathTo(l2, q) /\ d = PathTo(l2, r)
    OBVIOUS
  <2>1. PICK a \in Paths, b \in Paths : a = PathTo(l, q) /\ b = PathTo(l, r)
    BY PathOf
  <2>2. Precedes(a, b)
    BY <1>5, <2>1 DEF Goes
  <2>3. a # b
    BY <2>2, PrecedesOrder
  <2>4. c = (IF a = path THEN away ELSE a) /\ d = (IF b = path THEN away ELSE b)
    BY <1>4, <2>0, <2>1
  <2>5. Precedes(c, d)
    BY <1>3, <2>2, <2>3, <2>4, BelowBefore
  <2>. QED  BY <2>0, <2>5 DEF Goes
<1>6. PathTo(t[1], p) = Child(path, side)
  <2>1. \A b \in DOMAIN t[1] : PathTo(t[1], t[1][b]) = b
    BY <1>1, PathOf
  <2>. QED  BY <1>1, <2>1
<1>. QED  BY <1>2, <1>5, <1>6

\* A tree whose split gets another ratio.
LEMMA RatioTree ==
    ASSUME NEW l, NEW s, Tree(l, s), NEW at \in DOMAIN s, NEW ratio \in 1 .. Steps - 1
    PROVE  Tree(l, [s EXCEPT ![at].ratio = ratio])
<1>1. s \in [DOMAIN s -> Splits] /\ s[at] \in Splits
  BY DEF Tree
<1>2. PICK n : n = [s[at] EXCEPT !.ratio = ratio]
  OBVIOUS
<1>3. n \in Splits
  BY <1>1, <1>2 DEF Splits
<1>4. PICK g : g = [s EXCEPT ![at].ratio = ratio]
  OBVIOUS
<1>5. g = [s EXCEPT ![at] = n]
  BY <1>2, <1>4
<1>6. DOMAIN g = DOMAIN s /\ g \in [DOMAIN s -> Splits]
  BY <1>1, <1>3, <1>5
<1>. QED  BY <1>4, <1>6 DEF Tree

\* Two panes in each other's place.
Swapped(l, p, target) == [path \in DOMAIN l |-> CASE l[path] = p -> target [] l[path] = target -> p [] OTHER -> l[path]]

\* A swap leaves a tree of the same panes, the two in each other's place (movePaneNode).
LEMMA SwapIs ==
    ASSUME NEW l, NEW s, Tree(l, s), NEW p \in LeavesOf(l), NEW target \in LeavesOf(l), p # target
    PROVE  /\ Tree(Swapped(l, p, target), s) /\ LeavesOf(Swapped(l, p, target)) = LeavesOf(l)
           /\ Swapped(l, p, target)[PathTo(l, p)] = target /\ Swapped(l, p, target)[PathTo(l, target)] = p
<1>1. PICK f : f = Swapped(l, p, target)
  OBVIOUS
<1>2. /\ DOMAIN f = DOMAIN l /\ f = [path \in DOMAIN l |-> f[path]]
      /\ \A a \in DOMAIN l : /\ l[a] = p => f[a] = target
                             /\ l[a] = target => f[a] = p
                             /\ l[a] # p /\ l[a] # target => f[a] = l[a]
  BY <1>1 DEF Swapped
<1>3. /\ l \in [DOMAIN l -> Panes] /\ s \in [DOMAIN s -> Splits] /\ Shape(DOMAIN l, DOMAIN s)
      /\ \A a, b \in DOMAIN l : l[a] = l[b] => a = b
  BY DEF Tree
<1>4. PICK c \in DOMAIN l, d \in DOMAIN l : c = PathTo(l, p) /\ l[c] = p /\ d = PathTo(l, target) /\ l[d] = target
  BY PathOf
<1>5. \A a \in DOMAIN l : \/ a = c /\ f[a] = target
                          \/ a = d /\ f[a] = p
                          \/ a # c /\ a # d /\ f[a] = l[a] /\ l[a] # p /\ l[a] # target
  BY <1>2, <1>3, <1>4
<1>6. f \in [DOMAIN l -> Panes]
  BY <1>2, <1>3, <1>4, <1>5
<1>7. \A a, b \in DOMAIN l : f[a] = f[b] => a = b
  BY <1>3, <1>5
<1>8. LeavesOf(f) = LeavesOf(l)
  <2>1. \A a \in DOMAIN l : f[a] \in LeavesOf(l)
    BY <1>5 DEF LeavesOf
  <2>2. \A a \in DOMAIN l : \E b \in DOMAIN l : f[b] = l[a]
    BY <1>3, <1>4, <1>5
  <2>. QED  BY <1>2, <2>1, <2>2 DEF LeavesOf
<1>9. Tree(f, s)
  BY <1>2, <1>3, <1>6, <1>7 DEF Tree
<1>. QED  BY <1>1, <1>2, <1>4, <1>8, <1>9

\* What a drop leaves: the pane beside its target, the others in their order.
LEMMA MovedIs ==
    ASSUME Tree(leaf, split), NEW p, NEW target, p # target, {p, target} \subseteq Shown, NEW zone \in Zones, zone # "center",
           NEW t, t = Moved(p, target, zone)
    PROVE  /\ Tree(t[1], t[2]) /\ t = <<t[1], t[2]>> /\ LeavesOf(t[1]) = Shown
           /\ LET at == PathTo(t[1], p)
              IN  /\ Side(at) = SideOf(zone)
                  /\ t[2][Up(at)].dir = DirOf(zone)
                  /\ t[1][Append(Up(at), Other(Side(at)))] = target
           /\ \A q, r \in Shown \ {p} : Before(t[1], q, r) = Before(leaf, q, r)
<1>1. PICK rest : rest = Without(leaf, split, p)
  OBVIOUS
<1>2. p \in LeavesOf(leaf) /\ target \in LeavesOf(leaf) /\ LeavesOf(leaf) # {p} /\ Shown = LeavesOf(leaf)
  BY DEF Shown
<1>3. /\ Tree(rest[1], rest[2]) /\ LeavesOf(rest[1]) = Shown \ {p}
      /\ \A q, r \in LeavesOf(rest[1]) : Goes(leaf, q, r) => Goes(rest[1], q, r)
  BY <1>1, <1>2, WithoutIs
<1>4. PICK l, s : l = rest[1] /\ s = rest[2]
  OBVIOUS
<1>5. PICK path \in DOMAIN l : path = PathTo(l, target) /\ l[path] = target
  BY <1>2, <1>3, <1>4, PathOf
<1>6. PICK side \in {1, 2}, dir \in Dirs : side = SideOf(zone) /\ dir = DirOf(zone)
  BY DEF SideOf, DirOf, Dirs
<1>7. t = With(l, s, path, p, side, dir)
  BY <1>1, <1>4, <1>5, <1>6 DEF Moved
<1>8. p \in Panes \ LeavesOf(l) /\ Tree(l, s) /\ path \in Paths
  BY <1>2, <1>3, <1>4, PathOf
<1>9. /\ Tree(t[1], t[2]) /\ t = <<t[1], t[2]>> /\ LeavesOf(t[1]) = LeavesOf(l) \cup {p}
      /\ t[1][Child(path, Other(side))] = l[path] /\ t[2][path].dir = dir
  BY <1>7, <1>8, WithIs
<1>10. /\ \A q, r \in LeavesOf(l) : Goes(l, q, r) => Goes(t[1], q, r)
       /\ PathTo(t[1], p) = Child(path, side)
  BY <1>7, <1>8, WithOrder
<1>11. LeavesOf(t[1]) = Shown
  BY <1>2, <1>3, <1>4, <1>9
<1>12. Up(Child(path, side)) = path /\ Side(Child(path, side)) = side
  BY <1>8, Turn
<1>13. LET at == PathTo(t[1], p)
       IN  Side(at) = SideOf(zone) /\ t[2][Up(at)].dir = DirOf(zone) /\ t[1][Append(Up(at), Other(Side(at)))] = target
  BY <1>5, <1>6, <1>9, <1>10, <1>12 DEF Child
<1>14. ASSUME NEW q \in Shown \ {p}, NEW r \in Shown \ {p} PROVE Before(t[1], q, r) = Before(leaf, q, r)
  <2>1. PICK Q : Q = Shown \ {p}
    OBVIOUS
  <2>2. Q = LeavesOf(l) /\ Q \subseteq LeavesOf(leaf) /\ Q \subseteq LeavesOf(t[1])
    BY <1>2, <1>3, <1>4, <1>11, <2>1
  <2>3. \A x, y \in Q : Goes(leaf, x, y) => Goes(t[1], x, y)
    BY <1>3, <1>4, <1>10, <2>2
  <2>4. \A x, y \in Q : Goes(t[1], x, y) <=> Goes(leaf, x, y)
    BY <1>9, <2>2, <2>3, OrderKept
  <2>5. Before(t[1], q, r) <=> q = r \/ Goes(t[1], q, r)
    BY <1>9, <2>1, <2>2, BeforeIs
  <2>6. Before(leaf, q, r) <=> q = r \/ Goes(leaf, q, r)
    BY <2>1, <2>2, BeforeIs
  <2>7. Before(t[1], q, r) <=> Before(leaf, q, r)
    BY <2>1, <2>4, <2>5, <2>6
  <2>. QED  BY <2>7 DEF Before
<1>. QED  BY <1>9, <1>11, <1>13, <1>14

-----------------------------------------------------------------------------
(* The invariant, and what a render makes of it. *)

\* The page follows the tree: PageFollowsTree, with the tree's shape said by Tree.
PageHolds ==
    /\ Tree(leaf, split)
    /\ announced = <<leaf, split>>
    /\ grid \in [DOMAIN grid -> Panes]
    /\ slides \in [DOMAIN slides -> BOOLEAN] /\ DOMAIN slides \subseteq Panes
    /\ Shown \subseteq LeavesOf(grid)
    /\ \A p \in LeavesOf(grid) \ Shown : p \in DOMAIN slides /\ slides[p]
    /\ (\A p \in DOMAIN slides : ~ slides[p]) => grid = leaf

\* The keyboard is where it can be seen: KeysGoWhereSeen, with the types it needs.
KeysHold ==
    /\ viewHidden \in BOOLEAN /\ broadcasting \in BOOLEAN
    /\ KeysGoWhereSeen

\* The inductive invariant.
IInv == PageHolds /\ KeysHold

\* The invariant says what the runs check, the count of the nodes included.
LEMMA IInvSays == IInv => PageFollowsTree /\ KeysGoWhereSeen /\ LeavesOf(leaf) \subseteq Panes /\ NoPane \notin Panes
<1>. SUFFICES ASSUME IInv PROVE PageFollowsTree /\ KeysGoWhereSeen /\ LeavesOf(leaf) \subseteq Panes /\ NoPane \notin Panes
  OBVIOUS
<1>1. Tree(leaf, split) /\ KeysGoWhereSeen /\ viewHidden \in BOOLEAN /\ broadcasting \in BOOLEAN
  BY DEF IInv, PageHolds, KeysHold
<1>2. Shape(DOMAIN leaf, DOMAIN split) /\ leaf \in [DOMAIN leaf -> Panes] /\ split \in [DOMAIN split -> Splits]
  BY <1>1 DEF Tree
<1>3. {Up(path) : path \in (DOMAIN leaf \cup DOMAIN split) \ {<< >>}} = DOMAIN split
  BY <1>2, ShapeSaid DEF Root
<1>4. /\ DOMAIN leaf \subseteq Seq({1, 2}) /\ DOMAIN leaf \cap DOMAIN split = {}
      /\ Cardinality(DOMAIN leaf) = Cardinality(DOMAIN split) + 1
  BY <1>2 DEF Shape, Paths
<1>5. Cardinality(Shown) = Cardinality(DOMAIN leaf) /\ Shown \subseteq Panes
  BY <1>1, CountPanes, PathOf DEF Shown
<1>6. split \in [DOMAIN split -> [dir : Dirs, ratio : 1 .. Steps - 1]]
  BY <1>2 DEF Splits
<1>7. /\ zoom \in Panes \cup {NoPane} /\ focused \in Panes
      /\ lit \subseteq Panes /\ offscreen \subseteq Panes /\ outlined \subseteq Panes
  BY <1>1, <1>5 DEF KeysGoWhereSeen
<1>8. TypeOK
  BY <1>1, <1>2, <1>3, <1>4, <1>5, <1>6, <1>7 DEF TypeOK, IInv, PageHolds
<1>9. PageFollowsTree
  BY <1>8 DEF PageFollowsTree, IInv, PageHolds, tree
<1>10. Shown = LeavesOf(leaf) /\ NoPane \notin Panes
  BY LayoutAssumption DEF Shown
<1>. QED  BY <1>1, <1>5, <1>9, <1>10

\* A render: the page is the tree, nobody is zoomed, each pane knows whether it is seen.
LEMMA Rendered ==
    ASSUME IInv, NEW l, NEW s, Tree(l, s), NEW born, born \subseteq LeavesOf(l), NEW p \in LeavesOf(l),
           LeavesOf(l) = (LeavesOf(l) \cap Shown) \cup born,
           leaf' = l, split' = s, announced' = <<l, s>>, Render(l, born, viewHidden),
           focused' = p, lit' = {p}, viewHidden' = viewHidden, broadcasting' = broadcasting
    PROVE  IInv'
<1>1. Tree(leaf', split') /\ announced' = <<leaf', split'>> /\ Shown' = LeavesOf(l) /\ l \in [DOMAIN l -> Panes]
  BY DEF Shown, Tree
<1>2. /\ grid' = l /\ slides' = [q \in DOMAIN slides |-> FALSE] /\ zoom' = NoPane
      /\ offscreen' = Unseen(l, viewHidden, NoPane)
      /\ outlined' = (outlined \cap LeavesOf(l)) \cup (IF broadcasting THEN born ELSE {})
  BY DEF Render
<1>3. PageHolds'
  BY <1>1, <1>2 DEF IInv, PageHolds
<1>4. offscreen' = {q \in LeavesOf(l) : viewHidden \/ zoom' \notin {NoPane, q}}
  BY <1>2 DEF Unseen
<1>5. outlined' = IF broadcasting THEN LeavesOf(l) ELSE {}
  <2>1. outlined = IF broadcasting THEN Shown ELSE {}
    BY DEF IInv, KeysHold, KeysGoWhereSeen
  <2>. QED  BY <1>2, <2>1
<1>6. KeysGoWhereSeen'
  BY <1>1, <1>2, <1>4, <1>5 DEF KeysGoWhereSeen
<1>7. KeysHold'
  BY <1>6 DEF IInv, KeysHold
<1>. QED  BY <1>3, <1>7 DEF IInv

\* One pane on the page, in the tree and with the keyboard (init).
LEMMA InitHolds == Init => IInv
<1>. SUFFICES ASSUME Init PROVE IInv
  OBVIOUS
<1>1. PICK p \in Panes : /\ leaf = Leaf(p)[1] /\ split = Leaf(p)[2] /\ announced = Leaf(p)
                         /\ grid = Leaf(p)[1]
                         /\ slides = [q \in {} |-> FALSE]
                         /\ zoom = NoPane
                         /\ focused = p /\ lit = {p}
                         /\ viewHidden = FALSE /\ offscreen = {}
                         /\ broadcasting = FALSE /\ outlined = {}
  BY DEF Init
<1>2. Tree(leaf, split) /\ LeavesOf(leaf) = {p} /\ announced = <<leaf, split>>
  BY <1>1, LeafIs
<1>3. leaf \in [DOMAIN leaf -> Panes]
  BY <1>2 DEF Tree
<1>4. PageHolds
  BY <1>1, <1>2, <1>3 DEF PageHolds, Shown
<1>5. offscreen = {q \in {p} : viewHidden \/ zoom \notin {NoPane, q}}
  BY <1>1
<1>6. KeysHold
  BY <1>1, <1>2, <1>5 DEF KeysHold, KeysGoWhereSeen, Shown
<1>. QED  BY <1>4, <1>6 DEF IInv

\* What the invariant says, at hand for the actions.
LEMMA AtHand ==
    ASSUME IInv
    PROVE  /\ Tree(leaf, split) /\ Shown = LeavesOf(leaf) /\ Shown \subseteq Panes /\ announced = <<leaf, split>>
           /\ focused \in Shown /\ lit = {focused}
           /\ viewHidden \in BOOLEAN /\ broadcasting \in BOOLEAN
           /\ \A p : Focus(p) => focused' = p /\ lit' = {p}
<1>1. /\ Tree(leaf, split) /\ announced = <<leaf, split>> /\ focused \in Shown /\ lit = {focused}
      /\ viewHidden \in BOOLEAN /\ broadcasting \in BOOLEAN
  BY DEF IInv, PageHolds, KeysHold, KeysGoWhereSeen
<1>2. Shown = LeavesOf(leaf) /\ Shown \subseteq Panes
  BY <1>1, PathOf DEF Shown
<1>3. \A p : Focus(p) => focused' = p /\ lit' = {p}
  BY <1>1 DEF Focus
<1>. QED  BY <1>1, <1>2, <1>3

\* A render of the tree as it is.
LEMMA RenderedAgain ==
    ASSUME IInv, NEW p \in Shown, Render(leaf, {}, viewHidden), Focus(p), leaf' = leaf, split' = split,
           announced' = announced, viewHidden' = viewHidden, broadcasting' = broadcasting
    PROVE  IInv'
<1>1. /\ Tree(leaf, split) /\ Shown = LeavesOf(leaf) /\ announced' = <<leaf, split>> /\ focused' = p /\ lit' = {p}
  BY AtHand
<1>2. LeavesOf(leaf) = (LeavesOf(leaf) \cap Shown) \cup {}
  BY <1>1
<1>. QED  BY <1>1, <1>2, Rendered

\* A split puts a fresh pane beside another, or only ends the zoom (splitPane).
LEMMA SplitPaneHolds ==
    ASSUME IInv, NEW p \in Panes, NEW dir \in Dirs, SplitPane(p, dir)
    PROVE  IInv'
<1>1. p \in Shown /\ viewHidden' = viewHidden /\ broadcasting' = broadcasting
  BY DEF SplitPane
<1>2. /\ Tree(leaf, split) /\ Shown = LeavesOf(leaf) /\ Shown \subseteq Panes
      /\ \A q : Focus(q) => focused' = q /\ lit' = {q}
  BY AtHand
<1>3. ASSUME NEW fresh \in Free, NEW t, t = With(leaf, split, PathTo(leaf, p), fresh, 2, dir),
             Changed(t), Render(t[1], {fresh}, viewHidden), Focus(fresh)
      PROVE  IInv'
  <2>1. PICK path \in DOMAIN leaf : path = PathTo(leaf, p)
    BY <1>1, <1>2, PathOf
  <2>2. fresh \in Panes \ LeavesOf(leaf)
    BY <1>2 DEF Free
  <2>3. Tree(t[1], t[2]) /\ t = <<t[1], t[2]>> /\ LeavesOf(t[1]) = LeavesOf(leaf) \cup {fresh}
    BY <1>2, <1>3, <2>1, <2>2, WithIs
  <2>4. leaf' = t[1] /\ split' = t[2] /\ announced' = <<t[1], t[2]>>
    BY <1>3, <2>3 DEF Changed
  <2>5. LeavesOf(t[1]) = (LeavesOf(t[1]) \cap Shown) \cup {fresh} /\ {fresh} \subseteq LeavesOf(t[1]) /\ fresh \in LeavesOf(t[1])
    BY <1>2, <2>3
  <2>6. focused' = fresh /\ lit' = {fresh}
    BY <1>2, <1>3
  <2>7. PICK l, s : l = t[1] /\ s = t[2]
    OBVIOUS
  <2>. QED  BY <1>1, <1>3, <2>3, <2>4, <2>5, <2>6, <2>7, Rendered
<1>4. ASSUME Render(leaf, {}, viewHidden), Focus(focused), UNCHANGED <<tree, announced>>
      PROVE  IInv'
  <2>1. leaf' = leaf /\ split' = split /\ announced' = announced
    BY <1>4 DEF tree
  <2>. QED  BY <1>1, <1>4, <2>1, AtHand, RenderedAgain
<1>. QED  BY <1>3, <1>4 DEF SplitPane

\* A drop, when it changes anything (movePane).
LEMMA MovePaneHolds ==
    ASSUME IInv, NEW p, NEW target, NEW zone \in Zones, MovePane(p, target, zone)
    PROVE  IInv'
<1>1. /\ p # target /\ {p, target} \subseteq Shown
      /\ Changed(Moved(p, target, zone)) /\ Render(Moved(p, target, zone)[1], {}, viewHidden)
      /\ Focus(p) /\ viewHidden' = viewHidden /\ broadcasting' = broadcasting
  BY DEF MovePane, CanMove
<1>2. /\ Tree(leaf, split) /\ Shown = LeavesOf(leaf) /\ Shown \subseteq Panes /\ focused' = p /\ lit' = {p}
  BY <1>1, AtHand
<1>3. PICK t : t = Moved(p, target, zone)
  OBVIOUS
<1>4. Tree(t[1], t[2]) /\ t = <<t[1], t[2]>> /\ LeavesOf(t[1]) = Shown
  <2>1. CASE zone = "center"
    <3>1. t = <<Swapped(leaf, p, target), split>>
      BY <1>3, <2>1 DEF Moved, Swapped
    <3>2. Tree(Swapped(leaf, p, target), split) /\ LeavesOf(Swapped(leaf, p, target)) = LeavesOf(leaf)
      BY <1>1, <1>2, SwapIs
    <3>. QED  BY <1>2, <3>1, <3>2
  <2>2. CASE zone # "center"
    BY <1>1, <1>2, <1>3, <2>2, MovedIs
  <2>. QED  BY <2>1, <2>2
<1>5. PICK l, s : l = t[1] /\ s = t[2]
  OBVIOUS
<1>6. leaf' = l /\ split' = s /\ announced' = <<l, s>> /\ Render(l, {}, viewHidden)
  BY <1>1, <1>3, <1>4, <1>5 DEF Changed
<1>7. Tree(l, s) /\ LeavesOf(l) = (LeavesOf(l) \cap Shown) \cup {} /\ p \in LeavesOf(l)
  BY <1>1, <1>4, <1>5
<1>. QED  BY <1>1, <1>2, <1>6, <1>7, Rendered

\* The only pane is closed: a fresh one takes its place (closePane).
LEMMA CloseLastHolds ==
    ASSUME IInv, NEW p \in Panes, CloseLast(p)
    PROVE  IInv'
<1>1. PICK fresh \in Free : /\ Changed(Leaf(fresh)) /\ Render(Leaf(fresh)[1], {fresh}, viewHidden)
                            /\ Focus(fresh) /\ viewHidden' = viewHidden /\ broadcasting' = broadcasting
  BY DEF CloseLast
<1>2. focused' = fresh /\ lit' = {fresh} /\ fresh \in Panes
  BY <1>1, AtHand DEF Free
<1>3. PICK l, s : l = Leaf(fresh)[1] /\ s = Leaf(fresh)[2]
  OBVIOUS
<1>4. Tree(l, s) /\ LeavesOf(l) = {fresh} /\ Leaf(fresh) = <<l, s>>
  BY <1>2, <1>3, LeafIs
<1>5. leaf' = l /\ split' = s /\ announced' = <<l, s>> /\ Render(l, {fresh}, viewHidden)
  BY <1>1, <1>3, <1>4 DEF Changed
<1>6. LeavesOf(l) = (LeavesOf(l) \cap Shown) \cup {fresh} /\ {fresh} \subseteq LeavesOf(l) /\ fresh \in LeavesOf(l)
  BY <1>4
<1>. QED  BY <1>1, <1>2, <1>4, <1>5, <1>6, Rendered

-----------------------------------------------------------------------------
(* Closing and restoring. *)

\* The focus after a close goes to a pane of the tree that is left.
LEMMA NextIsThere ==
    ASSUME Tree(leaf, split), NEW p \in LeavesOf(leaf), LeavesOf(leaf) # {p}, NEW t, t = Without(leaf, split, p)
    PROVE  NextAfter(p, t) \in LeavesOf(t[1])
<1>1. PICK up \in Paths : up = Up(PathTo(leaf, p)) /\ Tree(t[1], t[2]) /\ up \in DOMAIN t[1] \cup DOMAIN t[2]
  BY WithoutIs
<1>2. PICK l, s : l = t[1] /\ s = t[2]
  OBVIOUS
<1>3. Shape(DOMAIN l, DOMAIN s) /\ Tree(l, s) /\ DOMAIN l \subseteq Paths
  BY <1>1, <1>2, PathOf DEF Tree
<1>4. PICK a \in DOMAIN l : Under(up, a)
  BY <1>1, <1>2, <1>3, LeafUnder
<1>5. IsPrefix(up, a)
  BY <1>3, <1>4, PrefixIs DEF Under
<1>6. PICK S : S = {path \in DOMAIN l : IsPrefix(up, path)}
  OBVIOUS
<1>7. S \subseteq DOMAIN l /\ S # {}
  BY <1>5, <1>6
<1>8. FirstOf(l, S) \in LeavesOf(l)
  BY <1>3, <1>7, FirstLeaf
<1>9. NextAfter(p, t) = FirstOf(l, S)
  BY <1>1, <1>2, <1>6 DEF NextAfter
<1>. QED  BY <1>2, <1>8, <1>9

\* A pane is closed, at once or sliding shut in the grid as it is (closePane,
\* _animateLeave): until the timer rings, the page holds one pane the tree does not.
LEMMA ClosePaneHolds ==
    ASSUME IInv, NEW p \in Panes, NEW slide \in BOOLEAN, ClosePane(p, slide)
    PROVE  IInv'
<1>1. PICK t, old : t = Without(leaf, split, p) /\ old = [q \in DOMAIN slides |-> slides[q] /\ zoom = NoPane]
  OBVIOUS
<1>2. /\ p \in Shown /\ Shown # {p} /\ Changed(t) /\ zoom' = NoPane /\ Focus(NextAfter(p, t))
      /\ viewHidden' = viewHidden /\ broadcasting' = broadcasting
      /\ IF slide
         THEN /\ grid' = IF zoom = NoPane THEN grid ELSE leaf
              /\ slides' = [q \in DOMAIN slides \cup {p} |-> IF q = p THEN TRUE ELSE old[q]]
              /\ IF zoom = NoPane
                 THEN Dispose(p)
                 ELSE /\ offscreen' = Unseen(leaf, viewHidden, NoPane) \ {p}
                      /\ outlined' = outlined \ {p}
         ELSE Render(t[1], {}, viewHidden)
  BY <1>1 DEF ClosePane
<1>3. Tree(leaf, split) /\ Shown = LeavesOf(leaf) /\ Shown \subseteq Panes
  BY AtHand
<1>4. /\ Tree(t[1], t[2]) /\ t = <<t[1], t[2]>> /\ LeavesOf(t[1]) = Shown \ {p}
  BY <1>1, <1>2, <1>3, WithoutIs
<1>5. PICK l, s, next : l = t[1] /\ s = t[2] /\ next = NextAfter(p, t)
  OBVIOUS
<1>6. leaf' = l /\ split' = s /\ announced' = <<l, s>> /\ Tree(l, s) /\ LeavesOf(l) = Shown \ {p} /\ Shown' = Shown \ {p}
  BY <1>2, <1>4, <1>5 DEF Changed, Shown
<1>7. next \in LeavesOf(l)
  BY <1>1, <1>2, <1>3, <1>5, NextIsThere
<1>8. focused' = next /\ lit' = {next}
  BY <1>2, <1>5, AtHand
<1>9. CASE ~ slide
  <2>1. Render(l, {}, viewHidden) /\ LeavesOf(l) = (LeavesOf(l) \cap Shown) \cup {}
    BY <1>2, <1>5, <1>6, <1>9
  <2>. QED  BY <1>2, <1>6, <1>7, <1>8, <2>1, Rendered
<1>10. CASE slide
  <2>1. /\ grid' = IF zoom = NoPane THEN grid ELSE leaf
        /\ slides' = [q \in DOMAIN slides \cup {p} |-> IF q = p THEN TRUE ELSE old[q]]
        /\ IF zoom = NoPane
           THEN Dispose(p)
           ELSE /\ offscreen' = Unseen(leaf, viewHidden, NoPane) \ {p}
                /\ outlined' = outlined \ {p}
    BY <1>2, <1>10
  <2>2. /\ grid \in [DOMAIN grid -> Panes] /\ slides \in [DOMAIN slides -> BOOLEAN] /\ DOMAIN slides \subseteq Panes
        /\ Shown \subseteq LeavesOf(grid)
        /\ \A q \in LeavesOf(grid) \ Shown : q \in DOMAIN slides /\ slides[q]
    BY DEF IInv, PageHolds
  <2>3. DOMAIN slides' = DOMAIN slides \cup {p} /\ slides'[p] = TRUE
        /\ \A q \in DOMAIN slides \ {p} : slides'[q] = (slides[q] /\ zoom = NoPane)
    BY <1>1, <2>1
  <2>4. slides' \in [DOMAIN slides' -> BOOLEAN] /\ DOMAIN slides' \subseteq Panes
    <3>1. \A q \in DOMAIN slides' : slides'[q] \in BOOLEAN
      BY <2>3
    <3>2. slides' = [q \in DOMAIN slides' |-> slides'[q]]
      BY <2>1, <2>3
    <3>. QED  BY <2>2, <2>3, <3>1, <3>2
  <2>5. grid' \in [DOMAIN grid' -> Panes]
    BY <1>3, <2>1, <2>2 DEF Tree
  <2>6. Shown' \subseteq LeavesOf(grid') /\ \A q \in LeavesOf(grid') \ Shown' : q \in DOMAIN slides' /\ slides'[q]
    <3>1. CASE zoom = NoPane
      <4>1. grid' = grid
        BY <2>1, <3>1
      <4>2. \A q \in LeavesOf(grid) \ Shown' : q \in DOMAIN slides' /\ slides'[q]
        BY <1>6, <2>2, <2>3, <3>1
      <4>. QED  BY <1>6, <2>2, <4>1, <4>2
    <3>2. CASE zoom # NoPane
      BY <1>3, <1>6, <2>1, <2>3, <3>2
    <3>. QED  BY <3>1, <3>2
  <2>7. ~ (\A q \in DOMAIN slides' : ~ slides'[q])
    BY <2>3
  <2>8. PageHolds'
    BY <1>6, <2>4, <2>5, <2>6, <2>7 DEF PageHolds
  <2>9. /\ zoom # NoPane => zoom = focused /\ Cardinality(Shown) > 1
        /\ offscreen = {q \in Shown : viewHidden \/ zoom \notin {NoPane, q}}
        /\ outlined = IF broadcasting THEN Shown ELSE {}
        /\ viewHidden \in BOOLEAN /\ broadcasting \in BOOLEAN
    BY DEF IInv, KeysHold, KeysGoWhereSeen
  <2>10. offscreen' = {q \in Shown' : viewHidden \/ zoom' \notin {NoPane, q}}
    <3>1. CASE zoom = NoPane
      BY <1>2, <1>6, <2>1, <2>9, <3>1 DEF Dispose
    <3>2. CASE zoom # NoPane
      BY <1>2, <1>3, <1>6, <2>1, <3>2 DEF Unseen
    <3>. QED  BY <3>1, <3>2
  <2>11. outlined' = IF broadcasting' THEN Shown' ELSE {}
    <3>1. outlined' = outlined \ {p}
      BY <2>1 DEF Dispose
    <3>. QED  BY <1>2, <1>6, <2>9, <3>1
  <2>12. KeysGoWhereSeen'
    BY <1>2, <1>6, <1>7, <1>8, <2>10, <2>11 DEF KeysGoWhereSeen
  <2>. QED  BY <1>2, <2>8, <2>9, <2>12 DEF IInv, KeysHold
<1>. QED  BY <1>9, <1>10

\* The timer of a slide: the grid catches up, or a render has done so already, in which
\* case another pane may still slide (_animateLeave).
LEMMA SlideEndsHolds ==
    ASSUME IInv, NEW p \in Panes, SlideEnds(p)
    PROVE  IInv'
<1>1. /\ p \in DOMAIN slides /\ Focus(focused) /\ leaf' = leaf /\ split' = split /\ announced' = announced
      /\ viewHidden' = viewHidden /\ broadcasting' = broadcasting /\ outlined' = outlined
      /\ IF slides[p]
         THEN /\ grid' = leaf
              /\ zoom' = NoPane
              /\ offscreen' = Unseen(leaf, viewHidden, NoPane)
              /\ slides' = [q \in DOMAIN slides \ {p} |-> FALSE]
         ELSE /\ slides' = [q \in DOMAIN slides \ {p} |-> slides[q]]
              /\ UNCHANGED <<grid, zoom, offscreen>>
  BY DEF SlideEnds, tree
<1>2. /\ Tree(leaf, split) /\ Shown = LeavesOf(leaf) /\ Shown \subseteq Panes /\ focused' = focused /\ lit' = {focused}
  BY <1>1, AtHand
<1>3. Shown' = Shown /\ leaf \in [DOMAIN leaf -> Panes]
  BY <1>1, <1>2 DEF Shown, Tree
<1>4. CASE slides[p]
  <2>1. PageHolds'
    BY <1>1, <1>2, <1>3, <1>4 DEF IInv, PageHolds
  <2>2. offscreen' = {q \in Shown : viewHidden \/ zoom' \notin {NoPane, q}}
    BY <1>1, <1>2, <1>4 DEF Unseen
  <2>3. KeysHold'
    BY <1>1, <1>2, <1>3, <1>4, <2>2 DEF IInv, KeysHold, KeysGoWhereSeen
  <2>. QED  BY <2>1, <2>3 DEF IInv
<1>5. CASE ~ slides[p]
  <2>1. slides' = [q \in DOMAIN slides \ {p} |-> slides[q]] /\ grid' = grid /\ zoom' = zoom /\ offscreen' = offscreen
    BY <1>1, <1>5
  <2>2. DOMAIN slides' = DOMAIN slides \ {p} /\ \A q \in DOMAIN slides \ {p} : slides'[q] = slides[q]
    BY <2>1
  <2>3. /\ slides \in [DOMAIN slides -> BOOLEAN] /\ DOMAIN slides \subseteq Panes
        /\ Shown \subseteq LeavesOf(grid) /\ grid \in [DOMAIN grid -> Panes]
        /\ \A q \in LeavesOf(grid) \ Shown : q \in DOMAIN slides /\ slides[q]
        /\ (\A q \in DOMAIN slides : ~ slides[q]) => grid = leaf
        /\ announced = <<leaf, split>>
    BY DEF IInv, PageHolds
  <2>4. slides' \in [DOMAIN slides' -> BOOLEAN] /\ DOMAIN slides' \subseteq Panes
    BY <2>1, <2>2, <2>3
  <2>5. \A q \in LeavesOf(grid) \ Shown : q \in DOMAIN slides' /\ slides'[q]
    BY <1>5, <2>2, <2>3
  <2>6. (\A q \in DOMAIN slides' : ~ slides'[q]) => grid = leaf
    BY <1>5, <2>2, <2>3
  <2>7. PageHolds'
    BY <1>1, <1>2, <1>3, <2>1, <2>3, <2>4, <2>5, <2>6 DEF PageHolds
  <2>8. KeysHold'
    BY <1>1, <1>2, <1>3, <2>1 DEF IInv, KeysHold, KeysGoWhereSeen
  <2>. QED  BY <2>7, <2>8 DEF IInv
<1>. QED  BY <1>4, <1>5

\* A saved tree comes back.
LEMMA RestoreHolds ==
    ASSUME IInv, NEW fresh, NEW l, NEW s, Tree(l, s), Restore(fresh, l, s)
    PROVE  IInv'
<1>1. /\ Changed(<<l, s>>) /\ grid' = l /\ slides' = [p \in DOMAIN slides |-> FALSE] /\ zoom' = NoPane
      /\ offscreen' = Unseen(l, viewHidden, NoPane) /\ broadcasting' = FALSE /\ outlined' = {}
      /\ focused' = FirstOf(l, DOMAIN l) /\ lit' = {FirstOf(l, DOMAIN l)} /\ viewHidden' = viewHidden
  BY DEF Restore
<1>2. leaf' = l /\ split' = s /\ announced' = <<l, s>> /\ Shown' = LeavesOf(l) /\ l \in [DOMAIN l -> Panes]
  BY <1>1 DEF Changed, Shown, Tree
<1>3. FirstOf(l, DOMAIN l) \in LeavesOf(l)
  <2>1. Shape(DOMAIN l, DOMAIN s) /\ Root \in DOMAIN l \cup DOMAIN s
    BY DEF Tree, Shape
  <2>2. DOMAIN l # {}
    BY <2>1, LeafUnder
  <2>. QED  BY <2>2, FirstLeaf
<1>4. PageHolds'
  BY <1>1, <1>2 DEF IInv, PageHolds
<1>5. offscreen' = {q \in LeavesOf(l) : viewHidden \/ zoom' \notin {NoPane, q}}
  BY <1>1 DEF Unseen
<1>6. KeysHold'
  BY <1>1, <1>2, <1>3, <1>5 DEF IInv, KeysHold, KeysGoWhereSeen
<1>. QED  BY <1>4, <1>6 DEF IInv

\* The trees a restore is given.
LEMMA RestoredTrees ==
    ASSUME NEW p \in Panes, NEW q \in Panes, p # q, NEW dir \in Dirs, NEW ratio \in 1 .. Steps - 1,
           NEW t, t = With(Leaf(p)[1], Leaf(p)[2], << >>, q, 2, dir)
    PROVE  Tree(t[1], [t[2] EXCEPT ![<< >>].ratio = Clamp(ratio)])
<1>1. PICK l, s : l = Leaf(p)[1] /\ s = Leaf(p)[2]
  OBVIOUS
<1>2. Tree(l, s) /\ LeavesOf(l) = {p} /\ << >> \in DOMAIN l
  BY <1>1, LeafIs DEF Leaf
<1>3. PICK path \in DOMAIN l : path = << >>
  BY <1>2
<1>4. t = With(l, s, path, q, 2, dir) /\ q \in Panes \ LeavesOf(l)
  BY <1>1, <1>2, <1>3
<1>5. Tree(t[1], t[2])
  BY <1>2, <1>4, WithIs
<1>6. path \in DOMAIN t[2]
  <2>. DEFINE f == [r \in (DOMAIN l \ {path}) \cup {Append(path, 1), Append(path, 2)} |->
                       IF r = Append(path, 2) THEN q ELSE IF r = Append(path, Other(2)) THEN l[path] ELSE l[r]]
              g == [r \in DOMAIN s \cup {path} |-> IF r = path THEN [dir |-> dir, ratio |-> Half] ELSE s[r]]
  <2>1. With(l, s, path, q, 2, dir) = <<f, g>>
    BY DEF With
  <2>2. DOMAIN g = DOMAIN s \cup {path}
    OBVIOUS
  <2>3. t[2] = g
    BY <1>4, <2>1
  <2>. QED  BY <2>2, <2>3
<1>7. Clamp(ratio) \in 1 .. Steps - 1
  <2>1. Steps \in Nat /\ Margin \in Nat /\ 0 < Margin /\ 2 * Margin < Steps
    BY LayoutAssumption
  <2>. QED  BY <2>1 DEF Clamp
<1>8. PICK a, b, r : a = t[1] /\ b = t[2] /\ r = Clamp(ratio)
  OBVIOUS
<1>9. Tree(a, [b EXCEPT ![path].ratio = r])
  BY <1>5, <1>6, <1>7, <1>8, RatioTree
<1>. QED  BY <1>3, <1>8, <1>9

-----------------------------------------------------------------------------
(* Zoom, focus, broadcast, visibility, ratios. *)

\* The zoom begins, on the pane with the keyboard, or ends with a render (toggleZoom).
LEMMA ToggleZoomHolds ==
    ASSUME IInv, ToggleZoom
    PROVE  IInv'
<1>1. leaf' = leaf /\ split' = split /\ announced' = announced /\ viewHidden' = viewHidden /\ broadcasting' = broadcasting
  BY DEF ToggleZoom, tree
<1>2. Tree(leaf, split) /\ Shown = LeavesOf(leaf) /\ focused \in Shown /\ lit = {focused} /\ Shown' = Shown
  BY <1>1, AtHand DEF Shown
<1>3. CASE zoom # NoPane
  <2>1. Render(leaf, {}, viewHidden) /\ Focus(focused)
    BY <1>3 DEF ToggleZoom
  <2>. QED  BY <1>1, <1>2, <2>1, RenderedAgain
<1>4. CASE zoom = NoPane
  <2>1. /\ Cardinality(Shown) > 1 /\ zoom' = focused /\ offscreen' = Unseen(leaf, viewHidden, focused)
        /\ grid' = grid /\ slides' = slides /\ outlined' = outlined /\ focused' = focused /\ lit' = lit
    BY <1>4 DEF ToggleZoom
  <2>2. focused # NoPane
    BY <1>2, AtHand, IInvSays
  <2>3. offscreen' = {q \in Shown : viewHidden \/ focused \notin {NoPane, q}}
    BY <1>2, <2>1, <2>2 DEF Unseen
  <2>4. PageHolds'
    BY <1>1, <1>2, <2>1 DEF IInv, PageHolds
  <2>5. KeysHold'
    BY <1>1, <1>2, <2>1, <2>3 DEF IInv, KeysHold, KeysGoWhereSeen
  <2>. QED  BY <2>4, <2>5 DEF IInv
<1>. QED  BY <1>3, <1>4

\* Nothing changes but which pane has the keyboard, and no zoom hides it.
LEMMA Refocused ==
    ASSUME IInv, NEW p \in Shown, zoom \in {NoPane, p}, Focus(p), UNCHANGED <<dom, offscreen, outlined>>,
           UNCHANGED <<tree, viewHidden, broadcasting, announced>>
    PROVE  IInv'
<1>1. /\ leaf' = leaf /\ split' = split /\ announced' = announced /\ viewHidden' = viewHidden
      /\ broadcasting' = broadcasting /\ grid' = grid /\ slides' = slides /\ zoom' = zoom
      /\ offscreen' = offscreen /\ outlined' = outlined
  BY DEF tree, dom
<1>2. focused' = p /\ lit' = {p} /\ Shown' = Shown
  BY <1>1, AtHand DEF Shown
<1>3. PageHolds'
  BY <1>1, <1>2 DEF IInv, PageHolds
<1>4. KeysHold'
  BY <1>1, <1>2 DEF IInv, KeysHold, KeysGoWhereSeen
<1>. QED  BY <1>3, <1>4 DEF IInv

\* A pane is focused; a zoom that hides it ends first (focusPane).
LEMMA FocusPaneHolds ==
    ASSUME IInv, NEW p \in Panes, FocusPane(p)
    PROVE  IInv'
<1>1. p \in Shown /\ Focus(p) /\ UNCHANGED <<tree, viewHidden, broadcasting, announced>>
  BY DEF FocusPane
<1>2. CASE zoom \in {NoPane, p}
  <2>1. UNCHANGED <<dom, offscreen, outlined>>
    BY <1>2 DEF FocusPane
  <2>. QED  BY <1>1, <1>2, <2>1, Refocused
<1>3. CASE zoom \notin {NoPane, p}
  <2>1. Render(leaf, {}, viewHidden)
    BY <1>3 DEF FocusPane
  <2>. QED  BY <1>1, <2>1, RenderedAgain DEF tree
<1>. QED  BY <1>2, <1>3

\* An arrow key moves the focus, and ends the zoom (focusDir).
LEMMA FocusDirHolds ==
    ASSUME IInv, FocusDir
    PROVE  IInv'
<1>1. PICK p \in Shown : Focus(p) /\ UNCHANGED <<tree, viewHidden, broadcasting, announced>>
  BY DEF FocusDir
<1>2. CASE zoom = NoPane
  <2>1. UNCHANGED <<dom, offscreen, outlined>>
    BY <1>2 DEF FocusDir
  <2>. QED  BY <1>1, <1>2, <2>1, Refocused
<1>3. CASE zoom # NoPane
  <2>1. Render(leaf, {}, viewHidden)
    BY <1>3 DEF FocusDir
  <2>. QED  BY <1>1, <2>1, RenderedAgain DEF tree
<1>. QED  BY <1>2, <1>3

\* Broadcast on or off: each pane of the tree is told (setBroadcast).
LEMMA SetBroadcastHolds ==
    ASSUME IInv, NEW on \in BOOLEAN, SetBroadcast(on)
    PROVE  IInv'
<1>1. /\ leaf' = leaf /\ split' = split /\ announced' = announced /\ viewHidden' = viewHidden
      /\ broadcasting' = on /\ grid' = grid /\ slides' = slides /\ zoom' = zoom /\ focused' = focused /\ lit' = lit
      /\ offscreen' = offscreen /\ outlined' = IF on THEN Shown ELSE {}
  BY DEF SetBroadcast, tree, dom
<1>2. Shown' = Shown
  BY <1>1 DEF Shown
<1>3. PageHolds'
  BY <1>1, <1>2 DEF IInv, PageHolds
<1>4. KeysHold'
  BY <1>1, <1>2 DEF IInv, KeysHold, KeysGoWhereSeen
<1>. QED  BY <1>3, <1>4 DEF IInv

\* The shell shows or hides the view: each pane is told (setViewHidden).
LEMMA SetViewHiddenHolds ==
    ASSUME IInv, NEW hidden \in BOOLEAN, SetViewHidden(hidden)
    PROVE  IInv'
<1>1. /\ leaf' = leaf /\ split' = split /\ announced' = announced /\ viewHidden' = hidden
      /\ broadcasting' = broadcasting /\ grid' = grid /\ slides' = slides /\ zoom' = zoom /\ focused' = focused
      /\ lit' = lit /\ outlined' = outlined /\ offscreen' = Unseen(leaf, hidden, zoom)
  BY DEF SetViewHidden, tree, dom
<1>2. Shown' = Shown /\ Shown = LeavesOf(leaf)
  BY <1>1 DEF Shown
<1>3. PageHolds'
  BY <1>1, <1>2 DEF IInv, PageHolds
<1>4. offscreen' = {q \in Shown : hidden \/ zoom \notin {NoPane, q}}
  BY <1>1, <1>2 DEF Unseen
<1>5. KeysHold'
  BY <1>1, <1>2, <1>4 DEF IInv, KeysHold, KeysGoWhereSeen
<1>. QED  BY <1>3, <1>5 DEF IInv

\* A splitter moves: the tree keeps its shape, and the autosave is told (_wireSplitter).
LEMMA SplitterHolds ==
    ASSUME IInv, NEW at \in DOMAIN split, NEW ratio \in 1 .. Steps - 1, Splitter(at, ratio)
    PROVE  IInv'
<1>1. /\ leaf' = leaf /\ split' = [split EXCEPT ![at].ratio = ratio] /\ announced' = <<leaf, split'>>
      /\ viewHidden' = viewHidden /\ broadcasting' = broadcasting /\ grid' = grid /\ slides' = slides /\ zoom' = zoom
      /\ focused' = focused /\ lit' = lit /\ offscreen' = offscreen /\ outlined' = outlined
  BY DEF Splitter, dom, flags
<1>2. Shown' = Shown
  BY <1>1 DEF Shown
<1>3. Tree(leaf', split')
  BY <1>1, AtHand, RatioTree
<1>4. PageHolds'
  BY <1>1, <1>2, <1>3 DEF IInv, PageHolds
<1>5. KeysHold'
  BY <1>1, <1>2 DEF IInv, KeysHold, KeysGoWhereSeen
<1>. QED  BY <1>4, <1>5 DEF IInv

\* Nothing of the layout changes.
LEMMA StutterHolds ==
    ASSUME IInv, UNCHANGED vars
    PROVE  IInv'
<1>1. /\ leaf' = leaf /\ split' = split /\ announced' = announced /\ viewHidden' = viewHidden
      /\ broadcasting' = broadcasting /\ grid' = grid /\ slides' = slides /\ zoom' = zoom
      /\ focused' = focused /\ lit' = lit /\ offscreen' = offscreen /\ outlined' = outlined
  BY DEF vars, tree, dom, flags
<1>2. Shown' = Shown
  BY <1>1 DEF Shown
<1>3. PageHolds'
  BY <1>1, <1>2 DEF IInv, PageHolds
<1>4. KeysHold'
  BY <1>1, <1>2 DEF IInv, KeysHold, KeysGoWhereSeen
<1>. QED  BY <1>3, <1>4 DEF IInv

\* Every step keeps the invariant.
LEMMA StepHolds ==
    ASSUME IInv, [Next]_vars
    PROVE  IInv'
<1>1. CASE UNCHANGED vars
  BY <1>1, StutterHolds
<1>2. ASSUME NEW p \in Panes, NEW dir \in Dirs, SplitPane(p, dir) PROVE IInv'
  BY <1>2, SplitPaneHolds
<1>3. ASSUME NEW p \in Panes, Drop(p) PROVE IInv'
  <2>1. PICK target \in Panes \ {p}, zone \in Zones : MovePane(p, target, zone)
    BY <1>3 DEF Drop
  <2>. QED  BY <2>1, MovePaneHolds
<1>4. ASSUME NEW p \in Panes, CloseLast(p) PROVE IInv'
  BY <1>4, CloseLastHolds
<1>5. ASSUME NEW p \in Panes, SlideEnds(p) PROVE IInv'
  BY <1>5, SlideEndsHolds
<1>6. ASSUME NEW p \in Panes, FocusPane(p) PROVE IInv'
  BY <1>6, FocusPaneHolds
<1>7. ASSUME NEW p \in Panes, NEW slide \in BOOLEAN, ClosePane(p, slide) PROVE IInv'
  BY <1>7, ClosePaneHolds
<1>8. ASSUME NEW p \in Free, Restore({p}, Leaf(p)[1], Leaf(p)[2]) PROVE IInv'
  <2>1. p \in Panes
    BY DEF Free
  <2>2. PICK l, s, fresh : l = Leaf(p)[1] /\ s = Leaf(p)[2] /\ fresh = {p}
    OBVIOUS
  <2>3. Tree(l, s) /\ Restore(fresh, l, s)
    BY <1>8, <2>1, <2>2, LeafIs
  <2>. QED  BY <2>3, RestoreHolds
<1>9. ASSUME NEW p \in Free, NEW q \in Free, NEW dir \in Dirs, NEW ratio \in 1 .. Steps - 1, p # q,
             NEW t, t = With(Leaf(p)[1], Leaf(p)[2], << >>, q, 2, dir),
             Restore({p, q}, t[1], [t[2] EXCEPT ![<< >>].ratio = Clamp(ratio)])
      PROVE  IInv'
  <2>1. p \in Panes /\ q \in Panes
    BY DEF Free
  <2>2. PICK l, s, fresh : l = t[1] /\ s = [t[2] EXCEPT ![<< >>].ratio = Clamp(ratio)] /\ fresh = {p, q}
    OBVIOUS
  <2>3. Tree(l, s)
    BY <1>9, <2>1, <2>2, RestoredTrees
  <2>4. Restore(fresh, l, s)
    BY <1>9, <2>2
  <2>. QED  BY <2>3, <2>4, RestoreHolds
<1>10. ASSUME NEW on \in BOOLEAN, SetBroadcast(on) PROVE IInv'
  BY <1>10, SetBroadcastHolds
<1>11. ASSUME NEW on \in BOOLEAN, SetViewHidden(on) PROVE IInv'
  BY <1>11, SetViewHiddenHolds
<1>12. ASSUME NEW at \in DOMAIN split, NEW ratio \in 1 .. Steps - 1, Splitter(at, ratio) PROVE IInv'
  BY <1>12, SplitterHolds
<1>. QED  BY <1>1, <1>2, <1>3, <1>4, <1>5, <1>6, <1>7, <1>8, <1>9, <1>10, <1>11, <1>12, ToggleZoomHolds, FocusDirHolds DEF Next

\* IInv holds in every reachable state of the layout.
THEOREM Invariance == Spec => []IInv
BY InitHolds, StepHolds, PTL DEF Spec

\* Whatever is split, closed, dropped, zoomed or restored while a closed pane still
\* slides shut, a pane of the tree is on the page, the page holds no other for good, and
\* the autosave knows the tree (closePane, _animateLeave, render).
THEOREM PageStays == Spec => []PageFollowsTree
<1>1. IInv => PageFollowsTree
  BY IInvSays
<1>. QED  BY <1>1, Invariance, PTL

\* The keyboard is in one pane that can be seen, and each pane knows whether it can be
\* seen and whether it takes part in a broadcast (focusPane, _syncVisibility, setBroadcast).
THEOREM KeysStay == Spec => []KeysGoWhereSeen
<1>1. IInv => KeysGoWhereSeen
  BY IInvSays
<1>. QED  BY <1>1, Invariance, PTL

\* What a drop does, of a state the invariant holds in.
LEMMA DropMoves ==
    ASSUME IInv, NEW p, NEW target \in Shown, NEW zone \in Zones, MovePane(p, target, zone)
    PROVE  /\ LeavesOf(leaf') = Shown
           /\ IF zone = "center"
              THEN /\ split' = split
                   /\ leaf'[PathTo(leaf, p)] = target /\ leaf'[PathTo(leaf, target)] = p
              ELSE LET at == PathTo(leaf', p)
                   IN  /\ Side(at) = SideOf(zone)
                       /\ split'[Up(at)].dir = DirOf(zone)
                       /\ leaf'[Append(Up(at), Other(Side(at)))] = target
                       /\ \A q, r \in Shown \ {p} : Before(leaf', q, r) = Before(leaf, q, r)
<1>1. p # target /\ {p, target} \subseteq Shown /\ Changed(Moved(p, target, zone))
  BY DEF MovePane, CanMove
<1>2. Tree(leaf, split) /\ Shown = LeavesOf(leaf)
  BY AtHand
<1>3. PICK t : t = Moved(p, target, zone)
  OBVIOUS
<1>4. leaf' = t[1] /\ split' = t[2]
  BY <1>1, <1>3 DEF Changed
<1>5. CASE zone = "center"
  <2>1. t = <<Swapped(leaf, p, target), split>>
    BY <1>3, <1>5 DEF Moved, Swapped
  <2>2. leaf' = Swapped(leaf, p, target) /\ split' = split
    BY <1>4, <2>1
  <2>. QED  BY <1>1, <1>2, <1>5, <2>2, SwapIs
<1>6. CASE zone # "center"
  <2>1. /\ LeavesOf(t[1]) = Shown
        /\ LET at == PathTo(t[1], p)
           IN  /\ Side(at) = SideOf(zone)
               /\ t[2][Up(at)].dir = DirOf(zone)
               /\ t[1][Append(Up(at), Other(Side(at)))] = target
        /\ \A q, r \in Shown \ {p} : Before(t[1], q, r) = Before(leaf, q, r)
    BY <1>1, <1>2, <1>3, <1>6, MovedIs
  <2>. QED  BY <1>4, <1>6, <2>1
<1>. QED  BY <1>5, <1>6

\* A drop puts the pane beside its target, on the side it was dropped on, and leaves the
\* others in their order, however deep the subtree that is lifted (movePaneNode).
THEOREM DropsMoveOne == Spec => DropMovesOnePane
<1>. DEFINE Step == tree' # tree => \A target \in Shown, zone \in Zones :
          LET p == focused'
          IN  MovePane(p, target, zone) =>
              /\ LeavesOf(leaf') = Shown
              /\ IF zone = "center"
                 THEN /\ split' = split
                      /\ leaf'[PathTo(leaf, p)] = target /\ leaf'[PathTo(leaf, target)] = p
                 ELSE LET at == PathTo(leaf', p)
                      IN  /\ Side(at) = SideOf(zone)
                          /\ split'[Up(at)].dir = DirOf(zone)
                          /\ leaf'[Append(Up(at), Other(Side(at)))] = target
                          /\ \A q, r \in Shown \ {p} : Before(leaf', q, r) = Before(leaf, q, r)
<1>1. ASSUME IInv PROVE Step
  <2>1. SUFFICES ASSUME NEW target \in Shown, NEW zone \in Zones, MovePane(focused', target, zone)
        PROVE  /\ LeavesOf(leaf') = Shown
               /\ IF zone = "center"
                  THEN /\ split' = split
                       /\ leaf'[PathTo(leaf, focused')] = target /\ leaf'[PathTo(leaf, target)] = focused'
                  ELSE LET at == PathTo(leaf', focused')
                       IN  /\ Side(at) = SideOf(zone)
                           /\ split'[Up(at)].dir = DirOf(zone)
                           /\ leaf'[Append(Up(at), Other(Side(at)))] = target
                           /\ \A q, r \in Shown \ {focused'} : Before(leaf', q, r) = Before(leaf, q, r)
    OBVIOUS
  <2>. QED  BY <1>1, <2>1, DropMoves
<1>2. IInv => [Step]_vars
  BY <1>1
<1>. QED  BY <1>2, Invariance, PTL DEF DropMovesOnePane
=============================================================================
