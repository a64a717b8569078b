-------------------------- MODULE WindowLayout_proofs --------------------------
(***************************************************************************)
(* Proofs about WindowLayout, for every set of visualizers, number of       *)
(* windows and number of splitters.                                         *)
(***************************************************************************)
EXTENDS WindowLayout, FiniteSetTheorems, TLAPS

-----------------------------------------------------------------------------
(* Places *)

(* A place is the root of a window or one of the two slots of a splitter. *)
LEMMA PlaceFacts ==
  /\ \A g \in Groups : Root(g) \in Places
  /\ \A s \in Splitters, side \in Sides :
       Slot(s, side) \in Places /\ Slot(s, side)[1] = s /\ Slot(s, side)[2] = side
  /\ \A g \in Groups, s \in Splitters, side \in Sides : Root(g) # Slot(s, side)
  /\ \A g, h \in Groups : Root(g) = Root(h) => g = h
  /\ \A s, t \in Splitters, a, b \in Sides :
       Slot(s, a) = Slot(t, b) => s = t /\ a = b
  /\ \A p \in Places : \/ \E g \in Groups : p = Root(g)
                       \/ \E s \in Splitters, side \in Sides : p = Slot(s, side)
  BY LayoutAssumption DEF Places, Root, Slot

(* The two sides of a splitter. *)
LEMMA SideFacts ==
  /\ "primary" \in Sides /\ "secondary" \in Sides
  /\ \A side \in Sides : /\ Other(side) \in Sides /\ Other(side) # side
                         /\ Other(Other(side)) = side
                         /\ \A a \in Sides : a = side \/ a = Other(side)
  BY DEF Sides, Other

LEMMA NodeFacts ==
  /\ \A s \in Splitters : s # Nothing /\ s \notin Visualizers
  /\ \A v \in Visualizers : v # Nothing /\ v \notin Splitters
  /\ Nothing \notin Splitters /\ Nothing \notin Visualizers
  BY LayoutAssumption

LEMMA PlacesFinite == IsFiniteSet(Places)
  <1>1. IsFiniteSet(Groups)
    BY LayoutAssumption, FS_Interval DEF Groups
  <1>2. IsFiniteSet({"root"})
    BY FS_Singleton
  <1>3. IsFiniteSet({"root"} \X Groups)
    BY <1>1, <1>2, FS_Product
  <1>4. IsFiniteSet(Sides)
    <2>1. IsFiniteSet({"primary"})
      BY FS_Singleton
    <2>2. IsFiniteSet({"primary"} \cup {"secondary"})
      BY <2>1, FS_AddElement
    <2>3. Sides = {"primary"} \cup {"secondary"}
      BY DEF Sides
    <2> QED BY <2>2, <2>3
  <1>5. IsFiniteSet(Splitters \X Sides)
    BY <1>4, LayoutAssumption, FS_Product
  <1> QED BY <1>3, <1>5, FS_Union DEF Places

(* Every nonempty set of naturals has a least element, and every nonempty    *)
(* collection of sets of splitters one that has no other below it.           *)
LEMMA NatMin ==
  ASSUME NEW T \in SUBSET Nat, T # {}
  PROVE  \E n \in T : \A m \in T : n <= m
  <1>1. IsWellFoundedOn(OpToRel(<, Nat), Nat)
    BY NatLessThanWellFounded
  <1>2. PICK n \in T : \A m \in T : <<m, n>> \notin OpToRel(<, Nat)
    BY <1>1, WFMin
  <1>3. ASSUME NEW m \in T PROVE n <= m
    <2>1. ~(m < n)
      BY <1>2 DEF OpToRel
    <2> QED BY <2>1
  <1> QED BY <1>3

LEMMA SubsetMin ==
  ASSUME NEW T \in SUBSET (SUBSET Splitters), T # {}
  PROVE  \E x \in T : \A y \in T : y \subseteq x => y = x
  <1>1. FiniteSubsetsOf(Splitters) = SUBSET Splitters
    BY LayoutAssumption, FS_FiniteSubsetsOfFinite
  <1>2. IsWellFoundedOn(StrictSubsetOrdering(Splitters), SUBSET Splitters)
    BY <1>1, FS_StrictSubsetOrderingWellFounded
  <1>3. PICK x \in T : \A y \in T : <<y, x>> \notin StrictSubsetOrdering(Splitters)
    BY <1>2, WFMin
  <1>4. ASSUME NEW y \in T, y \subseteq x PROVE y = x
    BY <1>3, <1>4 DEF StrictSubsetOrdering
  <1> QED BY <1>4

-----------------------------------------------------------------------------
(* The order of visits *)

(* One step of the recursion in Visited. *)
Step(c, f, left) ==
  [p \in Places |->
     IF c[p] = Nothing THEN <<>>
     ELSE IF c[p] \notin left THEN <<p>>
     ELSE LET below == f[left \ {c[p]}]
          IN Append(below[Slot(c[p], "primary")] \o below[Slot(c[p], "secondary")], p)]

Follows(c, f) == f = [left \in SUBSET Splitters |-> Step(c, f, left)]

(* A function that follows the recursion exists: it is built up by the       *)
(* number of the splitters that are left.                                    *)
UpTo(c, f, n) ==
  \A left \in SUBSET Splitters : Cardinality(left) <= n => f[left] = Step(c, f, left)

LEMMA RecursionExists == ASSUME NEW c PROVE \E f : Follows(c, f)
  <1> DEFINE D == SUBSET Splitters
  <1> DEFINE Good == {n \in Nat : \E f : f = [left \in D |-> f[left]] /\ UpTo(c, f, n)}
  <1>0. \A left \in D : /\ IsFiniteSet(left) /\ Cardinality(left) \in Nat
                        /\ \A x \in left : /\ left \ {x} \in D
                                           /\ Cardinality(left \ {x}) = Cardinality(left) - 1
    BY LayoutAssumption, FS_Subset, FS_RemoveElement, FS_CardinalityType
  <1>1. ASSUME NEW f, NEW g, NEW left \in D, \A x \in left : f[left \ {x}] = g[left \ {x}]
        PROVE  Step(c, f, left) = Step(c, g, left)
    BY <1>1 DEF Step
  <1>2. 0 \in Good
    <2> DEFINE f == [left \in D |-> Step(c, [l \in D |-> <<>>], left)]
    <2>1. UpTo(c, f, 0)
      <3> SUFFICES ASSUME NEW left \in D, Cardinality(left) <= 0
                   PROVE  f[left] = Step(c, f, left)
        BY DEF UpTo
      <3>1. left = {}
        BY <1>0, FS_EmptySet
      <3> QED BY <3>1, <1>1
    <2>2. f = [left \in D |-> f[left]]
      OBVIOUS
    <2> QED BY <2>1, <2>2
  <1>3. ASSUME NEW n \in Good PROVE n + 1 \in Good
    <2>1. PICK f : f = [left \in D |-> f[left]] /\ UpTo(c, f, n)
      OBVIOUS
    <2> DEFINE g == [left \in D |-> Step(c, f, left)]
    <2>2. \A left \in D : Cardinality(left) <= n => g[left] = f[left]
      BY <2>1 DEF UpTo
    <2>3. UpTo(c, g, n + 1)
      <3> SUFFICES ASSUME NEW left \in D, Cardinality(left) <= n + 1
                   PROVE  g[left] = Step(c, g, left)
        BY DEF UpTo
      <3>1. ASSUME NEW x \in left PROVE f[left \ {x}] = g[left \ {x}]
        <4>1. left \ {x} \in D /\ Cardinality(left \ {x}) <= n
          BY <1>0
        <4> QED BY <4>1, <2>2
      <3>2. Step(c, f, left) = Step(c, g, left)
        <4> HIDE DEF g
        <4> QED BY <3>1, <1>1, Zenon
      <3> QED BY <3>2
    <2>4. g = [left \in D |-> g[left]]
      OBVIOUS
    <2> HIDE DEF g
    <2>5. \E h : h = [left \in D |-> h[left]] /\ UpTo(c, h, n + 1)
      BY <2>3, <2>4, Zenon
    <2>6. n + 1 \in Nat
      OBVIOUS
    <2> QED BY <2>5, <2>6
  <1>4. \A n \in Nat : n \in Good
    <2> HIDE DEF Good
    <2> DEFINE Bad == {n \in Nat : n \notin Good}
    <2> SUFFICES ASSUME Bad # {} PROVE FALSE
      OBVIOUS
    <2>1. PICK n \in Bad : \A m \in Bad : n <= m
      BY NatMin
    <2>2. n # 0
      BY <1>2
    <2>3. n - 1 \in Nat /\ n - 1 \notin Bad
      BY <2>1, <2>2
    <2>4. n \in Good
      BY <2>3, <1>3
    <2> QED BY <2>4
  <1>5. Cardinality(Splitters) \in Nat
    BY LayoutAssumption, FS_CardinalityType
  <1>6. PICK f : f = [left \in D |-> f[left]] /\ UpTo(c, f, Cardinality(Splitters))
    BY <1>4, <1>5
  <1>7. \A left \in D : f[left] = Step(c, f, left)
    <2>1. \A left \in D : Cardinality(left) <= Cardinality(Splitters)
      BY LayoutAssumption, FS_Subset
    <2> QED BY <1>6, <2>1 DEF UpTo
  <1>8. [left \in D |-> f[left]] = [left \in D |-> Step(c, f, left)]
    BY <1>7
  <1> QED BY <1>6, <1>8 DEF Follows

LEMMA VisitedFollows ==
  ASSUME NEW c, NEW g
  PROVE  \E f : Follows(c, f) /\ Visited(c, g) = f[Splitters][Root(g)]
  <1> DEFINE h == CHOOSE f : Follows(c, f)
  <1>1. Follows(c, h)
    BY RecursionExists, Zenon
  <1>2. Visited(c, g) = h[Splitters][Root(g)]
    BY DEF Visited, Follows, Step
  <1> HIDE DEF h
  <1> QED BY <1>1, <1>2

(* A place is visited after what is below it. *)
Post(x, y, p) == Append(x \o y, p)

(* What is visited from a place when the splitters left are given. *)
LEMMA VisitNothing ==
  ASSUME NEW c, NEW f, Follows(c, f), NEW left \in SUBSET Splitters, NEW p \in Places,
         c[p] = Nothing
  PROVE  f[left][p] = <<>>
  <1>1. f[left] = Step(c, f, left)
    BY DEF Follows
  <1> QED BY <1>1 DEF Step

LEMMA VisitEnd ==
  ASSUME NEW c, NEW f, Follows(c, f), NEW left \in SUBSET Splitters, NEW p \in Places,
         c[p] # Nothing, c[p] \notin left
  PROVE  f[left][p] = <<p>>
  <1>1. f[left] = Step(c, f, left)
    BY DEF Follows
  <1> QED BY <1>1 DEF Step

LEMMA VisitInner ==
  ASSUME NEW c, NEW f, Follows(c, f), NEW left \in SUBSET Splitters, NEW p \in Places,
         c[p] # Nothing, c[p] \in left
  PROVE  f[left][p] = Post(f[left \ {c[p]}][Slot(c[p], "primary")],
                           f[left \ {c[p]}][Slot(c[p], "secondary")], p)
  <1>1. f[left] = Step(c, f, left)
    BY DEF Follows
  <1> QED BY <1>1 DEF Step, Post

-----------------------------------------------------------------------------
(* Trees *)

Heap(c) == c \in [Places -> Nodes \cup {Nothing}]

(* With a place, a closed set has the slots of the splitter that is in it. *)
Closed(c, X) ==
  \A q \in X : c[q] \in Splitters => \A side \in Sides : Slot(c[q], side) \in X

Filled(c, X) == {q \in X : c[q] # Nothing}

LEMMA ToSetConcat ==
  ASSUME NEW S, NEW s \in Seq(S), NEW t \in Seq(S)
  PROVE  ToSet(s \o t) = ToSet(s) \cup ToSet(t)
  <1>1. ASSUME NEW x \in ToSet(s \o t) PROVE x \in ToSet(s) \cup ToSet(t)
    <2>1. PICK i \in 1..(Len(s) + Len(t)) : x = (s \o t)[i]
      BY DEF ToSet
    <2>2. CASE i <= Len(s)
      <3>1. i \in DOMAIN s /\ x = s[i]
        BY <2>1, <2>2
      <3> QED BY <3>1 DEF ToSet
    <2>3. CASE i > Len(s)
      <3>1. i - Len(s) \in DOMAIN t /\ x = t[i - Len(s)]
        BY <2>1, <2>3
      <3> QED BY <3>1 DEF ToSet
    <2> QED BY <2>2, <2>3
  <1>2. ASSUME NEW x \in ToSet(s) PROVE x \in ToSet(s \o t)
    <2>1. PICK i \in DOMAIN s : x = s[i]
      BY DEF ToSet
    <2>2. i \in DOMAIN (s \o t) /\ x = (s \o t)[i]
      BY <2>1
    <2> QED BY <2>2 DEF ToSet
  <1>3. ASSUME NEW x \in ToSet(t) PROVE x \in ToSet(s \o t)
    <2>1. PICK i \in DOMAIN t : x = t[i]
      BY DEF ToSet
    <2>2. i + Len(s) \in DOMAIN (s \o t) /\ x = (s \o t)[i + Len(s)]
      BY <2>1
    <2> QED BY <2>2 DEF ToSet
  <1> QED BY <1>1, <1>2, <1>3

(* A visit stays in every closed set it starts in, and visits what is there. *)
LEMMA VisitStays ==
  ASSUME NEW c, Heap(c), NEW f, Follows(c, f),
         NEW X \in SUBSET Places, Closed(c, X)
  PROVE  \A left \in SUBSET Splitters : \A p \in X : f[left][p] \in Seq(Filled(c, X))
  <1> DEFINE Bad == {left \in SUBSET Splitters :
                       \E p \in X : f[left][p] \notin Seq(Filled(c, X))}
  <1> SUFFICES ASSUME Bad # {} PROVE FALSE
    OBVIOUS
  <1>0. Bad \in SUBSET (SUBSET Splitters)
    OBVIOUS
  <1>1. PICK left \in SUBSET Splitters :
          /\ \E p \in X : f[left][p] \notin Seq(Filled(c, X))
          /\ \A y \in Bad : y \subseteq left => y = left
    <2> HIDE DEF Bad
    <2>1. PICK y \in Bad : \A z \in Bad : z \subseteq y => z = y
      BY <1>0, SubsetMin
    <2> USE DEF Bad
    <2> QED BY <2>1
  <1>7. \A y \in SUBSET Splitters :
          y \subseteq left /\ y # left => \A p \in X : f[y][p] \in Seq(Filled(c, X))
    BY <1>1
  <1> HIDE DEF Bad
  <1>2. PICK p \in X : f[left][p] \notin Seq(Filled(c, X))
    BY <1>1
  <1>3. p \in Places /\ left \in SUBSET Splitters
    OBVIOUS
  <1>4. c[p] # Nothing
    <2> SUFFICES ASSUME c[p] = Nothing PROVE FALSE
      OBVIOUS
    <2>1. f[left][p] = <<>>
      BY <1>3, VisitNothing
    <2> QED BY <1>2, <2>1
  <1>5. c[p] \in left
    <2> SUFFICES ASSUME c[p] \notin left PROVE FALSE
      OBVIOUS
    <2>1. f[left][p] = <<p>>
      BY <1>3, <1>4, VisitEnd
    <2>2. p \in Filled(c, X)
      BY <1>4 DEF Filled
    <2> QED BY <1>2, <2>1, <2>2
  <1>6. f[left][p] = Post(f[left \ {c[p]}][Slot(c[p], "primary")],
                          f[left \ {c[p]}][Slot(c[p], "secondary")], p)
    BY <1>3, <1>4, <1>5, VisitInner
  <1>8. \A side \in Sides : f[left \ {c[p]}][Slot(c[p], side)] \in Seq(Filled(c, X))
    <2>1. \A side \in Sides : Slot(c[p], side) \in X
      BY <1>3, <1>5 DEF Closed
    <2>2. left \ {c[p]} \in SUBSET Splitters /\ left \ {c[p]} # left
      BY <1>5
    <2> QED BY <1>7, <2>1, <2>2
  <1>9. /\ f[left \ {c[p]}][Slot(c[p], "primary")] \in Seq(Filled(c, X))
        /\ f[left \ {c[p]}][Slot(c[p], "secondary")] \in Seq(Filled(c, X))
    BY <1>8, SideFacts
  <1>10. p \in Filled(c, X)
    BY <1>4 DEF Filled
  <1>11. \A x, y \in Seq(Filled(c, X)) :
           \A z \in Filled(c, X) : Post(x, y, z) \in Seq(Filled(c, X))
    BY DEF Post
  <1> QED BY <1>2, <1>6, <1>9, <1>10, <1>11

LEMMA PlacesClosed == ASSUME NEW c, Heap(c) PROVE Closed(c, Places)
  BY PlaceFacts DEF Closed

(* Induction over a tree: it is in every closed set that has its root. *)
LEMMA TreeInduct ==
  ASSUME NEW c, Heap(c), NEW g \in Groups,
         NEW X \in SUBSET Places, Closed(c, X), Root(g) \in X
  PROVE  Tree(c, g) \subseteq Filled(c, X)
  <1>1. PICK f : Follows(c, f) /\ Visited(c, g) = f[Splitters][Root(g)]
    BY VisitedFollows
  <1>2. Visited(c, g) \in Seq(Filled(c, X))
    BY <1>1, VisitStays
  <1> QED BY <1>2 DEF Tree, ToSet

LEMMA VisitedSeq ==
  ASSUME NEW c, Heap(c), NEW g \in Groups
  PROVE  Visited(c, g) \in Seq(Places)
  <1>1. PICK f : Follows(c, f) /\ Visited(c, g) = f[Splitters][Root(g)]
    BY VisitedFollows
  <1>2. Visited(c, g) \in Seq(Filled(c, Places))
    BY <1>1, VisitStays, PlacesClosed, PlaceFacts
  <1> QED BY <1>2 DEF Filled

LEMMA TreePlaces ==
  ASSUME NEW c, Heap(c), NEW g \in Groups
  PROVE  Tree(c, g) \subseteq Places /\ \A p \in Tree(c, g) : c[p] # Nothing
  BY TreeInduct, PlacesClosed, PlaceFacts DEF Filled

(* The place of a nonempty part of a tree that a visit comes to first or last *)
(* is in that part.                                                           *)
LEMMA FirstAndLast ==
  ASSUME NEW c, Heap(c), NEW g \in Groups, NEW P, P \subseteq Tree(c, g), P # {}
  PROVE  FirstOf(c, g, P) \in P /\ LastOf(c, g, P) \in P
  <1> DEFINE order == Visited(c, g)
  <1> DEFINE I == {i \in 1..Len(order) : order[i] \in P}
  <1>1. order \in Seq(Places) /\ Len(order) \in Nat /\ DOMAIN order = 1..Len(order)
    BY VisitedSeq
  <1>2. I # {} /\ I \in SUBSET Nat
    BY <1>1 DEF Tree, ToSet
  <1>3. PICK i \in I : \A j \in I : i <= j
    BY <1>2, NatMin
  <1>4. PICK k \in I : \A j \in I : k >= j
    <2> HIDE DEF order
    <2> DEFINE J == {m \in Nat : \A j \in I : j <= m}
    <2>1. Len(order) \in J
      BY <1>1
    <2>2. PICK m \in J : \A n \in J : m <= n
      BY <2>1, NatMin
    <2>3. m \in I
      <3> SUFFICES ASSUME m \notin I PROVE FALSE
        OBVIOUS
      <3>1. m # 0
        BY <1>2
      <3>2. m - 1 \in J
        BY <3>1, <1>2
      <3> QED BY <2>2, <3>2
    <2> QED BY <2>2, <2>3
  <1>5. Min(I) \in I
    <2> HIDE DEF I
    <2> QED BY <1>3, Zenon DEF Min
  <1>6. Max(I) \in I
    <2> HIDE DEF I
    <2> QED BY <1>4, Zenon DEF Max
  <1>7. SelectInSeq(order, LAMBDA p : p \in P) = Min(I)
    BY <1>2 DEF SelectInSeq
  <1>8. SelectLastInSeq(order, LAMBDA p : p \in P) = Max(I)
    BY <1>2 DEF SelectLastInSeq
  <1>9. FirstOf(c, g, P) = order[Min(I)] /\ LastOf(c, g, P) = order[Max(I)]
    BY <1>7, <1>8 DEF FirstOf, LastOf
  <1> QED BY <1>5, <1>6, <1>9

(* A rank is lower in a splitter than in the one it is below.  With one, the  *)
(* trees have no cycles.                                                      *)
Ranks(c, r) ==
  /\ r \in [Splitters -> Nat]
  /\ \A s \in Splitters, side \in Sides :
       c[Slot(s, side)] \in Splitters => r[c[Slot(s, side)]] < r[s]

(* X has p, and with a splitter what is in its slots. *)
Whole(c, p, X) ==
  /\ c[p] # Nothing => p \in X
  /\ \A q \in X : c[q] \in Splitters =>
       \A side \in Sides : c[Slot(c[q], side)] # Nothing => Slot(c[q], side) \in X

LEMMA PostFacts ==
  ASSUME NEW S, NEW x \in Seq(S), NEW y \in Seq(S), NEW p \in S
  PROVE  ToSet(Post(x, y, p)) = ToSet(x) \cup ToSet(y) \cup {p}
  <1>1. x \o y \in Seq(S) /\ ToSet(x \o y) = ToSet(x) \cup ToSet(y)
    BY ToSetConcat
  <1>2. ASSUME NEW s \in Seq(S) PROVE ToSet(Append(s, p)) = ToSet(s) \cup {p}
    <2>1. ASSUME NEW e \in ToSet(Append(s, p)) PROVE e \in ToSet(s) \cup {p}
      BY <2>1 DEF ToSet
    <2>2. ASSUME NEW e \in ToSet(s) PROVE e \in ToSet(Append(s, p))
      <3>1. PICK i \in DOMAIN s : e = s[i]
        BY DEF ToSet
      <3>2. i \in DOMAIN Append(s, p) /\ Append(s, p)[i] = e
        BY <3>1
      <3> QED BY <3>2 DEF ToSet
    <2>3. p \in ToSet(Append(s, p))
      <3>1. Len(s) + 1 \in DOMAIN Append(s, p) /\ Append(s, p)[Len(s) + 1] = p
        OBVIOUS
      <3> QED BY <3>1 DEF ToSet
    <2> QED BY <2>1, <2>2, <2>3
  <1>3. ToSet(Append(x \o y, p)) = ToSet(x \o y) \cup {p}
    BY <1>1, <1>2
  <1> QED BY <1>1, <1>3 DEF Post

(* As long as no splitter is passed twice, a visit leaves nothing out. *)
LEMMA VisitWhole ==
  ASSUME NEW c, Heap(c), NEW f, Follows(c, f), NEW r, Ranks(c, r)
  PROVE  \A left \in SUBSET Splitters : \A p \in Places :
           (c[p] \in Splitters => {t \in Splitters : r[t] <= r[c[p]]} \subseteq left)
             => Whole(c, p, ToSet(f[left][p]))
  <1> DEFINE Enough(left, p) ==
        c[p] \in Splitters => {t \in Splitters : r[t] <= r[c[p]]} \subseteq left
  <1> DEFINE Bad == {left \in SUBSET Splitters :
                       \E p \in Places : Enough(left, p) /\ ~Whole(c, p, ToSet(f[left][p]))}
  <1> SUFFICES ASSUME Bad # {} PROVE FALSE
    OBVIOUS
  <1>0. Bad \in SUBSET (SUBSET Splitters)
    OBVIOUS
  <1>1. PICK left \in SUBSET Splitters :
          /\ \E p \in Places : Enough(left, p) /\ ~Whole(c, p, ToSet(f[left][p]))
          /\ \A y \in Bad : y \subseteq left => y = left
    <2> HIDE DEF Bad, Enough
    <2>1. PICK y \in Bad : \A z \in Bad : z \subseteq y => z = y
      BY <1>0, SubsetMin
    <2> USE DEF Bad
    <2> QED BY <2>1
  <1>2. \A y \in SUBSET Splitters : y \subseteq left /\ y # left =>
          \A p \in Places : Enough(y, p) => Whole(c, p, ToSet(f[y][p]))
    <2> HIDE DEF Enough
    <2> QED BY <1>1
  <1> HIDE DEF Bad
  <1>3. PICK p \in Places : Enough(left, p) /\ ~Whole(c, p, ToSet(f[left][p]))
    BY <1>1
  <1>4. c[p] # Nothing
    <2> SUFFICES ASSUME c[p] = Nothing PROVE FALSE
      OBVIOUS
    <2>1. f[left][p] = <<>>
      BY VisitNothing
    <2>2. ToSet(f[left][p]) = {}
      BY <2>1 DEF ToSet
    <2> QED BY <1>3, <2>2 DEF Whole
  <1>5. c[p] \in left
    <2> SUFFICES ASSUME c[p] \notin left PROVE FALSE
      OBVIOUS
    <2>1. f[left][p] = <<p>>
      BY <1>4, VisitEnd
    <2>2. ToSet(<<p>>) = {p}
      BY DEF ToSet
    <2>3. c[p] \notin Splitters
      <3> SUFFICES ASSUME c[p] \in Splitters PROVE FALSE
        OBVIOUS
      <3>1. r[c[p]] \in Nat
        BY DEF Ranks
      <3> QED BY <1>3, <3>1
    <2>4. Whole(c, p, {p})
      BY <2>3 DEF Whole
    <2> QED BY <1>3, <2>1, <2>2, <2>4
  <1> DEFINE rest == left \ {c[p]}
  <1> DEFINE a == f[rest][Slot(c[p], "primary")]
  <1> DEFINE b == f[rest][Slot(c[p], "secondary")]
  <1>6. f[left][p] = Post(a, b, p)
    BY <1>4, <1>5, VisitInner
  <1>7. c[p] \in Splitters /\ rest \in SUBSET Splitters /\ rest \subseteq left /\ rest # left
    BY <1>5
  <1>8. \A side \in Sides : Slot(c[p], side) \in Places
    BY <1>7, PlaceFacts
  <1>9. ASSUME NEW side \in Sides PROVE Enough(rest, Slot(c[p], side))
    <2> SUFFICES ASSUME c[Slot(c[p], side)] \in Splitters,
                        NEW t \in Splitters, r[t] <= r[c[Slot(c[p], side)]]
                 PROVE  t \in rest
      OBVIOUS
    <2>1. r[c[Slot(c[p], side)]] < r[c[p]]
      BY <1>7 DEF Ranks
    <2>2. r[t] \in Nat /\ r[c[p]] \in Nat /\ r[c[Slot(c[p], side)]] \in Nat
      BY <1>7 DEF Ranks
    <2>3. r[t] <= r[c[p]] /\ t # c[p]
      BY <2>1, <2>2
    <2>4. {u \in Splitters : r[u] <= r[c[p]]} \subseteq left
      BY <1>3, <1>7
    <2> QED BY <2>3, <2>4
  <1>10. \A side \in Sides : Whole(c, Slot(c[p], side), ToSet(f[rest][Slot(c[p], side)]))
    <2> HIDE DEF Enough, rest
    <2> QED BY <1>2, <1>7, <1>8, <1>9
  <1>11. /\ Whole(c, Slot(c[p], "primary"), ToSet(a))
         /\ Whole(c, Slot(c[p], "secondary"), ToSet(b))
    BY <1>10, SideFacts
  <1>12. a \in Seq(Places) /\ b \in Seq(Places)
    <2>1. \A q \in Places : f[rest][q] \in Seq(Filled(c, Places))
      BY <1>7, VisitStays, PlacesClosed
    <2>2. \A s \in Seq(Filled(c, Places)) : s \in Seq(Places)
      BY DEF Filled
    <2>3. \A q \in Places : f[rest][q] \in Seq(Places)
      <3> HIDE DEF rest
      <3> QED BY <2>1, <2>2
    <2> QED BY <1>8, <2>3, SideFacts
  <1> HIDE DEF a, b, rest, Enough
  <1>13. ToSet(Post(a, b, p)) = ToSet(a) \cup ToSet(b) \cup {p}
    BY <1>12, PostFacts
  <1>14. Whole(c, p, ToSet(a) \cup ToSet(b) \cup {p})
    BY <1>11, SideFacts DEF Whole
  <1> QED BY <1>3, <1>6, <1>13, <1>14

LEMMA TreeWhole ==
  ASSUME NEW c, Heap(c), NEW r, Ranks(c, r), NEW g \in Groups
  PROVE  Whole(c, Root(g), Tree(c, g))
  <1>1. PICK f : Follows(c, f) /\ Visited(c, g) = f[Splitters][Root(g)]
    BY VisitedFollows
  <1>2. {t \in Splitters : r[t] <= r[c[Root(g)]]} \subseteq Splitters
    OBVIOUS
  <1>3. Splitters \in SUBSET Splitters /\ Root(g) \in Places
    BY PlaceFacts
  <1>4. Whole(c, Root(g), ToSet(f[Splitters][Root(g)]))
    BY <1>1, <1>2, <1>3, VisitWhole
  <1> QED BY <1>1, <1>4 DEF Tree

-----------------------------------------------------------------------------
(* Layouts: no splitter is in two places, one that is in use has two         *)
(* children and one that is not has none, and there are no cycles.           *)
OneHolder(c) ==
  \A p, q \in Places : c[p] \in Splitters /\ c[p] = c[q] => p = q

TwoChildren(c) ==
  \A s \in Splitters, side \in Sides : c[Slot(s, side)] # Nothing <=> Held(c, s)

Shape(c) == Heap(c) /\ OneHolder(c) /\ TwoChildren(c) /\ \E r : Ranks(c, r)

(* A tree has its root if it is not empty, and both children of a splitter.  *)
LEMMA TreeClosed ==
  ASSUME NEW c, Shape(c), NEW g \in Groups
  PROVE  /\ Exists(c, g) => Root(g) \in Tree(c, g)
         /\ \A p \in Tree(c, g) : c[p] \in Splitters =>
              \A side \in Sides : Slot(c[p], side) \in Tree(c, g)
  <1>1. Whole(c, Root(g), Tree(c, g))
    BY TreeWhole DEF Shape
  <1>2. Tree(c, g) \subseteq Places
    BY TreePlaces DEF Shape
  <1>3. ASSUME NEW p \in Tree(c, g), c[p] \in Splitters, NEW side \in Sides
        PROVE  c[Slot(c[p], side)] # Nothing
    BY <1>2, <1>3 DEF Shape, TwoChildren, Held
  <1> QED BY <1>1, <1>3 DEF Whole, Exists

(* What else is in a tree is below a place of it. *)
LEMMA TreeAbove ==
  ASSUME NEW c, Shape(c), NEW g \in Groups
  PROVE  \A p \in Tree(c, g) :
           p = Root(g) \/ \E q \in Tree(c, g), side \in Sides :
                            c[q] \in Splitters /\ p = Slot(c[q], side)
  <1> DEFINE X == {p \in Places :
                     p = Root(g) \/ \E q \in Tree(c, g), side \in Sides :
                                      c[q] \in Splitters /\ p = Slot(c[q], side)}
  <1>1. Root(g) \in X
    BY PlaceFacts
  <1>2. Closed(c, X)
    <2> SUFFICES ASSUME NEW p \in X, c[p] \in Splitters, NEW side \in Sides
                 PROVE  Slot(c[p], side) \in X
      BY DEF Closed
    <2>1. c[p] # Nothing
      BY NodeFacts
    <2>2. p \in Tree(c, g)
      BY <2>1, TreeClosed DEF Exists
    <2> QED BY <2>2, PlaceFacts
  <1>3. Tree(c, g) \subseteq Filled(c, X)
    <2> HIDE DEF X
    <2>1. X \in SUBSET Places
      BY DEF X
    <2> QED BY <1>1, <1>2, <2>1, TreeInduct DEF Shape
  <1> QED BY <1>3 DEF Filled

LEMMA TreeParent ==
  ASSUME NEW c, Shape(c), NEW g \in Groups, NEW s \in Splitters, NEW side \in Sides,
         Slot(s, side) \in Tree(c, g)
  PROVE  \E q \in Tree(c, g) : c[q] = s
  BY TreeAbove, PlaceFacts

LEMMA TreeOnlyRoot ==
  ASSUME NEW c, Shape(c), NEW g \in Groups, NEW h \in Groups, Root(h) \in Tree(c, g)
  PROVE  g = h
  BY TreeAbove, PlaceFacts

(* A place is in one tree. *)
LEMMA TreesApart ==
  ASSUME NEW c, Shape(c), NEW g \in Groups, NEW h \in Groups,
         NEW p, p \in Tree(c, g), p \in Tree(c, h)
  PROVE  g = h
  <1> SUFFICES ASSUME g # h PROVE FALSE
    OBVIOUS
  <1> DEFINE X == {q \in Places : q \notin Tree(c, h)}
  <1>1. Root(g) \in X
    BY PlaceFacts, TreeOnlyRoot
  <1>2. Closed(c, X)
    <2> SUFFICES ASSUME NEW q \in X, c[q] \in Splitters, NEW side \in Sides,
                        Slot(c[q], side) \notin X
                 PROVE  FALSE
      BY DEF Closed
    <2>1. Slot(c[q], side) \in Tree(c, h)
      BY PlaceFacts
    <2>2. PICK q2 \in Tree(c, h) : c[q2] = c[q]
      BY <2>1, TreeParent
    <2>3. q2 \in Places /\ q \in Places
      BY TreePlaces DEF Shape
    <2>4. q2 = q
      BY <2>2, <2>3 DEF Shape, OneHolder
    <2> QED BY <2>4
  <1>3. Tree(c, g) \subseteq Filled(c, X)
    <2> HIDE DEF X
    <2>1. X \in SUBSET Places
      BY DEF X
    <2> QED BY <1>1, <1>2, <2>1, TreeInduct DEF Shape
  <1> QED BY <1>3 DEF Filled

(* A window without a tree shows nothing. *)
LEMMA TreeEmpty ==
  ASSUME NEW c, Heap(c), NEW g \in Groups, ~Exists(c, g)
  PROVE  Tree(c, g) = {}
  <1> DEFINE X == {Root(g)}
  <1>1. Closed(c, X) /\ X \in SUBSET Places
    BY PlaceFacts, NodeFacts DEF Closed, Exists
  <1>2. Tree(c, g) \subseteq Filled(c, X)
    BY <1>1, TreeInduct
  <1> QED BY <1>2 DEF Filled, Exists

(* Nothing is lost: from every node, going up ends at the root of a window,  *)
(* because the rank rises and there are finitely many splitters.             *)
LEMMA InSomeTree ==
  ASSUME NEW c, Shape(c), NEW p \in Places, c[p] # Nothing
  PROVE  \E g \in Groups : p \in Tree(c, g)
  <1> DEFINE Lost(q) == q \in Places /\ c[q] # Nothing /\ \A g \in Groups : q \notin Tree(c, g)
  <1> SUFFICES ASSUME Lost(p) PROVE FALSE
    OBVIOUS
  <1>1. PICK r : Ranks(c, r)
    BY DEF Shape
  <1> DEFINE Above(s) == {t \in Splitters : r[t] >= r[s]}
  <1>2. ASSUME NEW q, Lost(q)
        PROVE  \E s \in Splitters, side \in Sides, o \in Places : q = Slot(s, side) /\ Lost(o) /\ c[o] = s
    <2>1. \A g \in Groups : q # Root(g)
      BY <1>2, TreeClosed DEF Exists
    <2>2. PICK s \in Splitters, side \in Sides : q = Slot(s, side)
      BY <1>2, <2>1, PlaceFacts
    <2>3. PICK o \in Places : c[o] = s
      BY <1>2, <2>2 DEF Shape, TwoChildren, Held
    <2>4. Lost(o)
      BY <1>2, <2>2, <2>3, NodeFacts, TreeClosed
    <2> QED BY <2>2, <2>3, <2>4
  <1> DEFINE T == {U \in SUBSET Splitters :
                     \E s \in Splitters, side \in Sides : Lost(Slot(s, side)) /\ U = Above(s)}
  <1>3. T # {} /\ T \in SUBSET (SUBSET Splitters)
    <2>1. PICK s \in Splitters, side \in Sides : p = Slot(s, side)
      BY <1>2
    <2>2. Above(s) \in T
      BY <2>1
    <2> QED BY <2>2
  <1>4. PICK U \in T : \A y \in T : y \subseteq U => y = U
    <2> HIDE DEF T
    <2> QED BY <1>3, SubsetMin
  <1>5. PICK s \in Splitters, side \in Sides : Lost(Slot(s, side)) /\ U = Above(s)
    OBVIOUS
  <1>6. PICK s2 \in Splitters, side2 \in Sides, o \in Places : Slot(s, side) = Slot(s2, side2) /\ Lost(o) /\ c[o] = s2
    BY <1>2, <1>5
  <1>7. s2 = s
    BY <1>6, PlaceFacts
  <1>8. PICK s3 \in Splitters, side3 \in Sides, o3 \in Places : o = Slot(s3, side3) /\ Lost(o3) /\ c[o3] = s3
    BY <1>2, <1>6
  <1>9. r[s] < r[s3] /\ \A t \in Splitters : r[t] \in Nat
    BY <1>1, <1>6, <1>7, <1>8 DEF Ranks
  <1>10. Above(s3) \subseteq Above(s) /\ s \in Above(s) /\ s \notin Above(s3)
    BY <1>9
  <1>11. Above(s3) \in T
    BY <1>6, <1>8
  <1> QED
    <2> HIDE DEF T, Lost, Above
    <2> QED BY <1>4, <1>5, <1>10, <1>11

-----------------------------------------------------------------------------
(* What the operations do to a heap c *)

(* x is put into the place p. *)
Put(c, d, p, x) ==
  Heap(d) /\ \A q \in Places : d[q] = IF q = p THEN x ELSE c[q]

(* The contents of two places are exchanged. *)
Exchanged(c, d, a, b) ==
  Heap(d) /\ \A q \in Places : d[q] = IF q = b THEN c[a] ELSE IF q = a THEN c[b] ELSE c[q]

Slots(s) == {Slot(s, side) : side \in Sides}

(* What is in one slot of s goes, what is in the other slot takes the place o *)
(* of s.                                                                      *)
Promoted(c, d, s, side, o) ==
  Heap(d) /\ \A q \in Places :
    d[q] = IF q \in Slots(s) THEN Nothing
           ELSE IF q = o THEN c[Slot(s, Other(side))] ELSE c[q]

(* The splitter n with the children a and b takes the place p. *)
Grafted(c, d, p, n, a, b) ==
  Heap(d) /\ \A q \in Places :
    d[q] = IF q = Slot(n, "secondary") THEN b
           ELSE IF q = Slot(n, "primary") THEN a
           ELSE IF q = p THEN n ELSE c[q]

(* ... and the splitter s that was there goes. *)
Rebuilt(c, d, p, s, n, a, b) ==
  Heap(d) /\ \A q \in Places :
    d[q] = IF q \in Slots(s) THEN Nothing
           ELSE IF q = Slot(n, "secondary") THEN b
           ELSE IF q = Slot(n, "primary") THEN a
           ELSE IF q = p THEN n ELSE c[q]

Leaf(x) == x \in Visualizers \cup {Nothing}

(* What is destroyed between c and d is a splitter with v as a child. *)
Frees(c, d, v) ==
  \A t \in Splitters : Held(c, t) /\ ~Held(d, t) => \E side \in Sides : c[Slot(t, side)] = v

(* All of them keep the shape. *)
LEMMA PutShape ==
  ASSUME NEW c, Shape(c), NEW d, NEW g \in Groups, NEW x,
         Put(c, d, Root(g), x), Leaf(c[Root(g)]), Leaf(x)
  PROVE  Shape(d)
  <1> USE DEF Shape, Put, Leaf
  <1>1. Root(g) \in Places /\ \A s \in Splitters, side \in Sides : Root(g) # Slot(s, side)
    BY PlaceFacts
  <1>2. \A s \in Splitters : Held(d, s) <=> Held(c, s)
    BY <1>1, NodeFacts DEF Held
  <1>3. \A s \in Splitters, side \in Sides :
          Slot(s, side) \in Places /\ d[Slot(s, side)] = c[Slot(s, side)]
    BY <1>1, PlaceFacts
  <1>4. OneHolder(d)
    BY <1>1, NodeFacts DEF OneHolder
  <1>5. TwoChildren(d)
    BY <1>2, <1>3 DEF TwoChildren
  <1>6. \E r : Ranks(d, r)
    BY <1>3 DEF Ranks
  <1> QED BY <1>4, <1>5, <1>6

LEMMA ExchangedShape ==
  ASSUME NEW c, Shape(c), NEW d, NEW a \in Places, NEW b \in Places,
         Exchanged(c, d, a, b), c[a] \in Visualizers, c[b] \in Visualizers
  PROVE  Shape(d)
  <1> USE DEF Shape, Exchanged
  <1>1. \A q \in Places : /\ d[q] \in Splitters <=> c[q] \in Splitters
                          /\ c[q] \in Splitters => d[q] = c[q]
                          /\ d[q] = Nothing <=> c[q] = Nothing
    BY NodeFacts
  <1>2. \A s \in Splitters : Held(d, s) <=> Held(c, s)
    BY <1>1 DEF Held
  <1>3. OneHolder(d)
    BY <1>1 DEF OneHolder
  <1>4. TwoChildren(d)
    BY <1>1, <1>2, PlaceFacts DEF TwoChildren
  <1>5. \E r : Ranks(d, r)
    BY <1>1, PlaceFacts DEF Ranks
  <1> QED BY <1>3, <1>4, <1>5

(* A splitter is not in its own slots. *)
LEMMA NotInOwnSlot ==
  ASSUME NEW c, Shape(c), NEW s \in Splitters
  PROVE  \A side \in Sides : c[Slot(s, side)] # s
  BY DEF Shape, Ranks

LEMMA PromotedShape ==
  ASSUME NEW c, Shape(c), NEW d, NEW s \in Splitters, NEW side \in Sides,
         NEW o \in Places, Promoted(c, d, s, side, o),
         c[o] = s, c[Slot(s, side)] \in Visualizers
  PROVE  Shape(d)
  <1> DEFINE x == c[Slot(s, Other(side))]
  <1>1. /\ \A q \in Places : d[q] = IF q \in Slots(s) THEN Nothing
                                    ELSE IF q = o THEN x ELSE c[q]
        /\ Heap(d)
    BY DEF Promoted
  <1>2. /\ o \notin Slots(s)
        /\ \A t \in Splitters, a \in Sides : Slot(t, a) \in Places
                                             /\ (Slot(t, a) \in Slots(s) <=> t = s)
        /\ Slot(s, side) \in Slots(s) /\ Slot(s, Other(side)) \in Slots(s)
        /\ Slots(s) \subseteq Places
        /\ \A q \in Slots(s) : q = Slot(s, side) \/ q = Slot(s, Other(side))
    BY NotInOwnSlot, PlaceFacts, SideFacts DEF Slots
  <1>3. x # Nothing /\ x # s /\ Slot(s, Other(side)) \in Places
        /\ Slot(s, Other(side)) # o
    BY <1>2, NotInOwnSlot, SideFacts DEF Shape, TwoChildren, Held
  <1>4. PICK r : Ranks(c, r)
    BY DEF Shape
  <1>5. \A p, q \in Places : c[p] \in Splitters /\ c[p] = c[q] => p = q
    BY DEF Shape, OneHolder
  <1> HIDE DEF x
  <1>6. OneHolder(d)
    <2> SUFFICES ASSUME NEW p \in Places, NEW q \in Places, d[p] \in Splitters, d[p] = d[q]
                 PROVE  p = q
      BY DEF OneHolder
    <2>1. p \notin Slots(s) /\ q \notin Slots(s)
      BY <1>1, NodeFacts
    <2>2. ASSUME NEW a \in Places, NEW b \in Places, d[a] \in Splitters, d[a] = d[b],
                 a \notin Slots(s), b \notin Slots(s), a = o
          PROVE  b = o
      <3> SUFFICES ASSUME b # o PROVE FALSE
        OBVIOUS
      <3>1. d[a] = x /\ d[b] = c[b]
        BY <1>1, <2>2
      <3>2. c[Slot(s, Other(side))] = c[b] /\ c[b] \in Splitters
        BY <3>1, <2>2 DEF x
      <3>3. b = Slot(s, Other(side))
        BY <1>3, <1>5, <3>2
      <3> QED BY <3>3, <2>2, <1>2
    <2> QED BY <1>1, <1>5, <2>1, <2>2
  <1>7. ASSUME NEW t \in Splitters
        PROVE  Held(d, t) <=> (Held(c, t) /\ t # s)
    <2>1. ASSUME NEW p \in Places, d[p] = t PROVE Held(c, t) /\ t # s
      <3>1. p \notin Slots(s)
        BY <1>1, <2>1, NodeFacts
      <3>2. CASE p = o
        BY <1>1, <1>3, <2>1, <3>1, <3>2 DEF Held, x
      <3>3. CASE p # o
        <4>1. c[p] = t
          BY <1>1, <2>1, <3>1, <3>3
        <4>2. t # s
          BY <1>5, <3>3, <4>1
        <4> QED BY <4>1, <4>2 DEF Held
      <3> QED BY <3>2, <3>3
    <2>2. ASSUME NEW p \in Places, c[p] = t, t # s PROVE Held(d, t)
      <3>1. CASE p \in Slots(s)
        <4>1. p = Slot(s, Other(side))
          BY <1>2, <2>2, <3>1, NodeFacts
        <4>2. d[o] = t
          BY <1>1, <1>2, <2>2, <4>1 DEF x
        <4> QED BY <4>2 DEF Held
      <3>2. CASE p \notin Slots(s)
        <4>1. p # o
          BY <2>2
        <4>2. d[p] = t
          BY <1>1, <2>2, <3>2, <4>1
        <4> QED BY <4>2 DEF Held
      <3> QED BY <3>1, <3>2
    <2> QED BY <2>1, <2>2 DEF Held
  <1>8. TwoChildren(d)
    <2> SUFFICES ASSUME NEW t \in Splitters, NEW a \in Sides
                 PROVE  d[Slot(t, a)] # Nothing <=> Held(d, t)
      BY DEF TwoChildren
    <2>1. c[Slot(t, a)] # Nothing <=> Held(c, t)
      BY DEF Shape, TwoChildren
    <2>2. CASE t = s
      BY <1>1, <1>2, <1>7, <2>2
    <2>3. CASE t # s
      <3>1. d[Slot(t, a)] # Nothing <=> c[Slot(t, a)] # Nothing
        BY <1>1, <1>2, <1>3, <2>3, NodeFacts
      <3> QED BY <1>7, <2>1, <2>3, <3>1
    <2> QED BY <2>2, <2>3
  <1>9. Ranks(d, r)
    <2> SUFFICES ASSUME NEW t \in Splitters, NEW a \in Sides, d[Slot(t, a)] \in Splitters
                 PROVE  r[d[Slot(t, a)]] < r[t]
      BY <1>4 DEF Ranks
    <2>1. t # s /\ Slot(t, a) \notin Slots(s)
      BY <1>1, <1>2, NodeFacts
    <2>2. CASE Slot(t, a) = o
      <3>1. d[Slot(t, a)] = x
        BY <1>1, <1>2, <2>1, <2>2
      <3>2. x \in Splitters /\ r[x] < r[s]
        BY <1>4, <3>1, SideFacts DEF Ranks, x
      <3>3. r[s] < r[t]
        BY <1>4, <2>2 DEF Ranks
      <3>4. r[x] \in Nat /\ r[s] \in Nat /\ r[t] \in Nat
        BY <1>4, <3>2 DEF Ranks
      <3> QED BY <3>1, <3>2, <3>3, <3>4
    <2>3. CASE Slot(t, a) # o
      <3>1. d[Slot(t, a)] = c[Slot(t, a)]
        BY <1>1, <1>2, <2>1, <2>3
      <3> QED BY <1>4, <3>1 DEF Ranks
    <2> QED BY <2>2, <2>3
  <1> QED BY <1>1, <1>6, <1>8, <1>9 DEF Shape

(* A visualizer becomes a splitter with two visualizers. *)
LEMMA LeafGraftedShape ==
  ASSUME NEW c, Shape(c), NEW d, NEW p \in Places, NEW n \in Splitters, ~Held(c, n),
         NEW a \in Visualizers, NEW b \in Visualizers,
         Grafted(c, d, p, n, a, b), c[p] \in Visualizers
  PROVE  Shape(d)
  <1>1. /\ Heap(d) /\ p \notin Slots(n) /\ Slots(n) \subseteq Places
        /\ \A t \in Splitters, e \in Sides : Slot(t, e) \in Places
                                             /\ (Slot(t, e) \in Slots(n) <=> t = n)
        /\ \A q \in Slots(n) : c[q] = Nothing
    BY PlaceFacts, NodeFacts DEF Slots, Shape, TwoChildren, Grafted
  <1>2. \A q \in Places : /\ q \in Slots(n) => d[q] \in Visualizers
                          /\ q = p => d[q] = n
                          /\ q \notin Slots(n) /\ q # p => d[q] = c[q]
    BY <1>1, SideFacts DEF Slots, Grafted, Sides
  <1>3. PICK r : Ranks(c, r)
    BY DEF Shape
  <1>4. OneHolder(d)
    BY <1>1, <1>2, NodeFacts DEF OneHolder, Shape, Held
  <1>5. ASSUME NEW t \in Splitters PROVE Held(d, t) <=> (Held(c, t) \/ t = n)
    BY <1>1, <1>2, NodeFacts DEF Held
  <1>6. TwoChildren(d)
    <2> SUFFICES ASSUME NEW t \in Splitters, NEW e \in Sides
                 PROVE  d[Slot(t, e)] # Nothing <=> Held(d, t)
      BY DEF TwoChildren
    <2>1. c[Slot(t, e)] # Nothing <=> Held(c, t)
      BY DEF Shape, TwoChildren
    <2> QED BY <1>1, <1>2, <1>5, <2>1, NodeFacts
  <1> DEFINE rr == [t \in Splitters |-> IF t = n THEN 0 ELSE r[t] + 1]
  <1>7. Ranks(d, rr)
    <2>1. rr \in [Splitters -> Nat]
      BY <1>3 DEF Ranks
    <2>2. ASSUME NEW t \in Splitters, NEW e \in Sides, d[Slot(t, e)] \in Splitters
          PROVE  rr[d[Slot(t, e)]] < rr[t]
      <3>1. t # n
        BY <1>1, <1>2, <2>2, NodeFacts
      <3>2. CASE Slot(t, e) = p
        <4>1. d[Slot(t, e)] = n /\ r[t] \in Nat
          BY <1>2, <1>3, <3>2 DEF Ranks
        <4> QED BY <3>1, <4>1
      <3>3. CASE Slot(t, e) # p
        <4>1. d[Slot(t, e)] = c[Slot(t, e)]
          BY <1>1, <1>2, <3>1, <3>3
        <4>2. c[Slot(t, e)] # n
          BY <1>1 DEF Held
        <4>3. r[c[Slot(t, e)]] < r[t] /\ r[t] \in Nat /\ r[c[Slot(t, e)]] \in Nat
          BY <1>3, <2>2, <4>1 DEF Ranks
        <4> QED BY <2>2, <3>1, <4>1, <4>2, <4>3
      <3> QED BY <3>2, <3>3
    <2> QED BY <2>1, <2>2 DEF Ranks
  <1> QED BY <1>1, <1>4, <1>6, <1>7 DEF Shape

(* A tree becomes the first child of a new root. *)
LEMMA RootGraftedShape ==
  ASSUME NEW c, Shape(c), NEW d, NEW g \in Groups, NEW n \in Splitters, ~Held(c, n),
         NEW v \in Visualizers, Exists(c, g),
         Grafted(c, d, Root(g), n, c[Root(g)], v)
  PROVE  Shape(d)
  <1> DEFINE p == Root(g)
  <1> DEFINE x == c[p]
  <1> DEFINE first == Slot(n, "primary")
  <1> DEFINE second == Slot(n, "secondary")
  <1>1. /\ Heap(d) /\ p \notin Slots(n) /\ p \in Places
        /\ \A t \in Splitters, e \in Sides : /\ Slot(t, e) \in Places /\ Slot(t, e) # p
                                             /\ Slot(t, e) \in Slots(n) <=> t = n
        /\ \A q \in Slots(n) : c[q] = Nothing
        /\ first \in Slots(n) /\ second \in Slots(n) /\ first # second
        /\ first \in Places /\ second \in Places
        /\ \A q \in Slots(n) : q = first \/ q = second
    BY PlaceFacts, SideFacts, NodeFacts DEF Slots, Shape, TwoChildren, Grafted, Sides
  <1>2. /\ d[first] = x /\ d[second] = v /\ d[p] = n
        /\ \A q \in Places : q \notin Slots(n) /\ q # p => d[q] = c[q]
    BY <1>1 DEF Grafted
  <1>3. PICK r : Ranks(c, r)
    BY DEF Shape
  <1>4. x # Nothing /\ x # n
    BY <1>1 DEF Exists, Held
  <1>5. \A a, b \in Places : c[a] \in Splitters /\ c[a] = c[b] => a = b
    BY DEF Shape, OneHolder
  <1> HIDE DEF first, second
  <1>6. OneHolder(d)
    <2> SUFFICES ASSUME NEW a \in Places, NEW b \in Places, d[a] \in Splitters, d[a] = d[b]
                 PROVE  a = b
      BY DEF OneHolder
    <2> DEFINE from(q) == IF q = first THEN p ELSE q
    <2>1. ASSUME NEW q \in Places, d[q] \in Splitters, q # p
          PROVE  from(q) \in Places /\ c[from(q)] = d[q] /\ (q # first => from(q) # p)
      BY <1>1, <1>2, <2>1, NodeFacts
    <2>2. ASSUME NEW q \in Places, d[q] = n PROVE q = p
      BY <2>1, <2>2 DEF Held
    <2>3. CASE a = p \/ b = p
      BY <1>2, <2>2, <2>3
    <2>4. CASE a # p /\ b # p
      <3>1. from(a) = from(b)
        BY <1>5, <2>1, <2>4
      <3> QED BY <2>1, <2>4, <3>1
    <2> QED BY <2>3, <2>4
  <1>7. ASSUME NEW t \in Splitters PROVE Held(d, t) <=> (Held(c, t) \/ t = n)
    <2>1. ASSUME NEW q \in Places, d[q] = t, t # n PROVE Held(c, t)
      <3>1. q # p /\ q # second
        BY <1>2, <2>1, NodeFacts
      <3> QED BY <1>1, <1>2, <2>1, <3>1 DEF Held
    <2>2. ASSUME NEW q \in Places, c[q] = t PROVE Held(d, t)
      <3>1. q \notin Slots(n)
        BY <1>1, <2>2, NodeFacts
      <3> QED BY <1>1, <1>2, <2>2, <3>1 DEF Held
    <2> QED BY <1>1, <1>2, <2>1, <2>2 DEF Held
  <1>8. TwoChildren(d)
    <2> SUFFICES ASSUME NEW t \in Splitters, NEW e \in Sides
                 PROVE  d[Slot(t, e)] # Nothing <=> Held(d, t)
      BY DEF TwoChildren
    <2>1. c[Slot(t, e)] # Nothing <=> Held(c, t)
      BY DEF Shape, TwoChildren
    <2> QED BY <1>1, <1>2, <1>4, <1>7, <2>1, NodeFacts
  <1> DEFINE rr == [t \in Splitters |-> IF t = n THEN (IF x \in Splitters THEN r[x] + 1 ELSE 0)
                                                ELSE r[t]]
  <1>9. Ranks(d, rr)
    <2>1. rr \in [Splitters -> Nat]
      BY <1>3 DEF Ranks
    <2>2. ASSUME NEW t \in Splitters, NEW e \in Sides, d[Slot(t, e)] \in Splitters
          PROVE  rr[d[Slot(t, e)]] < rr[t]
      <3>1. CASE t = n
        <4>1. Slot(t, e) = first
          BY <1>1, <1>2, <2>2, <3>1, NodeFacts
        <4>2. d[Slot(t, e)] = x /\ x \in Splitters
          BY <1>2, <2>2, <4>1
        <4>3. rr[x] = r[x] /\ rr[t] = r[x] + 1 /\ r[x] \in Nat
          BY <1>3, <1>4, <3>1, <4>2 DEF Ranks
        <4> HIDE DEF x, rr
        <4> QED BY <4>2, <4>3
      <3>2. CASE t # n
        <4>1. d[Slot(t, e)] = c[Slot(t, e)]
          BY <1>1, <1>2, <3>2
        <4>2. c[Slot(t, e)] # n
          BY <1>1 DEF Held
        <4>3. r[c[Slot(t, e)]] < r[t]
          BY <1>3, <2>2, <4>1 DEF Ranks
        <4> QED BY <2>2, <3>2, <4>1, <4>2, <4>3
      <3> QED BY <3>1, <3>2
    <2> QED BY <2>1, <2>2 DEF Ranks
  <1> QED BY <1>1, <1>6, <1>8, <1>9 DEF Shape

(* A splitter with two visualizers is replaced by another. *)
LEMMA RebuiltShape ==
  ASSUME NEW c, Shape(c), NEW d, NEW p \in Places, NEW s \in Splitters, NEW n \in Splitters,
         ~Held(c, n), c[p] = s, \A side \in Sides : c[Slot(s, side)] \in Visualizers,
         NEW a \in Visualizers, NEW b \in Visualizers,
         Rebuilt(c, d, p, s, n, a, b)
  PROVE  Shape(d) /\ \A t \in Splitters : Held(c, t) /\ t # s => Held(d, t)
  <1>1. /\ Heap(d) /\ p \notin Slots(n) /\ p \notin Slots(s) /\ n # s
        /\ \A t \in Splitters, e \in Sides : /\ Slot(t, e) \in Places
                                             /\ Slot(t, e) \in Slots(n) <=> t = n
                                             /\ Slot(t, e) \in Slots(s) <=> t = s
        /\ \A q \in Slots(n) : c[q] = Nothing
        /\ \A q \in Slots(s) : q \in Places /\ q \notin Slots(n)
    BY PlaceFacts, NodeFacts DEF Slots, Shape, TwoChildren, Rebuilt, Held
  <1>2. \A q \in Places : /\ q \in Slots(n) => d[q] \in Visualizers
                          /\ q \in Slots(s) => d[q] = Nothing
                          /\ q = p => d[q] = n
                          /\ q \notin Slots(n) /\ q \notin Slots(s) /\ q # p => d[q] = c[q]
    BY <1>1, SideFacts DEF Slots, Rebuilt, Sides
  <1>3. PICK r : Ranks(c, r)
    BY DEF Shape
  <1>4. OneHolder(d)
    BY <1>1, <1>2, NodeFacts DEF OneHolder, Shape, Held
  <1>5. \A q \in Slots(s) : c[q] \in Visualizers
    BY DEF Slots
  <1>6. ASSUME NEW t \in Splitters PROVE Held(d, t) <=> ((Held(c, t) /\ t # s) \/ t = n)
    <2>1. ASSUME NEW q \in Places, d[q] = t, t # n PROVE Held(c, t) /\ t # s
      <3>1. q # p /\ c[q] = t
        BY <1>1, <1>2, <2>1, NodeFacts
      <3> QED BY <3>1 DEF Held, Shape, OneHolder
    <2>2. ASSUME NEW q \in Places, c[q] = t, t # s PROVE Held(d, t)
      <3>1. q # p /\ q \notin Slots(n) /\ q \notin Slots(s)
        BY <1>1, <1>5, <2>2, NodeFacts
      <3> QED BY <1>2, <2>2, <3>1 DEF Held
    <2> QED BY <1>2, <2>1, <2>2 DEF Held
  <1>7. TwoChildren(d)
    <2> SUFFICES ASSUME NEW t \in Splitters, NEW e \in Sides
                 PROVE  d[Slot(t, e)] # Nothing <=> Held(d, t)
      BY DEF TwoChildren
    <2>1. c[Slot(t, e)] # Nothing <=> Held(c, t)
      BY DEF Shape, TwoChildren
    <2>2. CASE t = n \/ t = s
      BY <1>1, <1>2, <1>6, <2>2, NodeFacts
    <2>3. CASE t # n /\ t # s
      BY <1>1, <1>2, <1>6, <2>1, <2>3, NodeFacts
    <2> QED BY <2>2, <2>3
  <1> DEFINE rr == [t \in Splitters |-> IF t = n THEN 0 ELSE r[t] + 1]
  <1>8. Ranks(d, rr)
    <2>1. rr \in [Splitters -> Nat]
      BY <1>3 DEF Ranks
    <2>2. ASSUME NEW t \in Splitters, NEW e \in Sides, d[Slot(t, e)] \in Splitters
          PROVE  rr[d[Slot(t, e)]] < rr[t]
      <3>1. t # n /\ t # s
        BY <1>1, <1>2, <2>2, NodeFacts
      <3>2. CASE Slot(t, e) = p
        <4>1. d[Slot(t, e)] = n /\ r[t] \in Nat
          BY <1>2, <1>3, <3>2 DEF Ranks
        <4> QED BY <3>1, <4>1
      <3>3. CASE Slot(t, e) # p
        <4>1. d[Slot(t, e)] = c[Slot(t, e)]
          BY <1>1, <1>2, <3>1, <3>3
        <4>2. c[Slot(t, e)] # n
          BY <1>1 DEF Held
        <4>3. r[c[Slot(t, e)]] < r[t] /\ r[t] \in Nat /\ r[c[Slot(t, e)]] \in Nat
          BY <1>3, <2>2, <4>1 DEF Ranks
        <4> QED BY <2>2, <3>1, <4>1, <4>2, <4>3
      <3> QED BY <3>2, <3>3
    <2> QED BY <2>1, <2>2 DEF Ranks
  <1>9. Shape(d)
    BY <1>1, <1>4, <1>7, <1>8 DEF Shape
  <1> QED BY <1>6, <1>9

-----------------------------------------------------------------------------
(* Counting *)

(* The places of X that hold v. *)
In(c, X, v) == {q \in X : c[q] = v}

One(b) == IF b THEN 1 ELSE 0

LEMMA InFinite ==
  ASSUME NEW c, NEW X \in SUBSET Places, NEW v
  PROVE  IsFiniteSet(In(c, X, v)) /\ Cardinality(In(c, X, v)) \in Nat
  <1>1. In(c, X, v) \in SUBSET Places
    BY DEF In
  <1> QED BY <1>1, PlacesFinite, FS_Subset, FS_CardinalityType

(* A set that loses the element e if b, and gains f if b2. *)
LEMMA LoseGain ==
  ASSUME NEW S, IsFiniteSet(S), NEW e, NEW f, NEW b \in BOOLEAN, NEW b2 \in BOOLEAN,
         b <=> e \in S, f \notin S, NEW T,
         \A q : q \in T <=> (q \in S /\ q # e) \/ (b2 /\ q = f)
  PROVE  /\ IsFiniteSet(T)
         /\ Cardinality(T) = Cardinality(S) - One(b) + One(b2)
  <1> DEFINE R == S \ {e}
  <1>1. /\ IsFiniteSet(R) /\ Cardinality(R) = Cardinality(S) - One(b)
        /\ Cardinality(R) \in Nat /\ Cardinality(S) \in Nat
    BY FS_RemoveElement, FS_CardinalityType DEF One
  <1>2. CASE b2
    <2>1. T = R \cup {f}
      BY <1>2
    <2>2. f \notin R
      OBVIOUS
    <2>3. IsFiniteSet(T) /\ Cardinality(T) = Cardinality(R) + 1
      <3> HIDE DEF R
      <3> QED BY <1>1, <2>1, <2>2, FS_AddElement
    <2> QED BY <1>1, <1>2, <2>3 DEF One
  <1>3. CASE ~b2
    <2>1. T = R
      BY <1>3
    <2>2. IsFiniteSet(T) /\ Cardinality(T) = Cardinality(R)
      BY <1>1, <2>1
    <2> QED BY <1>1, <1>3, <2>2 DEF One
  <1> QED BY <1>2, <1>3

(* A set that loses the element e if it has it. *)
LEMMA Lose ==
  ASSUME NEW S, IsFiniteSet(S), NEW e
  PROVE  /\ IsFiniteSet(S \ {e})
         /\ Cardinality(S \ {e}) \in Nat
         /\ Cardinality(S \ {e}) = Cardinality(S) - One(e \in S)
  <1>1. IsFiniteSet(S \ {e}) /\ Cardinality(S \ {e}) \in Nat /\ Cardinality(S) \in Nat
    BY FS_RemoveElement, FS_CardinalityType
  <1>2. CASE e \in S
    <2>1. Cardinality(S \ {e}) = Cardinality(S) - 1
      BY <1>2, FS_RemoveElement
    <2> QED BY <1>1, <1>2, <2>1 DEF One
  <1>3. CASE e \notin S
    <2>1. S \ {e} = S
      BY <1>3
    <2>2. Cardinality(S \ {e}) = Cardinality(S)
      BY <2>1, Zenon
    <2>3. One(e \in S) = 0
      BY <1>3 DEF One
    <2> QED BY <1>1, <2>2, <2>3
  <1> QED BY <1>1, <1>2, <1>3

(* What is put into a place is counted there instead of what was there. *)
LEMMA PutCount ==
  ASSUME NEW c, NEW d, NEW p \in Places, NEW x, Put(c, d, p, x),
         NEW X \in SUBSET Places, p \in X, NEW w
  PROVE  Cardinality(In(d, X, w)) = Cardinality(In(c, X, w)) - One(c[p] = w) + One(x = w)
  <1> DEFINE R == In(c, X, w) \ {p}
  <1>1. IsFiniteSet(In(c, X, w)) /\ Cardinality(In(c, X, w)) \in Nat
    BY InFinite
  <1>2. IsFiniteSet(R) /\ Cardinality(R) = Cardinality(In(c, X, w)) - One(c[p] = w)
    <2>1. p \in In(c, X, w) <=> c[p] = w
      BY DEF In
    <2>2. One(p \in In(c, X, w)) = One(c[p] = w)
      BY <2>1 DEF One
    <2> QED BY <1>1, <2>2, Lose
  <1>3. p \notin R /\ \A q : q \in In(d, X, w) <=> q \in R \/ (x = w /\ q = p)
    BY DEF In, Put
  <1>4. (x = w) \in BOOLEAN /\ FALSE \in BOOLEAN
    OBVIOUS
  <1> HIDE DEF R
  <1>5. CASE x = w
    <2>1. In(d, X, w) = R \cup {p}
      BY <1>3, <1>5
    <2>2. Cardinality(In(d, X, w)) = Cardinality(R) + 1
      BY <1>2, <1>3, <2>1, FS_AddElement
    <2> QED BY <1>1, <1>2, <1>5, <2>2 DEF One
  <1>6. CASE x # w
    <2>1. In(d, X, w) = R
      BY <1>3, <1>6
    <2> QED BY <1>1, <1>2, <1>6, <2>1 DEF One
  <1> QED BY <1>5, <1>6

LEMMA ExchangedCount ==
  ASSUME NEW c, NEW d, NEW a \in Places, NEW b \in Places, Exchanged(c, d, a, b),
         NEW X \in SUBSET Places, a \in X <=> b \in X, NEW w
  PROVE  Cardinality(In(d, X, w)) = Cardinality(In(c, X, w))
  <1>1. IsFiniteSet(In(c, X, w)) /\ Cardinality(In(c, X, w)) \in Nat
    BY InFinite
  <1>2. \A q \in Places : d[q] = IF q = b THEN c[a] ELSE IF q = a THEN c[b] ELSE c[q]
    BY DEF Exchanged
  <1>3. CASE a \notin X \/ c[a] = c[b] \/ (c[a] # w /\ c[b] # w)
    <2>1. In(d, X, w) = In(c, X, w)
      BY <1>2, <1>3 DEF In
    <2> QED BY <2>1
  <1>4. ASSUME NEW e \in Places, NEW f \in Places, e \in X, f \in X, c[e] = w, c[f] # w,
               d[f] = w, d[e] # w, \A q \in Places : q # e /\ q # f => d[q] = c[q]
        PROVE  Cardinality(In(d, X, w)) = Cardinality(In(c, X, w))
    <2>1. e \in In(c, X, w) /\ f \notin In(c, X, w)
      BY <1>4 DEF In
    <2>2. \A q : q \in In(d, X, w) <=> (q \in In(c, X, w) /\ q # e) \/ (TRUE /\ q = f)
      BY <1>4 DEF In
    <2>3. PICK hit \in BOOLEAN : hit
      OBVIOUS
    <2>4. \A q : q \in In(d, X, w) <=> (q \in In(c, X, w) /\ q # e) \/ (hit /\ q = f)
      BY <2>2, <2>3
    <2>5. hit <=> e \in In(c, X, w)
      BY <2>1, <2>3
    <2>6. Cardinality(In(d, X, w)) = Cardinality(In(c, X, w)) - One(hit) + One(hit)
      BY <1>1, <2>1, <2>4, <2>5, LoseGain
    <2> QED BY <1>1, <2>3, <2>6 DEF One
  <1>5. CASE a \in X /\ c[a] # c[b] /\ c[a] = w
    BY <1>2, <1>4, <1>5
  <1>6. CASE a \in X /\ c[a] # c[b] /\ c[b] = w
    BY <1>2, <1>4, <1>6
  <1> QED BY <1>3, <1>5, <1>6

(* The child that goes is counted no more, the other one as before. *)
LEMMA PromotedCount ==
  ASSUME NEW c, Shape(c), NEW d, NEW s \in Splitters, NEW side \in Sides,
         NEW o \in Places, Promoted(c, d, s, side, o), c[o] = s,
         NEW X \in SUBSET Places, NEW Y \in SUBSET Places,
         \A q \in Places : q \notin Slots(s) => (q \in X <=> q \in Y),
         \A q \in Slots(s) : q \in X <=> o \in X,
         NEW w \in Visualizers
  PROVE  Cardinality(In(d, Y, w)) = Cardinality(In(c, X, w))
                                      - One(o \in X /\ c[Slot(s, side)] = w)
  <1> DEFINE p == Slot(s, side)
  <1> DEFINE q2 == Slot(s, Other(side))
  <1>1. /\ o \notin Slots(s) /\ p \in Slots(s) /\ q2 \in Slots(s) /\ p # q2
        /\ p \in Places /\ q2 \in Places
        /\ \A q \in Slots(s) : q = p \/ q = q2
    BY NotInOwnSlot, PlaceFacts, SideFacts DEF Slots
  <1>2. /\ \A q \in Slots(s) : d[q] = Nothing
        /\ d[o] = c[q2]
        /\ \A q \in Places : q \notin Slots(s) /\ q # o => d[q] = c[q]
    BY <1>1 DEF Promoted
  <1>3. c[o] # w /\ w # Nothing
    BY NodeFacts
  <1> HIDE DEF p, q2
  <1>4. IsFiniteSet(In(c, X, w)) /\ Cardinality(In(c, X, w)) \in Nat
    BY InFinite
  <1>5. CASE o \notin X
    <2>1. \A q : q \in In(d, Y, w) <=> q \in In(c, X, w)
      BY <1>1, <1>2, <1>3, <1>5 DEF In
    <2>2. In(d, Y, w) = In(c, X, w)
      BY <2>1
    <2> QED BY <1>4, <1>5, <2>2 DEF One
  <1>6. CASE o \in X
    <2> DEFINE R == In(c, X, w) \ {p}
    <2>1. IsFiniteSet(R) /\ Cardinality(R) = Cardinality(In(c, X, w)) - One(c[p] = w)
      <3>1. p \in In(c, X, w) <=> c[p] = w
        BY <1>1, <1>6 DEF In
      <3>2. One(p \in In(c, X, w)) = One(c[p] = w)
        BY <3>1 DEF One
      <3> QED BY <1>4, <3>2, Lose
    <2>2. o \notin R /\ (c[q2] = w <=> q2 \in R)
      BY <1>1, <1>3, <1>6 DEF In
    <2>3. \A q : q \in In(d, Y, w) <=> (q \in R /\ q # q2) \/ (c[q2] = w /\ q = o)
      BY <1>1, <1>2, <1>3, <1>6 DEF In
    <2> HIDE DEF R
    <2>4. PICK b \in BOOLEAN : b <=> c[q2] = w
      OBVIOUS
    <2>5. \A q : q \in In(d, Y, w) <=> (q \in R /\ q # q2) \/ (b /\ q = o)
      BY <2>3, <2>4
    <2>6. b <=> q2 \in R
      BY <2>2, <2>4
    <2>7. Cardinality(In(d, Y, w)) = Cardinality(R) - One(b) + One(b)
      BY <2>1, <2>2, <2>5, <2>6, LoseGain
    <2>8. Cardinality(R) \in Nat /\ One(b) \in {0, 1}
      BY <2>1, FS_CardinalityType DEF One
    <2>9. Cardinality(In(d, Y, w)) = Cardinality(R)
      BY <2>7, <2>8
    <2>10. One(c[p] = w) = One(o \in X /\ c[p] = w)
      BY <1>6 DEF One
    <2> QED BY <2>1, <2>9, <2>10 DEF p
  <1> QED BY <1>5, <1>6
(* A set that gains the element f if b. *)
LEMMA Gain ==
  ASSUME NEW S, IsFiniteSet(S), NEW f, f \notin S, NEW b \in BOOLEAN, NEW T,
         \A q : q \in T <=> q \in S \/ (b /\ q = f)
  PROVE  /\ IsFiniteSet(T)
         /\ Cardinality(T) \in Nat
         /\ Cardinality(T) = Cardinality(S) + One(b)
  <1>1. Cardinality(S) \in Nat
    BY FS_CardinalityType
  <1>2. CASE b
    <2>1. T = S \cup {f}
      BY <1>2
    <2>2. IsFiniteSet(T) /\ Cardinality(T) = Cardinality(S) + 1
      BY <2>1, FS_AddElement
    <2> QED BY <1>1, <1>2, <2>2 DEF One
  <1>3. CASE ~b
    <2>1. T = S
      BY <1>3
    <2>2. IsFiniteSet(T) /\ Cardinality(T) = Cardinality(S)
      BY <2>1
    <2> QED BY <1>1, <1>3, <2>2 DEF One
  <1> QED BY <1>2, <1>3

(* A set that gains the element f if b, and k if m. *)
LEMMA GainTwo ==
  ASSUME NEW S, IsFiniteSet(S), NEW f, f \notin S, NEW k, k \notin S, f # k,
         NEW b \in BOOLEAN, NEW m \in BOOLEAN, NEW T,
         \A q : q \in T <=> q \in S \/ (b /\ q = f) \/ (m /\ q = k)
  PROVE  Cardinality(T) = Cardinality(S) + One(b) + One(m)
  <1> DEFINE R == {q \in T : q \in S \/ (b /\ q = f)}
  <1>1. \A q : q \in R <=> q \in S \/ (b /\ q = f)
    OBVIOUS
  <1>2. k \notin R /\ \A q : q \in T <=> q \in R \/ (m /\ q = k)
    OBVIOUS
  <1> HIDE DEF R
  <1>3. IsFiniteSet(R) /\ Cardinality(R) = Cardinality(S) + One(b)
    BY <1>1, Gain
  <1>4. Cardinality(T) = Cardinality(R) + One(m)
    BY <1>2, <1>3, Gain
  <1> QED BY <1>3, <1>4

(* What was in the place goes, both children of the new splitter are counted. *)
LEMMA GraftedCount ==
  ASSUME NEW c, Shape(c), NEW d, NEW p \in Places, NEW n \in Splitters, ~Held(c, n),
         NEW a, NEW b, Grafted(c, d, p, n, a, b), p \notin Slots(n),
         NEW X \in SUBSET Places, NEW Y \in SUBSET Places,
         \A q \in Places : q \notin Slots(n) => (q \in X <=> q \in Y),
         \A q \in Slots(n) : q \in Y <=> p \in X,
         NEW w \in Visualizers
  PROVE  Cardinality(In(d, Y, w)) =
           Cardinality(In(c, X, w)) - One(p \in X /\ c[p] = w)
             + One(p \in X /\ a = w) + One(p \in X /\ b = w)
  <1> DEFINE first == Slot(n, "primary")
  <1> DEFINE second == Slot(n, "secondary")
  <1>1. /\ \A q \in Slots(n) : c[q] = Nothing
        /\ first \in Slots(n) /\ second \in Slots(n) /\ first # second
        /\ first \in Places /\ second \in Places
        /\ \A q \in Slots(n) : q = first \/ q = second
    BY PlaceFacts, SideFacts, NodeFacts DEF Slots, Shape, TwoChildren, Sides
  <1>2. /\ d[first] = a /\ d[second] = b /\ d[p] = n
        /\ \A q \in Places : q \notin Slots(n) /\ q # p => d[q] = c[q]
    BY <1>1 DEF Grafted
  <1>3. n # w /\ w # Nothing
    BY NodeFacts
  <1> HIDE DEF first, second
  <1> DEFINE R == In(c, X, w) \ {p}
  <1>4. IsFiniteSet(R) /\ Cardinality(R) = Cardinality(In(c, X, w)) - One(p \in X /\ c[p] = w)
    <2>1. p \in In(c, X, w) <=> p \in X /\ c[p] = w
      BY DEF In
    <2>2. One(p \in In(c, X, w)) = One(p \in X /\ c[p] = w)
      BY <2>1 DEF One
    <2>3. IsFiniteSet(In(c, X, w))
      BY InFinite
    <2> QED BY <2>2, <2>3, Lose
  <1>5. first \notin R /\ second \notin R
    BY <1>1, <1>3 DEF In
  <1>6. ASSUME NEW q
        PROVE  q \in In(d, Y, w) <=> \/ q \in R
                                     \/ (p \in X /\ a = w) /\ q = first
                                     \/ (p \in X /\ b = w) /\ q = second
    <2>1. CASE q \in Slots(n)
      BY <1>1, <1>2, <1>3, <1>5, <2>1 DEF In
    <2>2. CASE q \notin Slots(n)
      BY <1>1, <1>2, <1>3, <2>2 DEF In
    <2> QED BY <2>1, <2>2
  <1> HIDE DEF R
  <1>7. PICK x \in BOOLEAN : x <=> (p \in X /\ a = w)
    OBVIOUS
  <1>8. PICK y \in BOOLEAN : y <=> (p \in X /\ b = w)
    OBVIOUS
  <1>9. \A q : q \in In(d, Y, w) <=> q \in R \/ (x /\ q = first) \/ (y /\ q = second)
    BY <1>6, <1>7, <1>8
  <1>10. Cardinality(In(d, Y, w)) = Cardinality(R) + One(x) + One(y)
    BY <1>1, <1>4, <1>5, <1>9, GainTwo
  <1>11. One(x) = One(p \in X /\ a = w) /\ One(y) = One(p \in X /\ b = w)
    BY <1>7, <1>8 DEF One
  <1> QED BY <1>4, <1>10, <1>11

(* The children of the splitter that goes are counted no more. *)
LEMMA RebuiltCount ==
  ASSUME NEW c, Shape(c), NEW d, NEW p \in Places, NEW s \in Splitters, NEW n \in Splitters,
         ~Held(c, n), c[p] = s, NEW a, NEW b, Rebuilt(c, d, p, s, n, a, b),
         NEW X \in SUBSET Places, NEW Y \in SUBSET Places,
         \A q \in Places : q \notin Slots(n) /\ q \notin Slots(s) => (q \in X <=> q \in Y),
         \A q \in Slots(n) : q \in Y <=> p \in X,
         \A q \in Slots(s) : q \in X <=> p \in X,
         NEW w \in Visualizers
  PROVE  Cardinality(In(d, Y, w)) =
           Cardinality(In(c, X, w))
             - One(p \in X /\ c[Slot(s, "primary")] = w)
             - One(p \in X /\ c[Slot(s, "secondary")] = w)
             + One(p \in X /\ a = w) + One(p \in X /\ b = w)
  <1> DEFINE first == Slot(n, "primary")
  <1> DEFINE second == Slot(n, "secondary")
  <1> DEFINE old == Slot(s, "primary")
  <1> DEFINE old2 == Slot(s, "secondary")
  <1>1. /\ p \notin Slots(n) /\ p \notin Slots(s) /\ n # s
        /\ \A q \in Slots(n) : c[q] = Nothing /\ q \notin Slots(s)
        /\ first \in Slots(n) /\ second \in Slots(n) /\ first # second
        /\ first \in Places /\ second \in Places
        /\ \A q \in Slots(n) : q = first \/ q = second
        /\ old \in Slots(s) /\ old2 \in Slots(s) /\ old # old2
        /\ old \in Places /\ old2 \in Places
        /\ \A q \in Slots(s) : q = old \/ q = old2
    BY PlaceFacts, NodeFacts, SideFacts, NotInOwnSlot
    DEF Slots, Shape, TwoChildren, Rebuilt, Held, Sides
  <1>2. /\ d[first] = a /\ d[second] = b /\ d[p] = n
        /\ \A q \in Slots(s) : d[q] = Nothing
        /\ \A q \in Places : q \notin Slots(n) /\ q \notin Slots(s) /\ q # p => d[q] = c[q]
    BY <1>1 DEF Rebuilt
  <1>3. n # w /\ w # Nothing /\ s # w
    BY NodeFacts
  <1> HIDE DEF first, second, old, old2
  <1> DEFINE Q == In(c, X, w) \ {old}
  <1> DEFINE R == Q \ {old2}
  <1>4. IsFiniteSet(Q) /\ Cardinality(Q) = Cardinality(In(c, X, w)) - One(p \in X /\ c[old] = w)
    <2>1. old \in In(c, X, w) <=> p \in X /\ c[old] = w
      BY <1>1 DEF In
    <2>2. One(old \in In(c, X, w)) = One(p \in X /\ c[old] = w)
      BY <2>1 DEF One
    <2>3. IsFiniteSet(In(c, X, w))
      BY InFinite
    <2> QED BY <2>2, <2>3, Lose
  <1>5. IsFiniteSet(R) /\ Cardinality(R) = Cardinality(Q) - One(p \in X /\ c[old2] = w)
    <2>1. old2 \in Q <=> p \in X /\ c[old2] = w
      BY <1>1 DEF In
    <2>2. One(old2 \in Q) = One(p \in X /\ c[old2] = w)
      BY <2>1 DEF One
    <2> HIDE DEF Q
    <2> QED BY <1>4, <2>2, Lose
  <1>6. first \notin R /\ second \notin R
    BY <1>1, <1>3 DEF In
  <1>7. ASSUME NEW q
        PROVE  q \in In(d, Y, w) <=> \/ q \in R
                                     \/ (p \in X /\ a = w) /\ q = first
                                     \/ (p \in X /\ b = w) /\ q = second
    <2>1. CASE q \in Slots(n)
      BY <1>1, <1>2, <1>3, <1>6, <2>1 DEF In
    <2>2. CASE q \in Slots(s)
      BY <1>1, <1>2, <1>3, <2>2 DEF In
    <2>3. CASE q \notin Slots(n) /\ q \notin Slots(s)
      BY <1>1, <1>2, <1>3, <2>3 DEF In
    <2> QED BY <2>1, <2>2, <2>3
  <1> HIDE DEF R, Q
  <1>8. PICK x \in BOOLEAN : x <=> (p \in X /\ a = w)
    OBVIOUS
  <1>9. PICK y \in BOOLEAN : y <=> (p \in X /\ b = w)
    OBVIOUS
  <1>10. \A q : q \in In(d, Y, w) <=> q \in R \/ (x /\ q = first) \/ (y /\ q = second)
    BY <1>7, <1>8, <1>9
  <1>11. Cardinality(In(d, Y, w)) = Cardinality(R) + One(x) + One(y)
    BY <1>1, <1>5, <1>6, <1>10, GainTwo
  <1>12. One(x) = One(p \in X /\ a = w) /\ One(y) = One(p \in X /\ b = w)
    BY <1>8, <1>9 DEF One
  <1>13. Cardinality(In(d, Y, w)) =
           Cardinality(In(c, X, w)) - One(p \in X /\ c[old] = w) - One(p \in X /\ c[old2] = w)
             + One(p \in X /\ a = w) + One(p \in X /\ b = w)
    BY <1>4, <1>5, <1>11, <1>12
  <1> QED BY <1>13 DEF old, old2
-----------------------------------------------------------------------------
(* What the operations do to the trees *)

(* A splitter's slots are in the tree that the splitter is in. *)
LEMMA SlotsInTree ==
  ASSUME NEW c, Shape(c), NEW g \in Groups, NEW s \in Splitters, NEW o \in Places, c[o] = s
  PROVE  \A q \in Slots(s) : q \in Tree(c, g) <=> o \in Tree(c, g)
  <1> SUFFICES ASSUME NEW side \in Sides
               PROVE  Slot(s, side) \in Tree(c, g) <=> o \in Tree(c, g)
    BY DEF Slots
  <1>1. ASSUME o \in Tree(c, g) PROVE Slot(s, side) \in Tree(c, g)
    BY <1>1, TreeClosed
  <1>2. ASSUME Slot(s, side) \in Tree(c, g) PROVE o \in Tree(c, g)
    <2>1. PICK q \in Tree(c, g) : c[q] = s
      BY <1>2, TreeParent
    <2>2. q \in Places
      BY TreePlaces DEF Shape
    <2>3. q = o
      BY <2>1, <2>2 DEF Shape, OneHolder
    <2> QED BY <2>3
  <1> QED BY <1>1, <1>2

(* With the root, even if it is empty. *)
Stem(c, g) == Tree(c, g) \cup {Root(g)}

LEMMA StemFacts ==
  ASSUME NEW c, Shape(c), NEW g \in Groups
  PROVE  /\ Stem(c, g) \in SUBSET Places
         /\ Root(g) \in Stem(c, g)
         /\ Closed(c, Stem(c, g))
         /\ \A q \in Places : q \in Tree(c, g) <=> q \in Stem(c, g) /\ c[q] # Nothing
  <1>1. Stem(c, g) \in SUBSET Places /\ Root(g) \in Stem(c, g)
    BY TreePlaces, PlaceFacts DEF Stem, Shape
  <1>2. \A q \in Places : q \in Tree(c, g) <=> q \in Stem(c, g) /\ c[q] # Nothing
    BY TreePlaces, TreeClosed DEF Stem, Shape, Exists
  <1>3. Closed(c, Stem(c, g))
    <2> SUFFICES ASSUME NEW q \in Stem(c, g), c[q] \in Splitters, NEW side \in Sides
                 PROVE  Slot(c[q], side) \in Stem(c, g)
      BY DEF Closed
    <2>1. q \in Tree(c, g)
      BY <1>1, <1>2, NodeFacts
    <2> QED BY <2>1, TreeClosed DEF Stem
  <1> QED BY <1>1, <1>2, <1>3

(* A closed set with the root has the whole tree. *)
LEMMA StemInduct ==
  ASSUME NEW c, Shape(c), NEW g \in Groups,
         NEW X \in SUBSET Places, Closed(c, X), Root(g) \in X
  PROVE  Stem(c, g) \subseteq X
  BY TreeInduct DEF Stem, Filled, Shape

(* A slot of a splitter that is not in use is in no tree. *)
LEMMA EmptySlot ==
  ASSUME NEW c, Shape(c), NEW g \in Groups, NEW n \in Splitters, ~Held(c, n)
  PROVE  \A q \in Slots(n) : q \notin Stem(c, g)
  BY TreePlaces, PlaceFacts DEF Slots, Stem, Shape, TwoChildren

(* The places of a tree, or all places. *)
Part(c, k) == IF k \in Groups THEN Stem(c, k) ELSE Places

LEMMA PartPlaces ==
  ASSUME NEW c, Shape(c), NEW k
  PROVE  Part(c, k) \in SUBSET Places
  BY StemFacts DEF Part

LEMMA PartAt ==
  ASSUME NEW c, Shape(c), NEW g \in Groups, NEW v \in Visualizers
  PROVE  At(c, g, v) = In(c, Part(c, g), v)
  <1>1. At(c, g, v) \subseteq Places /\ In(c, Part(c, g), v) \subseteq Places
    BY TreePlaces, PartPlaces DEF At, In, Shape
  <1>2. \A q \in Places : q \in At(c, g, v) <=> q \in In(c, Part(c, g), v)
    BY StemFacts, NodeFacts DEF At, In, Part
  <1> QED BY <1>1, <1>2

LEMMA PutParts ==
  ASSUME NEW c, Shape(c), NEW d, Shape(d), NEW g \in Groups, NEW x,
         Put(c, d, Root(g), x), Leaf(c[Root(g)]), Leaf(x), NEW k
  PROVE  Part(d, k) = Part(c, k)
  <1> SUFFICES ASSUME k \in Groups PROVE Stem(d, k) = Stem(c, k)
    BY DEF Part
  <1>1. \A q \in Places : \A s \in Splitters : c[q] = s <=> d[q] = s
    BY PlaceFacts, NodeFacts DEF Put, Leaf
  <1>2. Closed(d, Stem(c, k)) /\ Closed(c, Stem(d, k))
    BY <1>1, StemFacts DEF Closed
  <1>3. /\ Stem(c, k) \in SUBSET Places /\ Root(k) \in Stem(c, k)
        /\ Stem(d, k) \in SUBSET Places /\ Root(k) \in Stem(d, k)
    BY StemFacts
  <1>4. Stem(d, k) \subseteq Stem(c, k)
    BY <1>2, <1>3, StemInduct
  <1>5. Stem(c, k) \subseteq Stem(d, k)
    BY <1>2, <1>3, StemInduct
  <1> QED BY <1>4, <1>5

LEMMA ExchangedParts ==
  ASSUME NEW c, Shape(c), NEW d, Shape(d), NEW a \in Places, NEW b \in Places,
         Exchanged(c, d, a, b), c[a] \in Visualizers, c[b] \in Visualizers, NEW k
  PROVE  Part(d, k) = Part(c, k)
  <1> SUFFICES ASSUME k \in Groups PROVE Stem(d, k) = Stem(c, k)
    BY DEF Part
  <1>1. \A q \in Places : \A s \in Splitters : c[q] = s <=> d[q] = s
    BY NodeFacts DEF Exchanged
  <1>2. Closed(d, Stem(c, k)) /\ Closed(c, Stem(d, k))
    BY <1>1, StemFacts DEF Closed
  <1>3. /\ Stem(c, k) \in SUBSET Places /\ Root(k) \in Stem(c, k)
        /\ Stem(d, k) \in SUBSET Places /\ Root(k) \in Stem(d, k)
    BY StemFacts
  <1>4. Stem(d, k) \subseteq Stem(c, k)
    BY <1>2, <1>3, StemInduct
  <1>5. Stem(c, k) \subseteq Stem(d, k)
    BY <1>2, <1>3, StemInduct
  <1> QED BY <1>4, <1>5

(* The places that stay are in the same trees; the slots of s go with it. *)
LEMMA PromotedParts ==
  ASSUME NEW c, Shape(c), NEW d, Shape(d), NEW s \in Splitters, NEW side \in Sides,
         NEW o \in Places, Promoted(c, d, s, side, o), c[o] = s,
         c[Slot(s, side)] \in Visualizers, NEW k
  PROVE  /\ \A q \in Places : q \notin Slots(s) => (q \in Part(c, k) <=> q \in Part(d, k))
         /\ \A q \in Slots(s) : q \in Part(c, k) <=> o \in Part(c, k)
  <1> DEFINE other == Slot(s, Other(side))
  <1> DEFINE x == c[other]
  <1>1. /\ o \notin Slots(s)
        /\ \A t \in Splitters, e \in Sides : Slot(t, e) \in Places
                                             /\ (Slot(t, e) \in Slots(s) <=> t = s)
        /\ other \in Slots(s) /\ other \in Places /\ Slots(s) \subseteq Places
        /\ \A q \in Slots(s) : q = Slot(s, side) \/ q = other
        /\ \A g \in Groups : Root(g) \in Places /\ Root(g) \notin Slots(s)
    BY NotInOwnSlot, PlaceFacts, SideFacts DEF Slots
  <1>2. /\ \A q \in Places : q \notin Slots(s) /\ q # o => d[q] = c[q] /\ c[q] # s
        /\ d[o] = x /\ \A q \in Slots(s) : d[q] = Nothing
    BY <1>1 DEF Promoted, Shape, OneHolder
  <1>3. x # s /\ c[Slot(s, side)] \notin Splitters
    BY NotInOwnSlot, SideFacts, NodeFacts
  <1> HIDE DEF x, other
  <1>4. CASE k \notin Groups
    BY <1>1, <1>4 DEF Part
  <1>5. CASE k \in Groups
    <2>1. \A q \in Slots(s) : q \in Stem(c, k) <=> o \in Stem(c, k)
      <3>1. \A q \in Slots(s) : q \in Tree(c, k) <=> o \in Tree(c, k)
        BY <1>5, SlotsInTree
      <3>2. o \in Tree(c, k) <=> o \in Stem(c, k)
        BY <1>5, StemFacts, NodeFacts
      <3>3. \A q \in Slots(s) : q \in Tree(c, k) <=> q \in Stem(c, k)
        BY <1>1, <1>5 DEF Stem
      <3> QED BY <3>1, <3>2, <3>3
    <2> DEFINE X == Stem(c, k) \ Slots(s)
    <2>2. Stem(d, k) \subseteq X
      <3>1. Closed(d, X)
        <4> SUFFICES ASSUME NEW q \in X, d[q] \in Splitters, NEW e \in Sides
                     PROVE  Slot(d[q], e) \in X
          BY DEF Closed
        <4>1. q \in Places /\ q \in Stem(c, k) /\ q \notin Slots(s)
          BY <1>5, StemFacts
        <4>2. CASE q = o
          <5>1. other \in Stem(c, k) /\ c[other] \in Splitters /\ d[q] = c[other]
            BY <1>1, <1>2, <2>1, <4>1, <4>2 DEF x
          <5>2. Slot(c[other], e) \in Stem(c, k)
            BY <1>5, <5>1, StemFacts DEF Closed
          <5> QED BY <1>1, <1>3, <5>1, <5>2 DEF x
        <4>3. CASE q # o
          <5>1. d[q] = c[q] /\ c[q] # s
            BY <1>2, <4>1, <4>3
          <5>2. Slot(c[q], e) \in Stem(c, k)
            BY <1>5, <4>1, <5>1, StemFacts DEF Closed
          <5> QED BY <1>1, <5>1, <5>2
        <4> QED BY <4>2, <4>3
      <3>2. X \in SUBSET Places /\ Root(k) \in X
        BY <1>1, <1>5, StemFacts
      <3> HIDE DEF X
      <3> QED BY <1>5, <3>1, <3>2, StemInduct
    <2> DEFINE Z == {q \in Places : q \in Stem(d, k) \/ (q \in Slots(s) /\ o \in Stem(d, k))}
    <2>3. Stem(c, k) \subseteq Z
      <3>1. Closed(c, Z)
        <4> SUFFICES ASSUME NEW q \in Z, c[q] \in Splitters, NEW e \in Sides
                     PROVE  Slot(c[q], e) \in Z
          BY DEF Closed
        <4>1. CASE q = o
          BY <1>1, <4>1 DEF Slots
        <4>2. CASE q \in Slots(s)
          <5>1. q = other /\ o \in Stem(d, k) /\ d[o] = c[q]
            BY <1>1, <1>2, <1>3, <2>2, <4>2 DEF x
          <5>2. Slot(c[q], e) \in Stem(d, k)
            BY <1>5, <5>1, StemFacts DEF Closed
          <5> QED BY <1>1, <5>2
        <4>3. CASE q # o /\ q \notin Slots(s)
          <5>1. d[q] = c[q] /\ q \in Stem(d, k)
            BY <1>2, <4>3
          <5>2. Slot(c[q], e) \in Stem(d, k)
            BY <1>5, <5>1, StemFacts DEF Closed
          <5> QED BY <1>1, <5>2
        <4> QED BY <4>1, <4>2, <4>3
      <3>2. Z \in SUBSET Places /\ Root(k) \in Z
        BY <1>1, <1>5, StemFacts
      <3> HIDE DEF Z
      <3> QED BY <1>5, <3>1, <3>2, StemInduct
    <2>4. \A q \in Places : q \notin Slots(s) => (q \in Stem(c, k) <=> q \in Stem(d, k))
      BY <2>2, <2>3
    <2> QED BY <1>5, <2>1, <2>4 DEF Part
  <1> QED BY <1>4, <1>5

(* The slots of the new splitter are where the splitter is; what is in other *)
(* places is where it was.  (What the place held is a leaf, or it goes down  *)
(* into the first slot.)                                                     *)
LEMMA GraftedParts ==
  ASSUME NEW c, Shape(c), NEW d, Shape(d), NEW p \in Places, NEW n \in Splitters,
         ~Held(c, n), NEW a, NEW b \in Visualizers, Grafted(c, d, p, n, a, b),
         p \notin Slots(n), \A t \in Splitters : c[p] = t <=> a = t, NEW k
  PROVE  /\ \A q \in Places : q \notin Slots(n) => (q \in Part(c, k) <=> q \in Part(d, k))
         /\ \A q \in Slots(n) : q \in Part(d, k) <=> p \in Part(c, k)
  <1> DEFINE first == Slot(n, "primary")
  <1> DEFINE second == Slot(n, "secondary")
  <1>1. /\ \A q \in Slots(n) : q \in Places /\ c[q] = Nothing
        /\ first \in Slots(n) /\ second \in Slots(n) /\ first # second
        /\ \A q \in Slots(n) : q = first \/ q = second
        /\ \A t \in Splitters, e \in Sides : Slot(t, e) \in Places
        /\ \A g \in Groups : Root(g) \in Places /\ Root(g) \notin Slots(n)
    BY PlaceFacts, SideFacts, NodeFacts DEF Slots, Shape, TwoChildren, Sides
  <1>2. /\ d[first] = a /\ d[second] = b /\ d[p] = n /\ b \notin Splitters
        /\ \A q \in Places : q \notin Slots(n) /\ q # p => d[q] = c[q]
    BY <1>1, NodeFacts DEF Grafted
  <1> HIDE DEF first, second
  <1>4. CASE k \notin Groups
    BY <1>1, <1>4 DEF Part
  <1>5. CASE k \in Groups
    <2> DEFINE X == {q \in Places : q \in Stem(c, k) \/ (q \in Slots(n) /\ p \in Stem(c, k))}
    <2>1. Stem(d, k) \subseteq X
      <3>1. Closed(d, X)
        <4> SUFFICES ASSUME NEW q \in X, d[q] \in Splitters, NEW e \in Sides
                     PROVE  Slot(d[q], e) \in X
          BY DEF Closed
        <4>1. CASE q = p
          BY <1>1, <1>2, <4>1 DEF Slots
        <4>2. CASE q \in Slots(n)
          <5>1. q = first /\ d[q] = a
            BY <1>1, <1>2, <4>2
          <5>2. c[p] = d[q]
            BY <5>1
          <5>3. p \in Stem(c, k)
            BY <1>1, <1>5, <4>2, EmptySlot
          <5>4. Slot(c[p], e) \in Stem(c, k)
            BY <1>5, <5>2, <5>3, StemFacts DEF Closed
          <5> QED BY <1>1, <5>2, <5>4
        <4>3. CASE q # p /\ q \notin Slots(n)
          <5>1. d[q] = c[q] /\ q \in Stem(c, k)
            BY <1>2, <4>3
          <5>2. Slot(c[q], e) \in Stem(c, k)
            BY <1>5, <5>1, StemFacts DEF Closed
          <5> QED BY <1>1, <5>1, <5>2
        <4> QED BY <4>1, <4>2, <4>3
      <3>2. X \in SUBSET Places /\ Root(k) \in X
        BY <1>1, <1>5, StemFacts
      <3> HIDE DEF X
      <3> QED BY <1>5, <3>1, <3>2, StemInduct
    <2>2. Stem(c, k) \subseteq Stem(d, k)
      <3>1. Closed(c, Stem(d, k))
        <4> SUFFICES ASSUME NEW q \in Stem(d, k), c[q] \in Splitters, NEW e \in Sides
                     PROVE  Slot(c[q], e) \in Stem(d, k)
          BY DEF Closed
        <4>1. q \in Places /\ q \notin Slots(n)
          BY <1>1, <1>5, StemFacts, NodeFacts
        <4>2. CASE q = p
          <5>1. first \in Stem(d, k)
            BY <1>2, <1>5, <4>2, StemFacts, SideFacts DEF Closed, first
          <5>2. d[first] = c[q]
            BY <1>2, <4>2
          <5> QED BY <1>5, <5>1, <5>2, StemFacts DEF Closed
        <4>3. CASE q # p
          BY <1>2, <1>5, <4>1, <4>3, StemFacts DEF Closed
        <4> QED BY <4>2, <4>3
      <3> QED BY <1>5, <3>1, StemFacts, StemInduct
    <2>3. ASSUME NEW q \in Slots(n) PROVE q \notin Stem(c, k)
      BY <1>1, <1>5, EmptySlot
    <2>4. ASSUME NEW q \in Slots(n) PROVE q \in Stem(d, k) <=> p \in Stem(c, k)
      <3>1. ASSUME p \in Stem(c, k) PROVE q \in Stem(d, k)
        BY <1>2, <1>5, <2>2, <3>1, StemFacts DEF Closed, Slots
      <3>2. ASSUME q \in Stem(d, k) PROVE p \in Stem(c, k)
        BY <2>1, <2>3, <3>2
      <3> QED BY <3>1, <3>2
    <2>5. \A q \in Places : q \notin Slots(n) => (q \in Stem(c, k) <=> q \in Stem(d, k))
      BY <2>1, <2>2
    <2> QED BY <1>5, <2>4, <2>5 DEF Part
  <1> QED BY <1>4, <1>5

LEMMA RebuiltParts ==
  ASSUME NEW c, Shape(c), NEW d, Shape(d), NEW p \in Places, NEW s \in Splitters,
         NEW n \in Splitters, ~Held(c, n), c[p] = s,
         \A side \in Sides : c[Slot(s, side)] \in Visualizers,
         NEW a \in Visualizers, NEW b \in Visualizers, Rebuilt(c, d, p, s, n, a, b), NEW k
  PROVE  /\ \A q \in Places : q \notin Slots(n) /\ q \notin Slots(s)
                                => (q \in Part(c, k) <=> q \in Part(d, k))
         /\ \A q \in Slots(n) : q \in Part(d, k) <=> p \in Part(c, k)
         /\ \A q \in Slots(s) : q \in Part(c, k) <=> p \in Part(c, k)
  <1>1. /\ p \notin Slots(n) /\ p \notin Slots(s) /\ n # s
        /\ \A q \in Slots(n) : q \in Places /\ c[q] = Nothing /\ q \notin Slots(s)
        /\ \A q \in Slots(s) : q \in Places /\ c[q] \notin Splitters
        /\ \A t \in Splitters, e \in Sides : /\ Slot(t, e) \in Places
                                             /\ Slot(t, e) \in Slots(s) <=> t = s
        /\ \A g \in Groups : Root(g) \in Places /\ Root(g) \notin Slots(n)
                             /\ Root(g) \notin Slots(s)
    BY PlaceFacts, NodeFacts, NotInOwnSlot DEF Slots, Shape, TwoChildren, Held
  <1>2. /\ \A q \in Slots(n) : d[q] \notin Splitters
        /\ \A q \in Slots(s) : d[q] \notin Splitters
        /\ d[p] = n
        /\ \A q \in Places : q \notin Slots(n) /\ q \notin Slots(s) /\ q # p
                               => d[q] = c[q] /\ c[q] # s
    BY <1>1, SideFacts, NodeFacts DEF Rebuilt, Slots, Sides, Shape, OneHolder
  <1>4. CASE k \notin Groups
    BY <1>1, <1>4 DEF Part
  <1>5. CASE k \in Groups
    <2>1. \A q \in Slots(s) : q \in Stem(c, k) <=> p \in Stem(c, k)
      <3>1. \A q \in Slots(s) : q \in Tree(c, k) <=> p \in Tree(c, k)
        BY <1>5, SlotsInTree
      <3>2. p \in Tree(c, k) <=> p \in Stem(c, k)
        BY <1>5, StemFacts, NodeFacts
      <3>3. \A q \in Slots(s) : q \in Tree(c, k) <=> q \in Stem(c, k)
        BY <1>1, <1>5 DEF Stem
      <3> QED BY <3>1, <3>2, <3>3
    <2> DEFINE X == {q \in Places : \/ q \in Stem(c, k) /\ q \notin Slots(s)
                                    \/ q \in Slots(n) /\ p \in Stem(c, k)}
    <2>2. Stem(d, k) \subseteq X
      <3>1. Closed(d, X)
        <4> SUFFICES ASSUME NEW q \in X, d[q] \in Splitters, NEW e \in Sides
                     PROVE  Slot(d[q], e) \in X
          BY DEF Closed
        <4>1. q \notin Slots(n) /\ q \notin Slots(s) /\ q \in Stem(c, k)
          BY <1>2
        <4>2. CASE q = p
          BY <1>1, <1>2, <4>1, <4>2 DEF Slots
        <4>3. CASE q # p
          <5>1. d[q] = c[q] /\ c[q] # s
            BY <1>2, <4>1, <4>3
          <5>2. Slot(c[q], e) \in Stem(c, k)
            BY <1>5, <4>1, <5>1, StemFacts DEF Closed
          <5> QED BY <1>1, <5>1, <5>2
        <4> QED BY <4>2, <4>3
      <3>2. X \in SUBSET Places /\ Root(k) \in X
        BY <1>1, <1>5, StemFacts
      <3> HIDE DEF X
      <3> QED BY <1>5, <3>1, <3>2, StemInduct
    <2> DEFINE Z == {q \in Places : q \in Stem(d, k) \/ (q \in Slots(s) /\ p \in Stem(d, k))}
    <2>3. Stem(c, k) \subseteq Z
      <3>1. Closed(c, Z)
        <4> SUFFICES ASSUME NEW q \in Z, c[q] \in Splitters, NEW e \in Sides
                     PROVE  Slot(c[q], e) \in Z
          BY DEF Closed
        <4>1. q \notin Slots(n) /\ q \notin Slots(s) /\ q \in Stem(d, k)
          BY <1>1, NodeFacts
        <4>2. CASE q = p
          BY <1>1, <4>1, <4>2 DEF Slots
        <4>3. CASE q # p
          BY <1>1, <1>2, <1>5, <4>1, <4>3, StemFacts DEF Closed
        <4> QED BY <4>2, <4>3
      <3>2. Z \in SUBSET Places /\ Root(k) \in Z
        BY <1>1, <1>5, StemFacts
      <3> HIDE DEF Z
      <3> QED BY <1>5, <3>1, <3>2, StemInduct
    <2>4. ASSUME NEW q \in Slots(n) PROVE q \in Stem(d, k) <=> p \in Stem(c, k)
      <3>1. ASSUME p \in Stem(c, k) PROVE q \in Stem(d, k)
        <4>1. p \in Stem(d, k)
          BY <1>1, <2>3, <3>1
        <4> QED BY <1>2, <1>5, <4>1, StemFacts DEF Closed, Slots
      <3>2. q \notin Stem(c, k)
        BY <1>1, <1>5, EmptySlot
      <3> QED BY <2>2, <3>1, <3>2
    <2>5. \A q \in Places : q \notin Slots(n) /\ q \notin Slots(s)
                              => (q \in Stem(c, k) <=> q \in Stem(d, k))
      BY <2>2, <2>3
    <2> QED BY <1>5, <2>1, <2>4, <2>5 DEF Part
  <1> QED BY <1>4, <1>5
-----------------------------------------------------------------------------
(* The operations, and what they do to the number of places that show a      *)
(* visualizer                                                                *)

Total(c, k, w) == Cardinality(In(c, Part(c, k), w))

(* All places count, or those of the tree in question. *)
Covers(k, g) == k \notin Groups \/ k = g

LEMMA TotalNat ==
  ASSUME NEW c, Shape(c), NEW k, NEW w
  PROVE  Total(c, k, w) \in Nat
  BY PartPlaces, InFinite DEF Total

LEMMA OneNat == ASSUME NEW b PROVE One(b) \in {0, 1}
  BY DEF One

LEMMA RootInPart ==
  ASSUME NEW c, Shape(c), NEW g \in Groups, NEW k
  PROVE  Root(g) \in Part(c, k) <=> Covers(k, g)
  BY PlaceFacts, TreeOnlyRoot DEF Part, Covers, Stem

LEMMA PlaceInPart ==
  ASSUME NEW c, Shape(c), NEW g \in Groups, NEW p \in Tree(c, g), NEW k
  PROVE  p \in Part(c, k) <=> Covers(k, g)
  <1>1. p \in Places /\ c[p] # Nothing
    BY TreePlaces DEF Shape
  <1>2. CASE k \notin Groups
    BY <1>1, <1>2 DEF Part, Covers
  <1>3. CASE k \in Groups
    BY <1>1, <1>3, StemFacts, TreesApart DEF Part, Covers
  <1> QED BY <1>2, <1>3

LEMMA ShowsTotal ==
  ASSUME NEW c, Shape(c), NEW w \in Visualizers
  PROVE  /\ \A g \in Groups : Shows(c, g, w) <=> Total(c, g, w) # 0
         /\ GroupsOf(c, w) = {} => Total(c, Hidden, w) = 0
  <1>1. ASSUME NEW g \in Groups PROVE Shows(c, g, w) <=> Total(c, g, w) # 0
    <2>1. At(c, g, w) = In(c, Part(c, g), w) /\ IsFiniteSet(In(c, Part(c, g), w))
      BY PartAt, PartPlaces, InFinite
    <2> QED BY <2>1, FS_EmptySet DEF Shows, Total
  <1>2. ASSUME GroupsOf(c, w) = {} PROVE Total(c, Hidden, w) = 0
    <2>1. Part(c, Hidden) = Places
      BY LayoutAssumption DEF Part, Hidden, Groups
    <2>2. ASSUME NEW q \in Places, c[q] = w PROVE FALSE
      <3>1. PICK g \in Groups : q \in Tree(c, g)
        BY <2>2, NodeFacts, InSomeTree
      <3> QED BY <1>2, <2>2, <3>1 DEF GroupsOf, Shows, At
    <2>3. In(c, Part(c, Hidden), w) = {}
      BY <2>1, <2>2 DEF In
    <2> QED BY <2>3, FS_EmptySet DEF Total
  <1> QED BY <1>1, <1>2

LEMMA NewFacts ==
  ASSUME NEW c, Free(c) # {}
  PROVE  New(c) \in Splitters /\ ~Held(c, New(c))
  <1>1. New(c) \in Free(c)
    BY Zenon DEF New
  <1> QED BY <1>1 DEF Free

(* removeVisualizerById empties a root, or promotes the sibling. *)
LEMMA RemovedCases ==
  ASSUME NEW c, Shape(c), NEW g \in Groups, NEW v \in Visualizers, Shows(c, g, v)
  PROVE  \/ /\ Put(c, Removed(c, g, v), Root(g), Nothing)
            /\ c[Root(g)] = v
         \/ \E s \in Splitters, side \in Sides, o \in Tree(c, g) :
              /\ Promoted(c, Removed(c, g, v), s, side, o)
              /\ c[o] = s /\ c[Slot(s, side)] = v
  <1> DEFINE p == FirstOf(c, g, At(c, g, v))
  <1>1. p \in Tree(c, g) /\ c[p] = v /\ p \in Places
    <2>1. At(c, g, v) \subseteq Tree(c, g) /\ At(c, g, v) # {}
      BY DEF At, Shows
    <2>2. p \in At(c, g, v)
      BY <2>1, FirstAndLast DEF Shape
    <2> QED BY <2>2, TreePlaces DEF At, Shape
  <1> HIDE DEF p
  <1>2. c \in [Places -> Nodes \cup {Nothing}]
    BY DEF Shape, Heap
  <1>3. CASE p = Root(g)
    <2>1. Removed(c, g, v) = [c EXCEPT ![p] = Nothing]
      BY <1>3 DEF Removed, p
    <2>2. Put(c, Removed(c, g, v), Root(g), Nothing)
      BY <1>1, <1>2, <1>3, <2>1 DEF Put, Heap
    <2> QED BY <1>1, <1>3, <2>2
  <1>4. CASE p # Root(g)
    <2>1. PICK o \in Tree(c, g), side \in Sides : c[o] \in Splitters /\ p = Slot(c[o], side)
      BY <1>1, <1>4, TreeAbove
    <2>2. PICK s \in Splitters : s = c[o]
      BY <2>1
    <2>3. p[1] = s /\ p[2] = side /\ p = Slot(s, side)
      BY <2>1, <2>2, PlaceFacts
    <2>4. o \in Places
      BY TreePlaces DEF Shape
    <2>5. Holder(c, s) = o
      <3>1. Holder(c, s) \in Places /\ c[Holder(c, s)] = s
        BY <2>2, <2>4, Zenon DEF Holder
      <3> QED BY <2>2, <2>4, <3>1 DEF Shape, OneHolder
    <2>6. Removed(c, g, v) = Destroyed([c EXCEPT ![o] = c[Slot(s, Other(side))]], s)
      BY <1>4, <2>3, <2>5 DEF Removed, p
    <2>7. Slot(s, Other(side)) \in Places /\ Slot(s, "primary") \in Places
          /\ Slot(s, "secondary") \in Places
      BY PlaceFacts, SideFacts
    <2>8. \A q : q \in Slots(s) <=> q = Slot(s, "primary") \/ q = Slot(s, "secondary")
      BY DEF Slots, Sides
    <2>9. Promoted(c, Removed(c, g, v), s, side, o)
      BY <1>2, <2>4, <2>6, <2>7, <2>8 DEF Promoted, Destroyed, Heap
    <2> QED BY <1>1, <2>2, <2>3, <2>9
  <1> QED BY <1>3, <1>4

(* It keeps the shape and needs no new splitter. *)
LEMMA RemovedShape ==
  ASSUME NEW c, Shape(c), NEW g \in Groups, NEW v \in Visualizers
  PROVE  /\ Shape(Removed(c, g, v))
         /\ \A t \in Splitters : Held(Removed(c, g, v), t) => Held(c, t)
  <1> DEFINE d == Removed(c, g, v)
  <1>1. CASE ~Shows(c, g, v)
    BY <1>1 DEF Removed
  <1>2. CASE Shows(c, g, v)
    <2>1. CASE Put(c, d, Root(g), Nothing) /\ c[Root(g)] = v
      <3> HIDE DEF d
      <3>1. Shape(d)
        BY <2>1, PutShape DEF Leaf
      <3>2. \A t \in Splitters : Held(d, t) => Held(c, t)
        BY <2>1, NodeFacts DEF Put, Held
      <3> QED BY <3>1, <3>2 DEF d
    <2>2. ASSUME NEW s \in Splitters, NEW side \in Sides, NEW o \in Tree(c, g),
                 Promoted(c, d, s, side, o), c[o] = s, c[Slot(s, side)] = v
          PROVE  Shape(d) /\ \A t \in Splitters : Held(d, t) => Held(c, t)
      <3> HIDE DEF d
      <3>1. o \in Places
        BY TreePlaces DEF Shape
      <3>2. Shape(d)
        BY <2>2, <3>1, PromotedShape
      <3>3. Slot(s, Other(side)) \in Places
        BY PlaceFacts, SideFacts
      <3>4. \A t \in Splitters : Held(d, t) => Held(c, t)
        BY <2>2, <3>3, NodeFacts DEF Promoted, Held
      <3> QED BY <3>2, <3>4
    <2> QED BY <1>2, <2>1, <2>2, RemovedCases
  <1> QED BY <1>1, <1>2

(* It destroys the splitter of the leaf, and no other. *)
LEMMA RemovedFrees ==
  ASSUME NEW c, Shape(c), NEW g \in Groups, NEW v \in Visualizers
  PROVE  Frees(c, Removed(c, g, v), v)
  <1>1. CASE ~Shows(c, g, v)
    BY <1>1 DEF Removed, Frees
  <1>2. CASE Shows(c, g, v)
    <2>1. PICK d : d = Removed(c, g, v)
      OBVIOUS
    <2>2. CASE Put(c, d, Root(g), Nothing) /\ c[Root(g)] = v
      BY <2>1, <2>2, NodeFacts DEF Put, Held, Frees
    <2>3. ASSUME NEW s \in Splitters, NEW side \in Sides, NEW o \in Tree(c, g),
                 Promoted(c, d, s, side, o), c[o] = s, c[Slot(s, side)] = v
          PROVE  Frees(c, d, v)
      <3>1. /\ o \in Places /\ o \notin Slots(s)
            /\ \A q \in Slots(s) : q = Slot(s, side) \/ q = Slot(s, Other(side))
        BY <2>3, TreePlaces, NotInOwnSlot, SideFacts DEF Shape, Slots
      <3>2. ASSUME NEW t \in Splitters, t # s, NEW q \in Places, c[q] = t
            PROVE  Held(d, t)
        <4>1. CASE q \in Slots(s)
          <5>1. q = Slot(s, Other(side))
            BY <2>3, <3>1, <3>2, <4>1, NodeFacts
          <5>2. d[o] = t
            BY <2>3, <3>1, <3>2, <5>1 DEF Promoted
          <5> QED BY <3>1, <5>2 DEF Held
        <4>2. CASE q \notin Slots(s)
          BY <2>3, <3>2, <4>2 DEF Promoted, Held
        <4> QED BY <4>1, <4>2
      <3> QED BY <2>3, <3>2 DEF Frees, Held
    <2> QED BY <1>2, <2>1, <2>2, <2>3, RemovedCases
  <1> QED BY <1>1, <1>2

(* The visualizer is shown in one place less. *)
LEMMA RemovedTotal ==
  ASSUME NEW c, Shape(c), NEW g \in Groups, NEW v \in Visualizers, Shows(c, g, v),
         NEW k, NEW w \in Visualizers
  PROVE  Total(Removed(c, g, v), k, w) = Total(c, k, w) - One(Covers(k, g) /\ v = w)
  <1> DEFINE d == Removed(c, g, v)
  <1>1. Shape(d)
    BY RemovedShape
  <1>2. Total(c, k, w) \in Nat
    BY TotalNat
  <1>3. Part(c, k) \in SUBSET Places /\ Part(d, k) \in SUBSET Places
    BY <1>1, PartPlaces
  <1>4. CASE Put(c, d, Root(g), Nothing) /\ c[Root(g)] = v
    <2> HIDE DEF d
    <2>1. Part(d, k) = Part(c, k)
      BY <1>1, <1>4, PutParts DEF Leaf
    <2>2. Root(g) \in Part(c, k) <=> Covers(k, g)
      BY RootInPart
    <2>3. CASE Covers(k, g)
      <3>1. Cardinality(In(d, Part(c, k), w)) =
              Cardinality(In(c, Part(c, k), w)) - One(c[Root(g)] = w) + One(Nothing = w)
        BY <1>3, <1>4, <2>2, <2>3, PlaceFacts, PutCount
      <3>2. One(Nothing = w) = 0 /\ One(c[Root(g)] = w) = One(Covers(k, g) /\ v = w)
        BY <1>4, <2>3, NodeFacts DEF One
      <3>3. One(Covers(k, g) /\ v = w) \in {0, 1}
        BY OneNat
      <3> QED BY <1>2, <2>1, <3>1, <3>2, <3>3 DEF Total, d
    <2>4. CASE ~Covers(k, g)
      <3>1. In(d, Part(c, k), w) = In(c, Part(c, k), w)
        BY <1>3, <1>4, <2>2, <2>4 DEF In, Put
      <3>2. One(Covers(k, g) /\ v = w) = 0
        BY <2>4 DEF One
      <3>3. Total(d, k, w) = Total(c, k, w)
        BY <2>1, <3>1 DEF Total
      <3> QED BY <1>2, <3>2, <3>3 DEF d
    <2> QED BY <2>3, <2>4
  <1>5. ASSUME NEW s \in Splitters, NEW side \in Sides, NEW o \in Tree(c, g),
               Promoted(c, d, s, side, o), c[o] = s, c[Slot(s, side)] = v
        PROVE  Total(d, k, w) = Total(c, k, w) - One(Covers(k, g) /\ v = w)
    <2> HIDE DEF d
    <2>1. o \in Places
      BY TreePlaces DEF Shape
    <2>2. /\ \A q \in Places : q \notin Slots(s) => (q \in Part(c, k) <=> q \in Part(d, k))
          /\ \A q \in Slots(s) : q \in Part(c, k) <=> o \in Part(c, k)
      BY <1>1, <1>5, <2>1, PromotedParts
    <2>3. Cardinality(In(d, Part(d, k), w)) = Cardinality(In(c, Part(c, k), w))
                                      - One(o \in Part(c, k) /\ c[Slot(s, side)] = w)
      BY <1>3, <1>5, <2>1, <2>2, PromotedCount
    <2>4. o \in Part(c, k) <=> Covers(k, g)
      BY PlaceInPart
    <2>5. One(o \in Part(c, k) /\ c[Slot(s, side)] = w) = One(Covers(k, g) /\ v = w)
      BY <1>5, <2>4 DEF One
    <2> QED BY <2>3, <2>5 DEF Total
  <1> QED BY <1>4, <1>5, RemovedCases

(* addVisualizerToGroup fills an empty root, or grafts a splitter on it. *)
LEMMA AddedCases ==
  ASSUME NEW c, Shape(c), NEW g \in Groups, NEW v \in Visualizers,
         Free(c) # {} \/ ~Exists(c, g)
  PROVE  \/ /\ Put(c, Added(c, g, v), Root(g), v)
            /\ ~Exists(c, g)
         \/ \E n \in Splitters :
              /\ Grafted(c, Added(c, g, v), Root(g), n, c[Root(g)], v)
              /\ Exists(c, g) /\ ~Held(c, n)
  <1>1. c \in [Places -> Nodes \cup {Nothing}]
    BY DEF Shape, Heap
  <1>2. CASE ~Exists(c, g)
    <2>1. Added(c, g, v) = [c EXCEPT ![Root(g)] = v]
      BY <1>2 DEF Added
    <2>2. Put(c, Added(c, g, v), Root(g), v)
      BY <1>1, <2>1, PlaceFacts DEF Put, Heap, Nodes
    <2> QED BY <1>2, <2>2
  <1>3. CASE Exists(c, g)
    <2>1. PICK n \in Splitters : n = New(c) /\ ~Held(c, n)
      BY <1>3, NewFacts
    <2>2. PICK d : d = Added(c, g, v)
      OBVIOUS
    <2>3. d = [c EXCEPT ![Root(g)] = n, ![Slot(n, "primary")] = c[Root(g)],
                        ![Slot(n, "secondary")] = v]
      BY <1>3, <2>1, <2>2 DEF Added, Split
    <2>4. Root(g) \in Places /\ Slot(n, "primary") \in Places /\ Slot(n, "secondary") \in Places
      BY PlaceFacts, SideFacts
    <2>5. c[Root(g)] \in Nodes \cup {Nothing} /\ n \in Nodes /\ v \in Nodes
      BY <1>1, <2>4 DEF Nodes
    <2>6. Heap(d)
      BY <1>1, <2>3, <2>4, <2>5 DEF Heap
    <2>7. Grafted(c, d, Root(g), n, c[Root(g)], v)
      BY <1>1, <2>3, <2>4, <2>6 DEF Grafted
    <2> QED BY <1>3, <2>1, <2>2, <2>7
  <1> QED BY <1>2, <1>3

(* It keeps the shape and the trees. *)
LEMMA AddedShape ==
  ASSUME NEW c, Shape(c), NEW g \in Groups, NEW v \in Visualizers,
         Free(c) # {} \/ ~Exists(c, g)
  PROVE  /\ Shape(Added(c, g, v))
         /\ \A h \in Groups : Exists(c, h) => Exists(Added(c, g, v), h)
  <1> DEFINE d == Added(c, g, v)
  <1>1. CASE Put(c, d, Root(g), v) /\ ~Exists(c, g)
    <2> HIDE DEF d
    <2>1. Shape(d)
      BY <1>1, PutShape DEF Leaf, Exists
    <2>2. \A h \in Groups : Exists(c, h) => Exists(d, h)
      BY <1>1, PlaceFacts, NodeFacts DEF Put, Exists
    <2> QED BY <2>1, <2>2 DEF d
  <1>2. ASSUME NEW n \in Splitters, Grafted(c, d, Root(g), n, c[Root(g)], v),
               Exists(c, g), ~Held(c, n)
        PROVE  Shape(d) /\ \A h \in Groups : Exists(c, h) => Exists(d, h)
    <2> HIDE DEF d
    <2>1. Shape(d)
      BY <1>2, RootGraftedShape
    <2>2. \A h \in Groups : Root(h) \in Places /\ Root(h) # Slot(n, "primary")
                            /\ Root(h) # Slot(n, "secondary")
      BY PlaceFacts, SideFacts
    <2>3. \A h \in Groups : Exists(c, h) => Exists(d, h)
      BY <1>2, <2>2, NodeFacts DEF Grafted, Exists
    <2> QED BY <2>1, <2>3
  <1> QED BY <1>1, <1>2, AddedCases

(* The visualizer is shown in one place more. *)
LEMMA AddedTotal ==
  ASSUME NEW c, Shape(c), NEW g \in Groups, NEW v \in Visualizers,
         Free(c) # {} \/ ~Exists(c, g), NEW k, NEW w \in Visualizers
  PROVE  Total(Added(c, g, v), k, w) = Total(c, k, w) + One(Covers(k, g) /\ v = w)
  <1> DEFINE d == Added(c, g, v)
  <1>1. Shape(d)
    BY AddedShape
  <1>2. Total(c, k, w) \in Nat
    BY TotalNat
  <1>3. Part(c, k) \in SUBSET Places /\ Part(d, k) \in SUBSET Places
    BY <1>1, PartPlaces
  <1>4. Root(g) \in Part(c, k) <=> Covers(k, g)
    BY RootInPart
  <1>5. CASE Put(c, d, Root(g), v) /\ ~Exists(c, g)
    <2> HIDE DEF d
    <2>1. Part(d, k) = Part(c, k)
      BY <1>1, <1>5, PutParts DEF Leaf, Exists
    <2>3. CASE Covers(k, g)
      <3>1. Cardinality(In(d, Part(c, k), w)) =
              Cardinality(In(c, Part(c, k), w)) - One(c[Root(g)] = w) + One(v = w)
        BY <1>3, <1>4, <1>5, <2>3, PlaceFacts, PutCount
      <3>2. One(c[Root(g)] = w) = 0 /\ One(v = w) = One(Covers(k, g) /\ v = w)
        BY <1>5, <2>3, NodeFacts DEF One, Exists
      <3>3. One(Covers(k, g) /\ v = w) \in {0, 1}
        BY OneNat
      <3> QED BY <1>2, <2>1, <3>1, <3>2, <3>3 DEF Total, d
    <2>4. CASE ~Covers(k, g)
      <3>1. In(d, Part(c, k), w) = In(c, Part(c, k), w)
        BY <1>3, <1>4, <1>5, <2>4 DEF In, Put
      <3>2. One(Covers(k, g) /\ v = w) = 0
        BY <2>4 DEF One
      <3>3. Total(d, k, w) = Total(c, k, w)
        BY <2>1, <3>1 DEF Total
      <3> QED BY <1>2, <3>2, <3>3 DEF d
    <2> QED BY <2>3, <2>4
  <1>6. ASSUME NEW n \in Splitters, Grafted(c, d, Root(g), n, c[Root(g)], v),
               Exists(c, g), ~Held(c, n)
        PROVE  Total(d, k, w) = Total(c, k, w) + One(Covers(k, g) /\ v = w)
    <2> HIDE DEF d
    <2>1. PICK p \in Places, a \in {c[Root(g)]} : p = Root(g) /\ a = c[p] /\ p \notin Slots(n)
      BY PlaceFacts DEF Slots
    <2>2. Grafted(c, d, p, n, a, v) /\ \A t \in Splitters : c[p] = t <=> a = t
      BY <1>6, <2>1
    <2>3. /\ \A q \in Places : q \notin Slots(n) => (q \in Part(c, k) <=> q \in Part(d, k))
          /\ \A q \in Slots(n) : q \in Part(d, k) <=> p \in Part(c, k)
      BY <1>1, <1>6, <2>1, <2>2, GraftedParts
    <2>4. Cardinality(In(d, Part(d, k), w)) =
            Cardinality(In(c, Part(c, k), w)) - One(p \in Part(c, k) /\ c[p] = w)
              + One(p \in Part(c, k) /\ a = w) + One(p \in Part(c, k) /\ v = w)
      BY <1>3, <1>6, <2>1, <2>2, <2>3, GraftedCount
    <2>5. /\ One(p \in Part(c, k) /\ c[p] = w) = One(p \in Part(c, k) /\ a = w)
          /\ One(p \in Part(c, k) /\ v = w) = One(Covers(k, g) /\ v = w)
      BY <1>4, <2>1 DEF One
    <2>6. One(p \in Part(c, k) /\ a = w) \in {0, 1} /\ One(Covers(k, g) /\ v = w) \in {0, 1}
      BY OneNat
    <2> QED BY <1>2, <2>4, <2>5, <2>6 DEF Total
  <1> QED BY <1>5, <1>6, AddedCases
(* swapVisualizer keeps the shape, the windows, and what each tree shows. *)
LEMMA SwappedKeeps ==
  ASSUME NEW c, Shape(c), NEW g \in Groups, NEW v \in Visualizers, NEW u \in Visualizers
  PROVE  /\ Shape(Swapped(c, g, v, u)) /\ Frees(c, Swapped(c, g, v, u), v)
         /\ \A h \in Groups : Exists(c, h) <=> Exists(Swapped(c, g, v, u), h)
         /\ \A k : \A w \in Visualizers : Total(Swapped(c, g, v, u), k, w) = Total(c, k, w)
  <1>1. CASE ~(Shows(c, g, v) /\ Shows(c, g, u))
    BY <1>1 DEF Swapped, Frees
  <1>2. CASE Shows(c, g, v) /\ Shows(c, g, u)
    <2> DEFINE a0 == LastOf(c, g, At(c, g, v))
    <2> DEFINE b0 == LastOf(c, g, At(c, g, u))
    <2>1. At(c, g, v) \subseteq Tree(c, g) /\ At(c, g, v) # {}
          /\ At(c, g, u) \subseteq Tree(c, g) /\ At(c, g, u) # {}
      BY <1>2 DEF At, Shows
    <2>2. a0 \in At(c, g, v) /\ b0 \in At(c, g, u)
      BY <2>1, FirstAndLast DEF Shape
    <2>3. PICK a, b : a = a0 /\ b = b0
      OBVIOUS
    <2> HIDE DEF a0, b0
    <2>4. /\ a \in Tree(c, g) /\ b \in Tree(c, g) /\ a \in Places /\ b \in Places
          /\ c[a] = v /\ c[b] = u
      BY <2>2, <2>3, TreePlaces DEF At, Shape
    <2>5. PICK d : d = Swapped(c, g, v, u)
      OBVIOUS
    <2>6. d = [c EXCEPT ![a] = c[b], ![b] = c[a]]
      BY <1>2, <2>3, <2>5 DEF Swapped, a0, b0
    <2>7. Exchanged(c, d, a, b)
      <3>1. c \in [Places -> Nodes \cup {Nothing}]
        BY DEF Shape, Heap
      <3> QED BY <2>4, <2>6, <3>1 DEF Exchanged, Heap
    <2>8. Shape(d)
      BY <2>4, <2>7, ExchangedShape
    <2>9. \A h \in Groups : Exists(c, h) <=> Exists(d, h)
      BY <2>4, <2>7, PlaceFacts, NodeFacts DEF Exchanged, Exists
    <2>10. ASSUME NEW k, NEW w \in Visualizers PROVE Total(d, k, w) = Total(c, k, w)
      <3>1. Part(d, k) = Part(c, k)
        BY <2>4, <2>7, <2>8, ExchangedParts
      <3>2. a \in Part(c, k) <=> b \in Part(c, k)
        BY <2>4, PlaceInPart
      <3>3. Part(c, k) \in SUBSET Places
        BY PartPlaces
      <3>4. Cardinality(In(d, Part(c, k), w)) = Cardinality(In(c, Part(c, k), w))
        BY <2>4, <2>7, <3>2, <3>3, ExchangedCount
      <3> QED BY <3>1, <3>4 DEF Total
    <2>11. Frees(c, d, v)
      BY <2>4, <2>7, NodeFacts DEF Exchanged, Frees, Held
    <2> QED BY <2>5, <2>8, <2>9, <2>10, <2>11
  <1> QED BY <1>1, <1>2

(* What SplitAround does, by the order of the two children. *)
Ordered(x, y, v, u) == (x = v /\ y = u) \/ (x = u /\ y = v)

LEMMA SplitAroundCases ==
  ASSUME NEW c, Shape(c), Free(c) # {}, NEW p \in Places, p \notin Slots(New(c)),
         NEW v \in Visualizers, NEW u \in Visualizers, NEW region
  PROVE  \E n \in Splitters, x \in Visualizers, y \in Visualizers :
           /\ n = New(c) /\ ~Held(c, n) /\ Ordered(x, y, v, u)
           /\ SplitAround(c, p, v, u, region)
                = [c EXCEPT ![p] = n, ![Slot(n, "primary")] = x, ![Slot(n, "secondary")] = y]
           /\ Grafted(c, SplitAround(c, p, v, u, region), p, n, x, y)
  <1>1. PICK n \in Splitters : n = New(c) /\ ~Held(c, n)
    BY NewFacts
  <1>2. PICK x \in Visualizers, y \in Visualizers :
          Ordered(x, y, v, u) /\ SplitAround(c, p, v, u, region) = Split(c, p, x, y)
    BY DEF Ordered, SplitAround
  <1>3. PICK d : d = SplitAround(c, p, v, u, region)
    OBVIOUS
  <1>4. d = [c EXCEPT ![p] = n, ![Slot(n, "primary")] = x, ![Slot(n, "secondary")] = y]
    BY <1>1, <1>2, <1>3 DEF Split
  <1>5. c \in [Places -> Nodes \cup {Nothing}]
    BY DEF Shape, Heap
  <1>6. Slot(n, "primary") \in Places /\ Slot(n, "secondary") \in Places
    BY PlaceFacts, SideFacts
  <1>7. n \in Nodes /\ x \in Nodes /\ y \in Nodes
    BY DEF Nodes
  <1>8. Heap(d)
    BY <1>4, <1>5, <1>6, <1>7 DEF Heap
  <1>9. Grafted(c, d, p, n, x, y)
    BY <1>4, <1>5, <1>6, <1>8 DEF Grafted
  <1>10. /\ n = New(c) /\ ~Held(c, n) /\ Ordered(x, y, v, u)
         /\ d = [c EXCEPT ![p] = n, ![Slot(n, "primary")] = x, ![Slot(n, "secondary")] = y]
         /\ Grafted(c, d, p, n, x, y)
    BY <1>1, <1>2, <1>4, <1>9
  <1>11. \E n2 \in Splitters, x2 \in Visualizers, y2 \in Visualizers :
           /\ n2 = New(c) /\ ~Held(c, n2) /\ Ordered(x2, y2, v, u)
           /\ d = [c EXCEPT ![p] = n2, ![Slot(n2, "primary")] = x2,
                            ![Slot(n2, "secondary")] = y2]
           /\ Grafted(c, d, p, n2, x2, y2)
    BY <1>10, Zenon
  <1> QED BY <1>3, <1>11, Zenon

(* The place of a splitter or visualizer is no slot of a new splitter. *)
LEMMA NotInNewSlot ==
  ASSUME NEW c, Shape(c), Free(c) # {}, NEW p \in Places, c[p] # Nothing
  PROVE  p \notin Slots(New(c))
  <1>1. PICK n \in Splitters : n = New(c) /\ ~Held(c, n)
    BY NewFacts
  <1>2. p \notin Slots(n)
    BY <1>1 DEF Slots, Shape, TwoChildren
  <1> QED BY <1>1, <1>2

(* A common parent of both visualizers is replaced: each of them is shown as *)
(* often as before, in every tree.                                            *)
LEMMA RebuiltKeeps ==
  ASSUME NEW c, Shape(c), Free(c) # {}, NEW v \in Visualizers, NEW u \in Visualizers, v # u,
         NEW p \in Places, NEW s \in Splitters, c[p] = s,
         \E side \in Sides : c[Slot(s, side)] = v,
         \E side \in Sides : c[Slot(s, side)] = u,
         NEW region
  PROVE  LET e == Destroyed(SplitAround(c, p, v, u, region), s)
         IN  /\ Shape(e) /\ Frees(c, e, v)
             /\ \A k : \A w \in Visualizers : Total(e, k, w) = Total(c, k, w)
  <1>1. p \notin Slots(New(c))
    BY NotInNewSlot, NodeFacts
  <1>2. PICK n \in Splitters, x \in Visualizers, y \in Visualizers :
           /\ n = New(c) /\ ~Held(c, n) /\ Ordered(x, y, v, u)
           /\ SplitAround(c, p, v, u, region)
                = [c EXCEPT ![p] = n, ![Slot(n, "primary")] = x, ![Slot(n, "secondary")] = y]
    BY <1>1, SplitAroundCases
  <1>3. PICK m, e : /\ m = SplitAround(c, p, v, u, region)
                    /\ e = Destroyed(m, s)
    OBVIOUS
  <1>4. /\ m = [c EXCEPT ![p] = n, ![Slot(n, "primary")] = x, ![Slot(n, "secondary")] = y]
        /\ e = [m EXCEPT ![Slot(s, "primary")] = Nothing, ![Slot(s, "secondary")] = Nothing]
    BY <1>2, <1>3 DEF Destroyed
  <1>5. c \in [Places -> Nodes \cup {Nothing}]
    BY DEF Shape, Heap
  <1>6. Slot(n, "primary") \in Places /\ Slot(n, "secondary") \in Places
        /\ Slot(s, "primary") \in Places /\ Slot(s, "secondary") \in Places
    BY PlaceFacts, SideFacts
  <1>7. n \in Nodes /\ x \in Nodes /\ y \in Nodes
    BY DEF Nodes
  <1>8. m \in [Places -> Nodes \cup {Nothing}]
    BY <1>4, <1>5, <1>6, <1>7
  <1>9. Heap(e)
    BY <1>4, <1>6, <1>8 DEF Heap
  <1>10. \A q : q \in Slots(s) <=> q = Slot(s, "primary") \/ q = Slot(s, "secondary")
    BY DEF Slots, Sides
  <1>11. \A q \in Places : m[q] = IF q = Slot(n, "secondary") THEN y
                                  ELSE IF q = Slot(n, "primary") THEN x
                                  ELSE IF q = p THEN n ELSE c[q]
    BY <1>4, <1>5
  <1>12. \A q \in Places : e[q] = IF q \in Slots(s) THEN Nothing ELSE m[q]
    BY <1>4, <1>8, <1>10
  <1>13. Rebuilt(c, e, p, s, n, x, y)
    BY <1>9, <1>11, <1>12 DEF Rebuilt
  <1>14. Ordered(c[Slot(s, "primary")], c[Slot(s, "secondary")], v, u)
    BY DEF Ordered, Sides
  <1>15. \A side \in Sides : c[Slot(s, side)] \in Visualizers
    BY <1>14 DEF Ordered, Sides
  <1>16. Shape(e) /\ Frees(c, e, v)
    BY <1>2, <1>13, <1>15, RebuiltShape DEF Frees
  <1>17. ASSUME NEW k, NEW w \in Visualizers PROVE Total(e, k, w) = Total(c, k, w)
    <2>1. /\ \A q \in Places : q \notin Slots(n) /\ q \notin Slots(s)
                                 => (q \in Part(c, k) <=> q \in Part(e, k))
          /\ \A q \in Slots(n) : q \in Part(e, k) <=> p \in Part(c, k)
          /\ \A q \in Slots(s) : q \in Part(c, k) <=> p \in Part(c, k)
      BY <1>2, <1>13, <1>15, <1>16, RebuiltParts
    <2>2. Part(c, k) \in SUBSET Places /\ Part(e, k) \in SUBSET Places
      BY <1>16, PartPlaces
    <2>3. Cardinality(In(e, Part(e, k), w)) =
            Cardinality(In(c, Part(c, k), w))
              - One(p \in Part(c, k) /\ c[Slot(s, "primary")] = w)
              - One(p \in Part(c, k) /\ c[Slot(s, "secondary")] = w)
              + One(p \in Part(c, k) /\ x = w) + One(p \in Part(c, k) /\ y = w)
      BY <1>2, <1>13, <2>1, <2>2, RebuiltCount
    <2>4. \/ /\ c[Slot(s, "primary")] = x /\ c[Slot(s, "secondary")] = y
          \/ /\ c[Slot(s, "primary")] = y /\ c[Slot(s, "secondary")] = x
      BY <1>2, <1>14 DEF Ordered
    <2>5. /\ One(p \in Part(c, k) /\ x = w) \in {0, 1}
          /\ One(p \in Part(c, k) /\ y = w) \in {0, 1}
      BY OneNat
    <2>6. Total(c, k, w) \in Nat
      BY TotalNat
    <2>7. Total(e, k, w) =
            Total(c, k, w) - One(p \in Part(c, k) /\ x = w) - One(p \in Part(c, k) /\ y = w)
              + One(p \in Part(c, k) /\ x = w) + One(p \in Part(c, k) /\ y = w)
      <3>1. CASE c[Slot(s, "primary")] = x /\ c[Slot(s, "secondary")] = y
        BY <2>3, <3>1 DEF Total
      <3>2. CASE c[Slot(s, "primary")] = y /\ c[Slot(s, "secondary")] = x
        <4>1. Total(e, k, w) =
            Total(c, k, w) - One(p \in Part(c, k) /\ y = w) - One(p \in Part(c, k) /\ x = w)
              + One(p \in Part(c, k) /\ x = w) + One(p \in Part(c, k) /\ y = w)
          BY <2>3, <3>2 DEF Total
        <4> QED BY <2>5, <2>6, <4>1
      <3> QED BY <2>4, <3>1, <3>2
    <2> QED BY <2>5, <2>6, <2>7
  <1> QED BY <1>3, <1>16, <1>17

(* The dragged leaf is removed and put beside the other one: both are shown  *)
(* as often as before.                                                       *)
LEMMA MovedKeeps ==
  ASSUME NEW c, Shape(c), Free(c) # {}, NEW g \in Groups,
         NEW v \in Visualizers, NEW u \in Visualizers, v # u,
         Shows(c, g, v), Shows(c, g, u), NEW region
  PROVE  LET rest == Removed(c, g, v)
             e    == SplitAround(rest, LastOf(rest, g, At(rest, g, u)), v, u, region)
         IN  /\ Shows(rest, g, u)
             /\ Shape(e) /\ Frees(c, e, v)
             /\ \A k : \A w \in Visualizers : Total(e, k, w) = Total(c, k, w)
  <1>1. PICK rest : rest = Removed(c, g, v)
    OBVIOUS
  <1>2. Shape(rest) /\ \A t \in Splitters : Held(rest, t) => Held(c, t)
    BY <1>1, RemovedShape
  <1>3. Free(rest) # {}
    BY <1>2 DEF Free
  <1>4. \A k : \A w \in Visualizers :
          Total(rest, k, w) = Total(c, k, w) - One(Covers(k, g) /\ v = w)
    BY <1>1, RemovedTotal
  <1>5. Shows(rest, g, u)
    <2>1. Total(rest, g, u) = Total(c, g, u) - One(Covers(g, g) /\ v = u)
      BY <1>4
    <2>2. One(Covers(g, g) /\ v = u) = 0
      BY DEF One
    <2>3. Total(c, g, u) # 0 /\ Total(c, g, u) \in Nat
      BY ShowsTotal, TotalNat
    <2>4. Total(rest, g, u) # 0
      BY <2>1, <2>2, <2>3
    <2> QED BY <1>2, <2>4, ShowsTotal
  <1>6. PICK p : p = LastOf(rest, g, At(rest, g, u))
    OBVIOUS
  <1>7. p \in Tree(rest, g) /\ rest[p] = u /\ p \in Places
    <2>1. At(rest, g, u) \subseteq Tree(rest, g) /\ At(rest, g, u) # {}
      BY <1>5 DEF At, Shows
    <2>2. p \in At(rest, g, u)
      BY <1>2, <1>6, <2>1, FirstAndLast DEF Shape
    <2> QED BY <1>2, <2>2, TreePlaces DEF At, Shape
  <1>8. p \notin Slots(New(rest))
    BY <1>2, <1>3, <1>7, NotInNewSlot, NodeFacts
  <1>9. PICK e : e = SplitAround(rest, p, v, u, region)
    OBVIOUS
  <1>10. PICK n \in Splitters, x \in Visualizers, y \in Visualizers :
           /\ n = New(rest) /\ ~Held(rest, n) /\ Ordered(x, y, v, u)
           /\ Grafted(rest, e, p, n, x, y)
    BY <1>2, <1>3, <1>7, <1>8, <1>9, SplitAroundCases
  <1>11. Shape(e)
    BY <1>2, <1>7, <1>10, LeafGraftedShape
  <1>12. ASSUME NEW k, NEW w \in Visualizers PROVE Total(e, k, w) = Total(c, k, w)
    <2>1. p \notin Slots(n)
      BY <1>8, <1>10
    <2>2. \A t \in Splitters : rest[p] = t <=> x = t
      BY <1>7, NodeFacts
    <2>3. /\ \A q \in Places : q \notin Slots(n) => (q \in Part(rest, k) <=> q \in Part(e, k))
          /\ \A q \in Slots(n) : q \in Part(e, k) <=> p \in Part(rest, k)
      BY <1>2, <1>7, <1>10, <1>11, <2>1, <2>2, GraftedParts
    <2>4. Part(rest, k) \in SUBSET Places /\ Part(e, k) \in SUBSET Places
      BY <1>2, <1>11, PartPlaces
    <2>5. Cardinality(In(e, Part(e, k), w)) =
            Cardinality(In(rest, Part(rest, k), w)) - One(p \in Part(rest, k) /\ rest[p] = w)
              + One(p \in Part(rest, k) /\ x = w) + One(p \in Part(rest, k) /\ y = w)
      BY <1>2, <1>7, <1>10, <2>1, <2>3, <2>4, GraftedCount
    <2>6. p \in Part(rest, k) <=> Covers(k, g)
      BY <1>2, <1>7, PlaceInPart
    <2>7. /\ One(p \in Part(rest, k) /\ rest[p] = w) = One(Covers(k, g) /\ u = w)
          /\ One(p \in Part(rest, k) /\ x = w) = One(Covers(k, g) /\ x = w)
          /\ One(p \in Part(rest, k) /\ y = w) = One(Covers(k, g) /\ y = w)
      BY <1>7, <2>6 DEF One
    <2>8. Total(e, k, w) = Total(rest, k, w) - One(Covers(k, g) /\ u = w)
                             + One(Covers(k, g) /\ x = w) + One(Covers(k, g) /\ y = w)
      BY <2>5, <2>7 DEF Total
    <2>9. /\ One(Covers(k, g) /\ u = w) \in {0, 1}
          /\ One(Covers(k, g) /\ v = w) \in {0, 1}
      BY OneNat
    <2>10. One(Covers(k, g) /\ x = w) + One(Covers(k, g) /\ y = w)
             = One(Covers(k, g) /\ v = w) + One(Covers(k, g) /\ u = w)
      <3>1. CASE x = v /\ y = u
        BY <3>1
      <3>2. CASE x = u /\ y = v
        BY <2>9, <3>2
      <3> QED BY <1>10, <3>1, <3>2 DEF Ordered
    <2>11. Total(rest, k, w) = Total(c, k, w) - One(Covers(k, g) /\ v = w)
      BY <1>4
    <2>12. Total(c, k, w) \in Nat /\ Total(rest, k, w) \in Nat
      BY <1>2, TotalNat
    <2>13. One(Covers(k, g) /\ x = w) \in {0, 1} /\ One(Covers(k, g) /\ y = w) \in {0, 1}
      BY OneNat
    <2> QED BY <2>8, <2>9, <2>10, <2>11, <2>12, <2>13
  <1>13. Frees(c, e, v)
    <2>1. ASSUME NEW t \in Splitters, Held(rest, t) PROVE Held(e, t)
      <3>1. PICK q \in Places : rest[q] = t
        BY <2>1 DEF Held
      <3>2. q # p /\ q \notin Slots(n)
        BY <1>2, <1>7, <1>10, <3>1, NodeFacts DEF Shape, TwoChildren, Slots
      <3>3. q # Slot(n, "primary") /\ q # Slot(n, "secondary")
        BY <3>2, SideFacts DEF Slots
      <3> QED BY <1>10, <3>1, <3>2, <3>3 DEF Grafted, Held
    <2> QED BY <1>1, <2>1, RemovedFrees DEF Frees
  <1> QED BY <1>1, <1>5, <1>6, <1>9, <1>11, <1>12, <1>13

(* insertVisualizer keeps the shape and what each tree shows. *)
LEMMA InsertedKeeps ==
  ASSUME NEW c, Shape(c), Free(c) # {}, NEW g \in Groups,
         NEW v \in Visualizers, NEW u \in Visualizers, v # u,
         CanInsert(c, g, v, u), NEW region
  PROVE  /\ Shape(Inserted(c, g, v, u, region)) /\ Frees(c, Inserted(c, g, v, u, region), v)
         /\ \A k : \A w \in Visualizers : Total(Inserted(c, g, v, u, region), k, w) = Total(c, k, w)
  <1> DEFINE a0 == LastOf(c, g, Parents(c, g, v))
  <1> DEFINE b0 == LastOf(c, g, Parents(c, g, u))
  <1>1. /\ Parents(c, g, v) \subseteq Tree(c, g) /\ Parents(c, g, v) # {}
        /\ Parents(c, g, u) \subseteq Tree(c, g) /\ Parents(c, g, u) # {}
    BY DEF CanInsert, Parents
  <1>2. a0 \in Parents(c, g, v) /\ b0 \in Parents(c, g, u)
    BY <1>1, FirstAndLast DEF Shape
  <1>3. PICK a \in Places, b \in Places : a = a0 /\ b = b0 /\ a \in Tree(c, g) /\ b \in Tree(c, g)
    BY <1>1, <1>2, TreePlaces DEF Shape
  <1> HIDE DEF a0, b0
  <1>4. /\ c[a] \in Splitters /\ \E side \in Sides : c[Slot(c[a], side)] = v
        /\ c[b] \in Splitters /\ \E side \in Sides : c[Slot(c[b], side)] = u
    BY <1>2, <1>3 DEF Parents
  <1>5. CASE a = b
    <2>1. PICK s \in Splitters : s = c[a]
      BY <1>4
    <2>2. Inserted(c, g, v, u, region) = Destroyed(SplitAround(c, a, v, u, region), s)
      BY <1>3, <1>5, <2>1 DEF Inserted, a0, b0
    <2> QED BY <1>3, <1>4, <1>5, <2>1, <2>2, RebuiltKeeps
  <1>6. CASE a # b
    <2>1. Shows(c, g, v) /\ Shows(c, g, u)
      BY <1>3, <1>4, TreeClosed DEF Shows, At
    <2>2. PICK rest, e :
            /\ rest = Removed(c, g, v)
            /\ e = SplitAround(rest, LastOf(rest, g, At(rest, g, u)), v, u, region)
      OBVIOUS
    <2>3. /\ Shows(rest, g, u) /\ Shape(e) /\ Frees(c, e, v)
          /\ \A k : \A w \in Visualizers : Total(e, k, w) = Total(c, k, w)
      BY <2>1, <2>2, MovedKeeps
    <2>4. Inserted(c, g, v, u, region) = e
      BY <1>3, <1>6, <2>2, <2>3 DEF Inserted, a0, b0
    <2> QED BY <2>3, <2>4
  <1> QED BY <1>5, <1>6
-----------------------------------------------------------------------------
(* The inductive invariant *)

(* A call of walkTree that still has to go down has a splitter. *)
Calls == {f \in Frames : f.next # "visit" => f.splitter \in Splitters}

Walks == [group : Groups \cup {NoGroup}, hover : Visualizers \cup {Nothing},
          todo : SUBSET Groups, stack : Seq(Calls)]

Typed ==
  /\ TypeOK
  /\ walk \in Walks
  /\ walk # NoWalk => walk.group \in Groups /\ walk.hover \in Visualizers
  /\ drag.active => drag.viz \in Visualizers
  /\ \A v \in dragging : group[v] \in Groups

(* The invariant: the heap is a layout, and the windows follow the trees.     *)
LInv == Typed /\ Shape(child) /\ WindowsFollow

(* What was shown m times and is shown n times was not doubled. *)
NotMore(n, m) == n <= 1 \/ n <= m
NoneDoubled == \A w \in Visualizers : NotMore(Total(child', Hidden, w), Total(child, Hidden, w))

LEMMA GroupFacts ==
  /\ Main \in Groups /\ Hidden \notin Groups /\ NoGroup \notin Groups
  /\ \A n \in 1..MaxWindows : n \in Groups
  BY LayoutAssumption DEF Main, Groups, Hidden, NoGroup

(* What is dragged in a window is a visualizer. *)
LEMMA DraggedFacts ==
  ASSUME Typed, Shape(child), NEW g \in Groups, Dragged(g) # Nothing
  PROVE  Dragged(g) \in dragging /\ Dragged(g) \in Visualizers
  <1> DEFINE at == {p \in Leaves(child, g) : child[p] \in dragging}
  <1>1. at # {} /\ Dragged(g) = child[LastOf(child, g, at)]
    BY DEF Dragged
  <1>2. at \subseteq Tree(child, g)
    BY DEF Leaves
  <1>3. LastOf(child, g, at) \in at
    <2> PICK c : c = child
      OBVIOUS
    <2> HIDE DEF at
    <2> QED BY <1>1, <1>2, FirstAndLast DEF Shape
  <1> QED BY <1>1, <1>3 DEF Leaves

(* A drop keeps the shape and what each tree shows. *)
LEMMA DropKeeps ==
  ASSUME Typed, Shape(child), walk.group \in Groups,
         NEW v \in dragging, NEW u \in Visualizers, v # u, Drop(v, u)
  PROVE  /\ Shape(child') /\ Frees(child, child', v)
         /\ \A k : \A w \in Visualizers : Total(child', k, w) = Total(child, k, w)
  <1>1. PICK c : c = child
    OBVIOUS
  <1>2. v \in Visualizers /\ group[v] \in Groups
    BY DEF Typed, TypeOK
  <1>3. CASE child' = Swapped(child, walk.group, v, u)
    <2>1. PICK g \in Groups : g = walk.group
      OBVIOUS
    <2> QED BY <1>1, <1>2, <1>3, <2>1, SwappedKeeps
  <1>4. CASE /\ CanInsert(child, group[v], v, u)
             /\ Free(child) # {}
             /\ \E region \in {"before", "after"} :
                  initialize(Inserted(child, group[v], v, u, region))
    <2>1. PICK g \in Groups : g = group[v]
      BY <1>2
    <2>2. PICK region \in {"before", "after"} : child' = Inserted(c, g, v, u, region)
      BY <1>1, <1>4, <2>1 DEF initialize
    <2>3. CanInsert(c, g, v, u) /\ Free(c) # {} /\ Shape(c)
      BY <1>1, <1>4, <2>1
    <2> QED BY <1>1, <1>2, <2>2, <2>3, InsertedKeeps
  <1>5. CASE UNCHANGED <<child, windows, group>>
    BY <1>5 DEF Frees
  <1> QED BY <1>3, <1>4, <1>5 DEF Drop

LEMMA VisitLeafKeeps ==
  ASSUME Typed, Shape(child), VisitLeaf
  PROVE  /\ Shape(child') /\ (child' = child \/ \E v \in dragging : Frees(child, child', v))
         /\ \A k : \A w \in Visualizers : Total(child', k, w) = Total(child, k, w)
  <1>1. walk # NoWalk
    BY DEF VisitLeaf, NoWalk
  <1>2. walk.group \in Groups /\ walk.hover \in Visualizers
    BY <1>1 DEF Typed
  <1>3. CASE child' = child
    BY <1>3
  <1>4. CASE /\ Dragged(walk.group) # Nothing
             /\ Dragged(walk.group) # walk.hover
             /\ Drop(Dragged(walk.group), walk.hover)
    <2>1. PICK v : v = Dragged(walk.group)
      OBVIOUS
    <2>2. PICK u \in Visualizers : u = walk.hover
      BY <1>2
    <2>3. v \in dragging
      <3>1. PICK g \in Groups : g = walk.group
        BY <1>2
      <3> QED BY <1>4, <2>1, <3>1, DraggedFacts
    <2>4. v # u /\ Drop(v, u)
      BY <1>4, <2>1, <2>2
    <2> QED BY <1>2, <2>3, <2>4, DropKeeps
  <1>5. \/ child' = child
        \/ /\ Dragged(walk.group) # Nothing
           /\ Dragged(walk.group) # walk.hover
           /\ Drop(Dragged(walk.group), walk.hover)
    BY Zenon DEF VisitLeaf
  <1> QED BY <1>3, <1>4, <1>5

(* Where a visualizer is taken away that is there, or was nowhere, and put   *)
(* into one tree at most, none is doubled.                                   *)
LEMMA MovedTotal ==
  ASSUME NEW c, Shape(c), NEW g \in Groups \cup {Hidden}, NEW v \in Visualizers,
         IF g = Hidden THEN GroupsOf(c, v) = {} ELSE Shows(c, g, v),
         NEW e, Shape(e),
         \/ e = c
         \/ \E t \in Groups : e = Added(c, t, v) /\ (Free(c) # {} \/ ~Exists(c, t)),
         NEW w \in Visualizers
  PROVE  /\ g \in Groups =>
              Exists(e, g) /\ NotMore(Total(Removed(e, g, v), Hidden, w), Total(c, Hidden, w))
         /\ g = Hidden => NotMore(Total(e, Hidden, w), Total(c, Hidden, w))
  <1>2. Hidden \notin Groups /\ \A t \in Groups : Covers(Hidden, t)
    BY GroupFacts DEF Covers
  <1>3. PICK b \in {0, 1} : b = One(v = w)
    BY OneNat
  <1>4. Total(e, Hidden, w) = Total(c, Hidden, w) \/ Total(e, Hidden, w) = Total(c, Hidden, w) + b
    <2>1. ASSUME NEW t \in Groups, e = Added(c, t, v), Free(c) # {} \/ ~Exists(c, t)
          PROVE  Total(e, Hidden, w) = Total(c, Hidden, w) + b
      <3>1. Total(e, Hidden, w) = Total(c, Hidden, w) + One(Covers(Hidden, t) /\ v = w)
        BY <2>1, AddedTotal
      <3>2. One(Covers(Hidden, t) /\ v = w) = b
        BY <1>2, <1>3 DEF One
      <3> QED BY <3>1, <3>2
    <2> QED BY <2>1
  <1>5. Total(c, Hidden, w) \in Nat /\ Total(e, Hidden, w) \in Nat
    BY TotalNat
  <1>6. CASE g \in Groups
    <2>1. Total(c, g, v) # 0 /\ Total(c, g, v) \in Nat
      BY <1>2, <1>6, ShowsTotal, TotalNat
    <2>2. Total(e, g, v) # 0
      <3>1. ASSUME NEW t \in Groups, e = Added(c, t, v), Free(c) # {} \/ ~Exists(c, t)
            PROVE  Total(e, g, v) # 0
        <4>1. Total(e, g, v) = Total(c, g, v) + One(Covers(g, t) /\ v = v)
          BY <3>1, AddedTotal
        <4>2. One(Covers(g, t) /\ v = v) \in {0, 1}
          BY OneNat
        <4> QED BY <2>1, <4>1, <4>2
      <3> QED BY <2>1, <3>1
    <2>3. Shows(e, g, v)
      BY <1>6, <2>2, ShowsTotal
    <2>4. Exists(e, g)
      BY <1>6, <2>3, TreeEmpty DEF Shows, At, Shape
    <2>5. Total(Removed(e, g, v), Hidden, w) = Total(e, Hidden, w) - One(Covers(Hidden, g) /\ v = w)
      BY <1>6, <2>3, RemovedTotal
    <2>6. One(Covers(Hidden, g) /\ v = w) = b
      BY <1>2, <1>3, <1>6 DEF One
    <2>7. NotMore(Total(Removed(e, g, v), Hidden, w), Total(c, Hidden, w))
      BY <1>4, <1>5, <2>5, <2>6 DEF NotMore
    <2> QED BY <1>2, <1>6, <2>4, <2>7
  <1>7. CASE g = Hidden
    <2>1. CASE v = w
      <3>1. Total(c, Hidden, w) = 0
        BY <1>7, <2>1, ShowsTotal
      <3> QED BY <1>2, <1>4, <1>7, <3>1 DEF NotMore
    <2>2. CASE v # w
      <3>1. b = 0
        BY <1>3, <2>2 DEF One
      <3> QED BY <1>2, <1>4, <1>5, <1>7, <3>1 DEF NotMore
    <2> QED BY <2>1, <2>2
  <1> QED BY <1>6, <1>7

(* What Take does to the trees: e is the layout with the visualizer added. *)
LEMMA TakeKeeps ==
  ASSUME NEW c, Shape(c), NEW g \in Groups \cup {Hidden}, NEW v \in Visualizers,
         NEW e, Shape(e),
         \/ e = c
         \/ \E t \in Groups : e = Added(c, t, v) /\ (Free(c) # {} \/ ~Exists(c, t)),
         Take(e, g, v)
  PROVE  /\ Shape(child')
         /\ (IF g = Hidden THEN GroupsOf(c, v) = {} ELSE Shows(c, g, v)) =>
              \A w \in Visualizers : NotMore(Total(child', Hidden, w), Total(c, Hidden, w))
  <1>1. CASE g \in Groups /\ Exists(e, g)
    <2>1. child' = Removed(e, g, v)
      BY <1>1 DEF Take
    <2>2. Shape(child')
      BY <1>1, <2>1, RemovedShape
    <2>3. g # Hidden
      BY <1>1, GroupFacts
    <2>4. ASSUME Shows(c, g, v), NEW w \in Visualizers
          PROVE  NotMore(Total(Removed(e, g, v), Hidden, w), Total(c, Hidden, w))
      BY <1>1, <2>3, <2>4, MovedTotal
    <2> QED BY <2>1, <2>2, <2>3, <2>4
  <1>2. CASE ~(g \in Groups /\ Exists(e, g))
    <2>1. child' = e
      BY <1>2 DEF Take
    <2>2. ASSUME IF g = Hidden THEN GroupsOf(c, v) = {} ELSE Shows(c, g, v),
                 NEW w \in Visualizers
          PROVE  NotMore(Total(e, Hidden, w), Total(c, Hidden, w))
      <3>1. /\ g \in Groups => Exists(e, g)
            /\ g = Hidden => NotMore(Total(e, Hidden, w), Total(c, Hidden, w))
        BY <2>2, MovedTotal
      <3> QED BY <1>2, <3>1
    <2> QED BY <2>1, <2>2
  <1> QED BY <1>1, <1>2
-----------------------------------------------------------------------------
(* Every step keeps the invariant *)

(* ... its layout.  While a button release is delivered, the trees keep what *)
(* they show, and a drop in the menu that is up to date doubles nothing.     *)
LEMMA LayoutStep ==
  ASSUME LInv, Next
  PROVE  /\ Shape(child')
         /\ drag' # drag /\ child' # child /\ ~OutOfDate => NoneDoubled
         /\ walk # NoWalk =>
              \A k : \A w \in Visualizers : Total(child', k, w) = Total(child, k, w)
  <1> USE DEF LInv
  <1>1. CASE UNCHANGED child
    BY <1>1
  <1>2. CASE VisitLeaf
    <2>1. /\ Shape(child')
          /\ \A k : \A w \in Visualizers : Total(child', k, w) = Total(child, k, w)
      BY <1>2, VisitLeafKeeps
    <2>2. drag' = drag
      BY <1>2 DEF VisitLeaf
    <2> QED BY <2>1, <2>2
  <1>3. ASSUME NEW c, c = child, NEW e, Shape(e),
               drag.active, Take(e, drag.from, drag.viz),
               \/ e = c
               \/ \E t \in Groups :
                    e = Added(c, t, drag.viz) /\ (Free(c) # {} \/ ~Exists(c, t))
        PROVE  Shape(child') /\ (~OutOfDate => NoneDoubled)
    <2>1. PICK v \in Visualizers, g \in Groups \cup {Hidden} : v = drag.viz /\ g = drag.from
      BY <1>3 DEF Typed, TypeOK
    <2>2. Shape(c) /\ Take(e, g, v)
      BY <1>3, <2>1
    <2>3. /\ Shape(child')
          /\ (IF g = Hidden THEN GroupsOf(c, v) = {} ELSE Shows(c, g, v)) =>
               \A w \in Visualizers : NotMore(Total(child', Hidden, w), Total(c, Hidden, w))
      BY <1>3, <2>1, <2>2, TakeKeeps
    <2>4. ASSUME ~OutOfDate PROVE NoneDoubled
      <3>1. IF g = Hidden THEN GroupsOf(c, v) = {} ELSE Shows(c, g, v)
        BY <1>3, <2>1, <2>4, GroupFacts DEF OutOfDate
      <3> QED BY <1>3, <2>3, <3>1 DEF NoneDoubled
    <2> QED BY <2>3, <2>4
  <1>4. ASSUME NEW target \in Groups \cup {Hidden}, MenuDrop(target)
        PROVE  Shape(child') /\ (~OutOfDate => NoneDoubled) /\ walk = NoWalk
    <2>1. PICK c : c = child
      OBVIOUS
    <2>2. PICK e : e = IF target = Hidden THEN child ELSE Added(child, target, drag.viz)
      OBVIOUS
    <2>3. /\ drag.active /\ Free(c) # {} /\ Take(e, drag.from, drag.viz)
          /\ walk = NoWalk
      BY <1>4, <2>1, <2>2 DEF MenuDrop, Idle
    <2>4. CASE target = Hidden
      BY <1>3, <2>1, <2>2, <2>3, <2>4
    <2>5. CASE target # Hidden
      <3>1. PICK v \in Visualizers : v = drag.viz
        BY <2>3 DEF Typed
      <3>2. e = Added(c, target, v) /\ target \in Groups
        BY <2>1, <2>2, <2>5, <3>1
      <3>3. Shape(e)
        BY <2>1, <2>3, <3>2, AddedShape
      <3> QED BY <1>3, <2>1, <2>3, <3>1, <3>2, <3>3
    <2> QED BY <2>4, <2>5
  <1>5. CASE MenuCreate
    <2>1. PICK c : c = child
      OBVIOUS
    <2>2. PICK n \in newWindowCounter..MaxWindows :
            ~Exists(child, n) /\ Take(Added(child, n, drag.viz), drag.from, drag.viz)
      BY <1>5 DEF MenuCreate
    <2>3. drag.active /\ walk = NoWalk
      BY <1>5 DEF MenuCreate, Idle
    <2>4. n \in Groups
      <3>1. newWindowCounter \in 1..MaxWindows + 1
        BY DEF Typed, TypeOK
      <3>2. n \in 1..MaxWindows
        BY <3>1, LayoutAssumption
      <3> QED BY <3>2, GroupFacts
    <2>5. PICK v \in Visualizers : v = drag.viz
      BY <2>3 DEF Typed
    <2>6. PICK e : e = Added(c, n, v)
      OBVIOUS
    <2>7. ~Exists(c, n) /\ Take(e, drag.from, drag.viz)
      BY <2>1, <2>2, <2>5, <2>6
    <2>8. Shape(e)
      BY <2>1, <2>4, <2>6, <2>7, AddedShape
    <2>9. Shape(child') /\ (~OutOfDate => NoneDoubled)
      BY <1>3, <2>1, <2>3, <2>4, <2>5, <2>6, <2>7, <2>8
    <2> QED BY <2>3, <2>9
  <1>6. ASSUME NEW v \in Visualizers, Reload(v)
        PROVE  Shape(child') /\ drag' = drag /\ walk = NoWalk
    <2>1. PICK c : c = child
      OBVIOUS
    <2>1a. PICK out \in {Hidden} \cup Groups, in \in {Hidden} \cup Groups : \E m, d :
            /\ m = IF out = Hidden THEN c ELSE Removed(c, out, v)
            /\ d = IF in = Hidden THEN m ELSE Added(m, in, v)
            /\ out # Hidden => Shows(c, out, v)
            /\ child' = d
      BY <1>6, <2>1 DEF Reload, initialize
    <2>2. PICK m, d :
            /\ m = IF out = Hidden THEN c ELSE Removed(c, out, v)
            /\ d = IF in = Hidden THEN m ELSE Added(m, in, v)
            /\ out # Hidden => Shows(c, out, v)
            /\ child' = d
      BY <2>1a
    <2>3. walk = NoWalk /\ drag' = drag /\ Free(c) # {} /\ Shape(c)
      BY <1>6, <2>1 DEF Reload, Idle
    <2>4. Shape(m) /\ Free(m) # {}
      <3>1. CASE out = Hidden
        BY <2>2, <2>3, <3>1
      <3>2. CASE out # Hidden
        <4>1. Shape(m) /\ \A t \in Splitters : Held(m, t) => Held(c, t)
          BY <2>2, <2>3, <3>2, RemovedShape
        <4> QED BY <2>3, <4>1 DEF Free
      <3> QED BY <3>1, <3>2
    <2>5. Shape(d)
      BY <2>2, <2>4, AddedShape
    <2> QED BY <2>2, <2>3, <2>5
  <1>7. \/ UNCHANGED child \/ VisitLeaf \/ MenuCreate
        \/ \E v \in Visualizers : Reload(v)
        \/ \E target \in Groups \cup {Hidden} : MenuDrop(target)
    BY Zenon DEF Next, Press, Release, NextTree, Descend, VisitSplitter, ReadFreed, EndWalk,
       MenuPick, MenuCancel, ReloadSame, initialize
  <1> QED BY <1>1, <1>2, <1>4, <1>5, <1>6, <1>7

(* ... the windows. *)
Follow(c, w) ==
  /\ w[Main] = "open"
  /\ \A g \in Groups \ {Main} : /\ w[g] = "open" => Exists(c, g)
                                /\ Exists(c, g) => w[g] # "none"

LEMMA OpenedFollow ==
  ASSUME NEW c, NEW w, w[Main] = "open"
  PROVE  Follow(c, Opened(c, w))
  BY GroupFacts DEF Follow, Opened

LEMMA LookedFollow ==
  ASSUME NEW c, NEW w, Follow(c, w)
  PROVE  Follow(c, Looked(c, w))
  BY GroupFacts DEF Follow, Looked
LEMMA WindowsStep ==
  ASSUME LInv, Next
  PROVE  WindowsFollow'
  <1> USE DEF LInv
  <1>1. Follow(child, windows)
    BY DEF Follow, WindowsFollow
  <1> SUFFICES Follow(child', windows')
    BY DEF Follow, WindowsFollow, Exists
  <1>2. PICK c, w : c = child /\ w = windows
    OBVIOUS
  <1>3. Follow(c, w) /\ w[Main] = "open"
    BY <1>1, <1>2 DEF Follow
  <1>4. CASE UNCHANGED <<child, windows>>
    BY <1>1, <1>4
  <1>5. CASE child' = child /\ windows' = Looked(child, windows)
    BY <1>2, <1>3, <1>5, LookedFollow
  <1>6. ASSUME NEW d, initialize(d) PROVE Follow(child', windows')
    BY <1>2, <1>3, <1>6, OpenedFollow DEF initialize
  <1>7. CASE VisitLeaf
    <2>1. walk # NoWalk
      BY <1>7 DEF VisitLeaf, NoWalk
    <2>2. PICK g \in Groups, u \in Visualizers : g = walk.group /\ u = walk.hover
      BY <2>1 DEF Typed
    <2>3. \/ UNCHANGED <<child, windows>>
          \/ \E d : initialize(d)
          \/ /\ Dragged(g) # Nothing
             /\ child' = Swapped(child, walk.group, Dragged(g), walk.hover)
             /\ UNCHANGED windows
      BY <1>7, <2>2, Zenon DEF VisitLeaf, Drop
    <2>4. CASE /\ Dragged(g) # Nothing
               /\ child' = Swapped(child, walk.group, Dragged(g), walk.hover)
               /\ UNCHANGED windows
      <3>1. PICK v \in Visualizers : v = Dragged(g)
        BY <2>4, DraggedFacts
      <3>2. child' = Swapped(c, g, v, u) /\ windows' = w
        BY <1>2, <2>2, <2>4, <3>1
      <3>3. \A h \in Groups : Exists(c, h) <=> Exists(child', h)
        BY <1>2, <3>2, SwappedKeeps
      <3> QED BY <1>3, <3>2, <3>3 DEF Follow
    <2> QED BY <1>4, <1>6, <2>3, <2>4
  <1>8. ASSUME NEW e, NEW g, NEW v, Take(e, g, v), \A h \in Groups : Exists(c, h) => Exists(e, h)
        PROVE  Follow(child', windows')
    <2>1. PICK rest : rest = Removed(e, g, v)
      OBVIOUS
    <2>2. CASE g \in Groups /\ Exists(e, g)
      <3>1. child' = rest /\ windows' = Looked(rest, Opened(rest, w))
        BY <1>2, <1>8, <2>1, <2>2 DEF Take
      <3>2. Follow(rest, Opened(rest, w))
        BY <1>3, OpenedFollow
      <3> QED BY <3>1, <3>2, LookedFollow
    <2>3. CASE ~(g \in Groups /\ Exists(e, g))
      <3>1. child' = e /\ windows' = Looked(e, w)
        BY <1>2, <1>8, <2>3 DEF Take
      <3>2. Follow(e, Looked(e, w))
        BY <1>3, <1>8, GroupFacts DEF Follow, Looked
      <3> QED BY <3>1, <3>2
    <2> QED BY <2>2, <2>3
  <1>9. ASSUME NEW target \in Groups \cup {Hidden}, MenuDrop(target)
        PROVE  Follow(child', windows')
    <2>1. PICK e : e = IF target = Hidden THEN child ELSE Added(child, target, drag.viz)
      OBVIOUS
    <2>2. drag.active /\ Free(c) # {} /\ Take(e, drag.from, drag.viz)
      BY <1>2, <1>9, <2>1 DEF MenuDrop
    <2>3. PICK v \in Visualizers : v = drag.viz
      BY <2>2 DEF Typed
    <2>4. \A h \in Groups : Exists(c, h) => Exists(e, h)
      <3>1. CASE target = Hidden
        BY <1>2, <2>1, <3>1
      <3>2. CASE target # Hidden
        <4>1. e = Added(c, target, v) /\ target \in Groups /\ Shape(c)
          BY <1>2, <2>1, <2>3, <3>2
        <4> QED BY <2>2, <4>1, AddedShape
      <3> QED BY <3>1, <3>2
    <2> QED BY <1>8, <2>2, <2>4
  <1>10. CASE MenuCreate
    <2>1. PICK n \in newWindowCounter..MaxWindows :
            ~Exists(child, n) /\ Take(Added(child, n, drag.viz), drag.from, drag.viz)
      BY <1>10 DEF MenuCreate
    <2>2. PICK v \in Visualizers : v = drag.viz
      BY <1>10 DEF MenuCreate, Typed
    <2>3. n \in Groups
      <3>1. newWindowCounter \in 1..MaxWindows + 1
        BY DEF Typed, TypeOK
      <3>2. n \in 1..MaxWindows
        BY <3>1, LayoutAssumption
      <3> QED BY <3>2, GroupFacts
    <2>4. PICK e : e = Added(c, n, v)
      OBVIOUS
    <2>5. Take(e, drag.from, drag.viz) /\ ~Exists(c, n) /\ Shape(c)
      BY <1>2, <2>1, <2>2, <2>4
    <2>6. \A h \in Groups : Exists(c, h) => Exists(e, h)
      BY <2>3, <2>4, <2>5, AddedShape
    <2> QED BY <1>8, <2>5, <2>6
  <1>11. \/ UNCHANGED <<child, windows>>
         \/ child' = child /\ windows' = Looked(child, windows)
         \/ \E d : initialize(d)
         \/ VisitLeaf \/ MenuCreate
         \/ \E target \in Groups \cup {Hidden} : MenuDrop(target)
    BY Zenon DEF Next, Press, Release, NextTree, Descend, VisitSplitter, ReadFreed, EndWalk,
       MenuPick, MenuCancel, ReloadSame, Reload
  <1> QED BY <1>4, <1>5, <1>6, <1>7, <1>9, <1>10, <1>11

(* ... the types. *)
GroupKept ==
  /\ group' \in [Visualizers -> Groups \cup {NoGroup}]
  /\ \A v \in Visualizers : group[v] \in Groups => group'[v] \in Groups

LEMMA RegroupedKept ==
  ASSUME Typed, NEW c, group' \in Regrouped(c)
  PROVE  GroupKept
  <1> DEFINE Kept(v, after) ==
        LET in == GroupsOf(c, v)
        IN IF in = {} THEN group[v]
           ELSE CHOOSE g \in in : \A h \in in : after[g] <= after[h]
  <1>1. PICK after \in [Groups -> Groups] : group' = [v \in Visualizers |-> Kept(v, after)]
    BY DEF Regrouped, Orders
  <1>2. ASSUME NEW v \in Visualizers, GroupsOf(c, v) # {} PROVE Kept(v, after) \in Groups
    <2>1. GroupsOf(c, v) \subseteq Groups
      BY DEF GroupsOf
    <2> DEFINE T == {after[g] : g \in GroupsOf(c, v)}
    <2>2. T \in SUBSET Nat /\ T # {}
      BY <1>2, <2>1, LayoutAssumption DEF Groups
    <2>3. PICK n \in T : \A m \in T : n <= m
      BY <2>2, NatMin
    <2>4. \E g \in GroupsOf(c, v) : \A h \in GroupsOf(c, v) : after[g] <= after[h]
      BY <2>3
    <2> QED BY <1>2, <2>1, <2>4
  <1>3. ASSUME NEW v \in Visualizers, GroupsOf(c, v) = {} PROVE Kept(v, after) = group[v]
    BY <1>3
  <1> HIDE DEF Kept
  <1>4. group \in [Visualizers -> Groups \cup {NoGroup}]
    BY DEF Typed, TypeOK
  <1> QED BY <1>1, <1>2, <1>3, <1>4 DEF GroupKept

LEMMA OpenedType ==
  ASSUME NEW c, NEW w \in [Groups -> {"none", "open", "empty"}]
  PROVE  /\ Opened(c, w) \in [Groups -> {"none", "open", "empty"}]
         /\ Looked(c, w) \in [Groups -> {"none", "open", "empty"}]
  BY DEF Opened, Looked

LEMMA WindowTypes ==
  ASSUME Typed, Next
  PROVE  windows' \in [Groups -> {"none", "open", "empty"}] /\ GroupKept
  <1>1. PICK w \in [Groups -> {"none", "open", "empty"}] : w = windows
    BY DEF Typed, TypeOK
  <1>2. ASSUME UNCHANGED group PROVE GroupKept
    BY <1>2 DEF GroupKept, Typed, TypeOK
  <1>3. ASSUME NEW c, initialize(c)
        PROVE  windows' \in [Groups -> {"none", "open", "empty"}] /\ GroupKept
    BY <1>1, <1>3, OpenedType, RegroupedKept DEF initialize
  <1>4. ASSUME NEW c, NEW g, NEW v, Take(c, g, v)
        PROVE  windows' \in [Groups -> {"none", "open", "empty"}] /\ GroupKept
    <2>1. PICK rest : rest = Removed(c, g, v)
      OBVIOUS
    <2>2. CASE g \in Groups /\ Exists(c, g)
      <3>1. windows' = Looked(rest, Opened(rest, w)) /\ group' \in Regrouped(rest)
        BY <1>1, <1>4, <2>1, <2>2 DEF Take
      <3> QED BY <3>1, OpenedType, RegroupedKept
    <2>3. CASE ~(g \in Groups /\ Exists(c, g))
      <3>1. windows' = Looked(c, w) /\ group' = group
        BY <1>1, <1>4, <2>3 DEF Take
      <3> QED BY <1>2, <3>1, OpenedType
    <2> QED BY <2>2, <2>3
  <1>5. \/ UNCHANGED <<windows, group>>
        \/ \E c : windows' = Looked(c, windows) /\ UNCHANGED group
        \/ \E c : initialize(c)
        \/ \E c, g, v : Take(c, g, v)
    BY Zenon DEF Next, Press, Release, NextTree, Descend, VisitLeaf, Drop, VisitSplitter,
       ReadFreed, EndWalk, MenuPick, MenuCancel, MenuDrop, MenuCreate, ReloadSame, Reload
  <1> QED BY <1>1, <1>2, <1>3, <1>4, <1>5, OpenedType

LEMMA CallType ==
  ASSUME TypeOK, NEW p \in Places
  PROVE  Call(p) \in Calls
  BY DEF Call, Calls, Frames, Sides, TypeOK

WalkKept ==
  /\ walk' \in Walks
  /\ walk' # NoWalk => walk'.group \in Groups /\ walk'.hover \in Visualizers

LEMMA WalkTypes ==
  ASSUME Typed, Next
  PROVE  WalkKept
  <1> USE DEF Typed
  <1>0. /\ NoWalk \in Walks /\ NoWalk.todo = {} /\ NoWalk.stack = <<>>
        /\ walk \in Walks /\ (walk # NoWalk => walk.group \in Groups /\ walk.hover \in Visualizers)
    BY DEF NoWalk, Walks
  <1>1. CASE UNCHANGED walk
    BY <1>0, <1>1 DEF WalkKept
  <1>2. CASE walk' = NoWalk
    BY <1>0, <1>2 DEF WalkKept
  <1>3. ASSUME NEW g \in Groups, Release(g) PROVE WalkKept
    <2>1. PICK u \in Visualizers :
            walk' = [group |-> g, hover |-> u, stack |-> <<>>,
                     todo |-> {k \in Groups : Exists(child, k)}]
      BY <1>3 DEF Release
    <2> QED BY <2>1 DEF WalkKept, Walks
  <1>4. ASSUME NEW s \in Seq(Calls), walk # NoWalk, walk' = [walk EXCEPT !.stack = s]
        PROVE  WalkKept
    BY <1>0, <1>4 DEF WalkKept, Walks
  <1>5. CASE NextTree
    <2>1. PICK g \in walk.todo :
            walk' = [walk EXCEPT !.todo = @ \ {g}, !.stack = <<Call(Root(g))>>]
      BY <1>5 DEF NextTree
    <2>2. walk # NoWalk /\ g \in Groups
      BY <1>0, <2>1 DEF Walks
    <2>3. Call(Root(g)) \in Calls
      BY <2>2, PlaceFacts, CallType
    <2>4. <<Call(Root(g))>> \in Seq(Calls)
      BY <2>3
    <2>5. PICK s \in Seq(Calls) : s = <<Call(Root(g))>>
      BY <2>4
    <2> QED BY <1>0, <2>1, <2>2, <2>5 DEF WalkKept, Walks
  <1>6. ASSUME walk.stack # <<>>
        PROVE  walk # NoWalk /\ Popped \in Seq(Calls) /\ Top \in Calls
    <2>1. walk.stack \in Seq(Calls) /\ walk # NoWalk
      BY <1>0, <1>6 DEF Walks
    <2>2. Len(walk.stack) \in 1..Len(walk.stack)
      BY <1>6, <2>1
    <2>3. Top \in Calls
      BY <2>1, <2>2 DEF Top, Last
    <2>4. Popped \in Seq(Calls)
      BY <2>1, <2>2 DEF Popped, Front
    <2> QED BY <2>1, <2>3, <2>4
  <1>7. CASE walk.stack # <<>> /\ walk' = [walk EXCEPT !.stack = Popped]
    BY <1>4, <1>6, <1>7
  <1>8. CASE Descend
    <2>1. PICK top, rest : top = Top /\ rest = Popped
      OBVIOUS
    <2>2. PICK after : after = [top EXCEPT !.next = IF @ = "primary" THEN "secondary" ELSE "visit"]
      OBVIOUS
    <2>3. /\ walk.stack # <<>> /\ top.next # "visit"
          /\ walk' = [walk EXCEPT !.stack =
                        Append(Append(rest, after), Call(Slot(top.splitter, top.next)))]
      BY <1>8, <2>1, <2>2 DEF Descend
    <2>4. walk # NoWalk /\ top \in Calls /\ rest \in Seq(Calls)
      BY <1>6, <2>1, <2>3
    <2>5. top.next \in Sides /\ top.splitter \in Splitters
      BY <2>3, <2>4 DEF Calls, Frames
    <2>6. after \in Calls
      BY <2>2, <2>3, <2>4 DEF Calls, Frames, Sides
    <2>7. Slot(top.splitter, top.next) \in Places
      BY <2>5, PlaceFacts
    <2>8. PICK next \in Calls : next = Call(Slot(top.splitter, top.next))
      BY <2>7, CallType
    <2>9. Append(Append(rest, after), next) \in Seq(Calls)
      BY <2>4, <2>6
    <2> QED BY <1>4, <2>3, <2>4, <2>8, <2>9
  <1>9. \/ UNCHANGED walk \/ walk' = NoWalk \/ NextTree \/ Descend
        \/ \E g \in Groups : Release(g)
        \/ walk.stack # <<>> /\ walk' = [walk EXCEPT !.stack = Popped]
    BY Zenon DEF Next, Press, VisitLeaf, VisitSplitter, ReadFreed, EndWalk,
       MenuPick, MenuCancel, MenuDrop, MenuCreate, ReloadSame, Reload
  <1> QED BY <1>1, <1>2, <1>3, <1>5, <1>7, <1>8, <1>9

DragKept ==
  /\ dragging' \subseteq Visualizers
  /\ \A v \in dragging' : v \in dragging \/ group[v] \in Groups
  /\ drag' \in [active : BOOLEAN, viz : Visualizers \cup {Nothing}, from : Groups \cup {Hidden}]
  /\ drag'.active => drag'.viz \in Visualizers

LEMMA DragTypes ==
  ASSUME Typed, Next
  PROVE  DragKept
  <1> USE DEF Typed, TypeOK, DragKept
  <1>1. CASE UNCHANGED <<dragging, drag>>
    BY <1>1
  <1>2. ASSUME NEW g \in Groups, Press(g) PROVE DragKept
    <2> DEFINE members == {v \in Visualizers : GroupsOf(child, v) # {} /\ group[v] = g}
    <2>1. \E hit \in SUBSET members : dragging' = (dragging \ members) \cup hit
      BY <1>2 DEF Press
    <2>2. drag' = drag
      BY <1>2 DEF Press
    <2> QED BY <2>1, <2>2
  <1>3. CASE VisitLeaf
    <2>1. drag' = drag /\ (dragging' = dragging \/ \E v : dragging' = dragging \ {v})
      BY <1>3, Zenon DEF VisitLeaf
    <2> QED BY <2>1
  <1>4. CASE dragging' = dragging /\ drag' = NoDrag
    BY <1>4 DEF NoDrag
  <1>5. ASSUME NEW v \in Visualizers, MenuPick(v) PROVE DragKept
    <2>1. dragging' = dragging
      BY <1>5 DEF MenuPick
    <2>2. PICK g \in IF GroupsOf(child, v) = {} THEN {Hidden} ELSE GroupsOf(child, v) :
            drag' = [active |-> TRUE, viz |-> v, from |-> g]
      BY <1>5 DEF MenuPick
    <2>3. g \in Groups \cup {Hidden}
      BY DEF GroupsOf
    <2> QED BY <2>1, <2>2, <2>3
  <1>6. \/ UNCHANGED <<dragging, drag>> \/ VisitLeaf
        \/ dragging' = dragging /\ drag' = NoDrag
        \/ \E g \in Groups : Press(g)
        \/ \E v \in Visualizers : MenuPick(v)
    BY Zenon DEF Next, Release, NextTree, Descend, VisitSplitter, ReadFreed, EndWalk,
       MenuCancel, MenuDrop, MenuCreate, ReloadSame, Reload
  <1> QED BY <1>1, <1>2, <1>3, <1>4, <1>5, <1>6

LEMMA CounterTypes ==
  ASSUME Typed, Next
  PROVE  /\ newWindowCounter' \in 1..MaxWindows + 1
         /\ running' \in BOOLEAN
  <1> USE DEF Typed, TypeOK
  <1>1. newWindowCounter' \in 1..MaxWindows + 1
    <2>1. CASE MenuCreate
      <3>1. PICK n \in newWindowCounter..MaxWindows : newWindowCounter' = n + 1
        BY <2>1 DEF MenuCreate, AfterKey
      <3> QED BY <3>1, LayoutAssumption
    <2>2. UNCHANGED newWindowCounter \/ MenuCreate
      BY Zenon DEF Next, Press, Release, NextTree, Descend, VisitLeaf, VisitSplitter,
         ReadFreed, EndWalk, MenuPick, MenuCancel, MenuDrop, ReloadSame, Reload
    <2> QED BY <2>1, <2>2
  <1>2. running' \in BOOLEAN
    <2>1. running' = running \/ running' = FALSE
      BY Zenon DEF Next, Press, Release, NextTree, Descend, VisitLeaf, VisitSplitter,
         ReadFreed, EndWalk, MenuPick, MenuCancel, MenuDrop, MenuCreate, ReloadSame, Reload
    <2> QED BY <2>1
  <1> QED BY <1>1, <1>2

LEMMA TypedStep ==
  ASSUME Typed, Next, Shape(child')
  PROVE  Typed'
  <1>1. GroupKept /\ windows' \in [Groups -> {"none", "open", "empty"}]
    BY WindowTypes
  <1>2. WalkKept
    BY WalkTypes
  <1>3. DragKept
    BY DragTypes
  <1>4. TypeOK'
    <2>1. child' \in [Places -> Nodes \cup {Nothing}]
      BY DEF Shape, Heap
    <2>2. \A s \in Seq(Calls) : s \in Seq(Frames)
      BY DEF Calls
    <2>3. /\ walk'.group \in Groups \cup {NoGroup} /\ walk'.hover \in Visualizers \cup {Nothing}
          /\ walk'.todo \subseteq Groups /\ walk'.stack \in Seq(Frames)
      BY <1>2, <2>2 DEF WalkKept, Walks
    <2> QED BY <1>1, <1>3, <2>1, <2>3, CounterTypes DEF TypeOK, GroupKept, DragKept
  <1>5. \A v \in dragging' : group'[v] \in Groups
    BY <1>1, <1>3 DEF Typed, GroupKept, DragKept
  <1> QED BY <1>2, <1>3, <1>4, <1>5 DEF Typed, WalkKept, DragKept
-----------------------------------------------------------------------------
(* The theorems *)

LEMMA TotalPlaces ==
  ASSUME NEW c, NEW w
  PROVE  Total(c, Hidden, w) = Cardinality({p \in Places : c[p] = w})
  BY GroupFacts DEF Total, Part, In

LEMMA InitLInv == Init => LInv
  <1> SUFFICES ASSUME Init PROVE LInv
    OBVIOUS
  <1>1. PICK v \in Visualizers : child = [p \in Places |-> IF p = Root(Main) THEN v ELSE Nothing]
    BY DEF Init
  <1>2. Root(Main) \in Places /\ \A g \in Groups : Root(g) = Root(Main) => g = Main
    BY PlaceFacts, GroupFacts
  <1>3. \A p \in Places : child[p] \notin Splitters
    BY <1>1, NodeFacts
  <1>4. Shape(child)
    <2>1. Heap(child)
      BY <1>1 DEF Heap, Nodes
    <2>2. OneHolder(child)
      BY <1>3 DEF OneHolder
    <2>3. TwoChildren(child)
      BY <1>1, <1>3, PlaceFacts, GroupFacts DEF TwoChildren, Held
    <2>4. Ranks(child, [s \in Splitters |-> 0])
      BY <1>3, PlaceFacts DEF Ranks
    <2> QED BY <2>1, <2>2, <2>3, <2>4 DEF Shape
  <1>6. WindowsFollow
    <2>1. \A g \in Groups \ {Main} : ~Exists(child, g)
      BY <1>1, <1>2, PlaceFacts DEF Exists
    <2> QED BY <2>1, GroupFacts DEF Init, WindowsFollow
  <1>7. Typed
    <2>1. /\ walk = NoWalk /\ NoWalk \in Walks /\ drag = NoDrag /\ dragging = {}
          /\ newWindowCounter = 1 /\ running = TRUE
          /\ windows \in [Groups -> {"none", "open", "empty"}]
          /\ group \in [Visualizers -> Groups \cup {NoGroup}]
      BY GroupFacts DEF Init, NoWalk, Walks
    <2>2. /\ drag \in [active : BOOLEAN, viz : Visualizers \cup {Nothing},
                       from : Groups \cup {Hidden}]
          /\ ~drag.active
      BY <2>1 DEF NoDrag
    <2>3. newWindowCounter \in 1..MaxWindows + 1
      BY <2>1, LayoutAssumption
    <2>4. /\ walk.group \in Groups \cup {NoGroup} /\ walk.hover \in Visualizers \cup {Nothing}
          /\ walk.todo \subseteq Groups /\ walk.stack \in Seq(Frames)
      BY <2>1 DEF NoWalk
    <2>5. TypeOK
      BY <1>4, <2>1, <2>2, <2>3, <2>4 DEF TypeOK, Shape, Heap
    <2> QED BY <2>1, <2>2, <2>5 DEF Typed
  <1> QED BY <1>4, <1>6, <1>7 DEF LInv

LEMMA StutterLInv == LInv /\ UNCHANGED vars => LInv'
  BY DEF LInv, Typed, TypeOK, WindowsFollow, Exists, vars

LEMMA LInvStep == LInv /\ [Next]_vars => LInv'
  <1>1. ASSUME LInv, Next PROVE LInv'
    <2>1. Shape(child')
      BY <1>1, LayoutStep
    <2>2. WindowsFollow'
      BY <1>1, WindowsStep
    <2>3. Typed'
      BY <1>1, <2>1, TypedStep DEF LInv
    <2> QED BY <2>1, <2>2, <2>3 DEF LInv
  <1> QED BY <1>1, StutterLInv

LEMMA LayoutInvariance == Spec => []LInv
  BY InitLInv, LInvStep, PTL DEF Spec

(* Every variable has the type that the code's declarations give it.         *)
THEOREM LayoutTypes == Spec => []TypeOK
  <1>1. LInv => TypeOK
    BY DEF LInv, Typed
  <1> QED BY <1>1, LayoutInvariance, PTL

(* Whatever is dragged, moved in the menu, hidden or read from the file, in   *)
(* any order, the heap is a set of trees: no splitter has two owners, none in *)
(* use lacks a child, and nothing is cut off from the windows.                *)
THEOREM TreesStayTrees == Spec => []TreeShape
  <1>1. ASSUME LInv PROVE TreeShape
    <2>1. PICK c : c = child /\ Shape(c)
      BY <1>1 DEF LInv
    <2>2. ASSUME NEW s \in Splitters
          PROVE  /\ Cardinality({p \in Places : c[p] = s}) <= 1
                 /\ \A side \in Sides : (c[Slot(s, side)] # Nothing) <=> Held(c, s)
      <3>1. \A side \in Sides : (c[Slot(s, side)] # Nothing) <=> Held(c, s)
        BY <2>1 DEF Shape, TwoChildren
      <3>2. CASE \E p \in Places : c[p] = s
        <4>1. PICK p \in Places : c[p] = s
          BY <3>2
        <4>2. {q \in Places : c[q] = s} = {p}
          BY <2>1, <4>1 DEF Shape, OneHolder
        <4> QED BY <3>1, <4>2, FS_Singleton
      <3>3. CASE ~\E p \in Places : c[p] = s
        <4>1. {q \in Places : c[q] = s} = {}
          BY <3>3
        <4> QED BY <3>1, <4>1, FS_EmptySet
      <3> QED BY <3>2, <3>3
    <2>3. {p \in Places : c[p] # Nothing} \subseteq UNION {Tree(c, g) : g \in Groups}
      BY <2>1, InSomeTree
    <2> QED BY <2>1, <2>2, <2>3 DEF TreeShape
  <1> QED BY <1>1, LayoutInvariance, PTL

(* "Only one instance of each visualizer ID may exist in the layout": a file   *)
(* may name one twice, but no drag, and no drop in the menu of a visualizer    *)
(* that is still where it was picked up, shows one more often than before      *)
(* unless it was shown nowhere, and whatever the file had doubled.             *)
THEOREM NoMoveDoubles == Spec => NeverDoubled
  <1>1. LInv /\ [Next]_vars =>
          [child' # child /\ (walk # NoWalk \/ (drag' # drag /\ ~OutOfDate)) =>
             \A v \in Visualizers :
               Copies(child', v) <= 1 \/ Copies(child', v) <= Copies(child, v)]_vars
    <2> SUFFICES ASSUME LInv, Next, child' # child,
                        walk # NoWalk \/ (drag' # drag /\ ~OutOfDate),
                        NEW v \in Visualizers
                 PROVE  Copies(child', v) <= 1 \/ Copies(child', v) <= Copies(child, v)
      BY Zenon
    <2>1. PICK c, d : c = child /\ d = child'
      OBVIOUS
    <2>2. Copies(c, v) = Total(c, Hidden, v) /\ Copies(d, v) = Total(d, Hidden, v)
      BY TotalPlaces DEF Copies
    <2>3. CASE walk # NoWalk
      <3>1. Shape(child) /\ Shape(child')
        BY LayoutStep DEF LInv
      <3>2. Total(d, Hidden, v) = Total(c, Hidden, v) /\ Total(c, Hidden, v) \in Nat
        BY <2>1, <2>3, <3>1, LayoutStep, TotalNat
      <3> QED BY <2>1, <2>2, <3>2
    <2>4. CASE drag' # drag /\ ~OutOfDate
      <3>1. NotMore(Total(d, Hidden, v), Total(c, Hidden, v))
        BY <2>1, <2>4, LayoutStep DEF NoneDoubled
      <3> QED BY <2>1, <2>2, <3>1 DEF NotMore
    <2> QED BY <2>3, <2>4
  <1> QED BY <1>1, LayoutInvariance, PTL DEF Spec, NeverDoubled

(* No SDL window stays open without a tree, and every tree has its entry.    *)
THEOREM WindowsFollowTrees == Spec => []WindowsFollow
  <1>1. LInv => WindowsFollow
    BY DEF LInv
  <1> QED BY <1>1, LayoutInvariance, PTL

(* A drop changes where the visualizers of a tree are, never which ones it   *)
(* shows: the dragged one is not lost between its removal and its insertion, *)
(* nor inserted twice.                                                       *)
THEOREM DropsKeepTrees == Spec => DragsKeep
  <1>1. LInv /\ [Next]_vars =>
          [walk # NoWalk /\ child' # child =>
             \A g \in Groups, v \in Visualizers :
               Cardinality(At(child', g, v)) = Cardinality(At(child, g, v))]_vars
    <2> SUFFICES ASSUME LInv, Next, walk # NoWalk, NEW g \in Groups, NEW v \in Visualizers
                 PROVE  Cardinality(At(child', g, v)) = Cardinality(At(child, g, v))
      BY Zenon
    <2>1. PICK c, d : c = child /\ d = child'
      OBVIOUS
    <2>2. Shape(c) /\ Shape(d) /\ Total(d, g, v) = Total(c, g, v)
      BY <2>1, LayoutStep DEF LInv
    <2>3. At(c, g, v) = In(c, Part(c, g), v) /\ At(d, g, v) = In(d, Part(d, g), v)
      BY <2>2, PartAt
    <2> QED BY <2>1, <2>2, <2>3 DEF Total
  <1> QED BY <1>1, LayoutInvariance, PTL DEF Spec, DragsKeep

-----------------------------------------------------------------------------
(* When a walk reads what was destroyed *)

(* Going on refers to nothing but what is there: the child that a call is made *)
(* for is in its place at that moment.                                         *)
LEMMA ReferredStep ==
  ASSUME Typed, Next
  PROVE  \A s \in Referred' : s \in Referred \/ (Held(child, s) /\ child' = child)
  <1> SUFFICES ASSUME NEW s \in Splitters, NEW i \in DOMAIN walk'.stack,
                      LET f == walk'.stack[i]
                      IN f.at[1] = s \/ (f.splitter = s /\ f.next # "visit")
               PROVE  s \in Referred \/ (Held(child, s) /\ child' = child)
    BY DEF Referred
  <1>1. CASE walk'.stack = walk.stack
    BY <1>1 DEF Referred
  <1>2. CASE walk'.stack = <<>>
    BY <1>2
  <1>3. ASSUME walk.stack # <<>>
        PROVE  /\ Len(walk.stack) \in DOMAIN walk.stack /\ Top = walk.stack[Len(walk.stack)]
               /\ walk.stack \in Seq(Calls) /\ Top \in Calls /\ Popped \in Seq(Calls)
               /\ Len(Popped) = Len(walk.stack) - 1
               /\ \A k \in DOMAIN Popped : k \in DOMAIN walk.stack /\ Popped[k] = walk.stack[k]
    <2>1. PICK stack \in Seq(Calls) : stack = walk.stack
      BY DEF Typed, Walks
    <2>2. Len(stack) \in 1..Len(stack)
      BY <1>3, <2>1
    <2>3. Popped = SubSeq(stack, 1, Len(stack) - 1) /\ Top = stack[Len(stack)]
      BY <2>1 DEF Popped, Front, Top, Last
    <2> QED BY <2>1, <2>2, <2>3
  <1>4. CASE walk.stack # <<>> /\ walk'.stack = Popped
    BY <1>3, <1>4 DEF Referred
  <1>5. CASE NextTree
    <2>1. PICK g \in Groups : walk'.stack = <<Call(Root(g))>>
      BY <1>5 DEF NextTree, Typed, Walks
    <2>2. walk'.stack[i] = Call(Root(g))
      BY <2>1
    <2>3. Call(Root(g)).at = Root(g) /\ Root(g)[1] \notin Splitters
      BY LayoutAssumption DEF Call, Root
    <2>4. Call(Root(g)).next # "visit" => Call(Root(g)).splitter = child[Root(g)]
      BY DEF Call
    <2> QED BY <1>5, <2>2, <2>3, <2>4, PlaceFacts DEF Held, NextTree
  <1>6. CASE Descend
    <2>1. PICK top, rest : top = Top /\ rest = Popped
      OBVIOUS
    <2>2. PICK after : after = [top EXCEPT !.next = IF @ = "primary" THEN "secondary" ELSE "visit"]
      OBVIOUS
    <2>3. PICK next : next = Call(Slot(top.splitter, top.next))
      OBVIOUS
    <2>4. /\ walk.stack # <<>> /\ top.next # "visit" /\ child' = child
          /\ walk'.stack = Append(Append(rest, after), next)
      <3>1. walk' = [walk EXCEPT !.stack = Append(Append(rest, after), next)]
        BY <1>6, <2>1, <2>2, <2>3 DEF Descend
      <3> QED BY <1>6, <2>1, <3>1 DEF Descend, Typed, Walks
    <2>5. top \in Calls /\ rest \in Seq(Calls)
      BY <1>3, <2>1, <2>4
    <2>6. top.next \in Sides /\ top.splitter \in Splitters
      BY <2>4, <2>5 DEF Calls, Frames
    <2>7. \/ i \in DOMAIN rest /\ walk'.stack[i] = rest[i]
          \/ walk'.stack[i] = after
          \/ walk'.stack[i] = next
      BY <2>4, <2>5
    <2>8. CASE i \in DOMAIN rest /\ walk'.stack[i] = rest[i]
      BY <1>3, <2>1, <2>4, <2>8 DEF Referred
    <2>9. CASE walk'.stack[i] = after
      <3>1. after.at = top.at /\ after.splitter = top.splitter
        BY <2>2, <2>5 DEF Calls, Frames
      <3> QED BY <1>3, <2>1, <2>4, <2>9, <3>1 DEF Referred
    <2>10. CASE walk'.stack[i] = next
      <3>1. PICK p \in Places : p = Slot(top.splitter, top.next) /\ p[1] = top.splitter
        BY <2>6, PlaceFacts
      <3>2. /\ next.at = p
            /\ next.next # "visit" => next.splitter = child[p]
        BY <2>3, <3>1 DEF Call
      <3>3. CASE s = top.splitter
        BY <1>3, <2>1, <2>4, <3>3 DEF Referred
      <3>4. CASE s # top.splitter
        BY <2>4, <2>10, <3>1, <3>2, <3>4 DEF Held
      <3> QED BY <3>3, <3>4
    <2> QED BY <2>7, <2>8, <2>9, <2>10
  <1>7. \/ UNCHANGED walk \/ walk' = NoWalk \/ NextTree \/ Descend
        \/ \E g \in Groups : Release(g)
        \/ walk.stack # <<>> /\ walk' = [walk EXCEPT !.stack = Popped]
    BY Zenon DEF Next, Press, VisitLeaf, VisitSplitter, ReadFreed, EndWalk,
       MenuPick, MenuCancel, MenuDrop, MenuCreate, ReloadSame, Reload
  <1>8. \A g \in Groups : Release(g) => walk'.stack = <<>>
    BY DEF Release
  <1>9. walk' = [walk EXCEPT !.stack = Popped] => walk'.stack = Popped
    BY DEF Typed, Walks
  <1> QED BY <1>1, <1>2, <1>4, <1>5, <1>6, <1>7, <1>8, <1>9 DEF NoWalk

(* While a walk goes on, only a drop changes the trees. *)
LEMMA WalkChanges ==
  ASSUME Next, walk.stack # <<>>, child' # child
  PROVE  VisitLeaf
  <1>1. walk # NoWalk
    BY DEF NoWalk
  <1> QED BY <1>1, Zenon DEF Next, Press, Release, NextTree, Descend, VisitSplitter, ReadFreed,
             EndWalk, MenuPick, Reload, MenuDrop, MenuCreate, MenuCancel, ReloadSame, Idle

(* walkTree reads a destroyed splitter only after a drop in the same event    *)
(* destroyed one that it had not left yet, and that one is the splitter the   *)
(* dragged visualizer was a child of: a release ends well if no visualizer    *)
(* that is dragged hangs directly below a splitter still to be read.          *)
THEOREM OnlyDropsBreakWalks == Spec => OnlyDropsBreak /\ [](WalkIntact => WalkIsSafe)
  <1>1. LInv /\ [Next]_vars =>
          [WalkIntact /\ ~WalkIntact' =>
             \E s \in Referred, side \in Sides :
                /\ child[Slot(s, side)] \in dragging
                /\ Held(child, s) /\ ~Held(child', s)]_vars
    <2> SUFFICES ASSUME LInv, Next, WalkIntact, ~WalkIntact'
                 PROVE  \E s \in Referred, side \in Sides :
                           /\ child[Slot(s, side)] \in dragging
                           /\ Held(child, s) /\ ~Held(child', s)
      BY Zenon
    <2>1. Typed /\ Shape(child)
      BY DEF LInv
    <2>2. PICK s \in Referred' : ~Held(child', s)
      BY DEF WalkIntact
    <2>3. s \in Referred
      BY <2>1, <2>2, ReferredStep
    <2>4. s \in Splitters /\ Held(child, s) /\ walk.stack # <<>> /\ child' # child
      BY <2>2, <2>3 DEF Referred, WalkIntact
    <2>5. VisitLeaf
      BY <2>4, WalkChanges
    <2>6. PICK v \in dragging : Frees(child, child', v)
      BY <2>1, <2>4, <2>5, VisitLeafKeeps
    <2> QED BY <2>2, <2>3, <2>4, <2>6 DEF Frees
  <1>2. LInv /\ WalkIntact => WalkIsSafe
    <2> SUFFICES ASSUME Typed, WalkIntact, walk.stack # <<>> PROVE ~ReadsFreed
      BY DEF LInv, WalkIsSafe
    <2>1. PICK stack \in Seq(Calls) : stack = walk.stack
      BY DEF Typed, Walks
    <2>2. Len(stack) \in DOMAIN walk.stack /\ Top = walk.stack[Len(stack)] /\ Top \in Calls
      BY <2>1 DEF Top, Last
    <2>3. CASE Top.next = "visit"
      BY <2>2, <2>3 DEF ReadsFreed, WalkIntact, Referred
    <2>4. CASE Top.next # "visit"
      BY <2>2, <2>4 DEF ReadsFreed, WalkIntact, Referred, Calls
    <2> QED BY <2>3, <2>4
  <1> QED BY <1>1, <1>2, LayoutInvariance, PTL DEF Spec, OnlyDropsBreak

=============================================================================
