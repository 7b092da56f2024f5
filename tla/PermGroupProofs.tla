--------------------------- MODULE PermGroupProofs ---------------------------
(***************************************************************************)
(* That phy_perm_group_build_bsgs is right: for every degree, every list   *)
(* of signed generators and all limits, a group that is built answers for  *)
(* exactly the products of its generators, and nothing that a build, a     *)
(* pass or an abandoned one leaves behind is outside of them.              *)
(*                                                                         *)
(* Each loop is a fold whose states have what it maintains; the argument   *)
(* that sifting decides membership is Schreier's, one level of the chain   *)
(* after the other from the last one up.                                   *)
(***************************************************************************)
EXTENDS PermGroup, TLAPS, FiniteSetTheorems, FunctionTheorems, NaturalsInduction, WellFoundedInduction

-----------------------------------------------------------------------------
(* Numbers and loops *)

Less == {p \in Nat \X Nat : p[1] < p[2]}

\* There is no endless descent among numbers.
LEMMA LessIsWellFounded == IsWellFoundedOn(Less, Nat)
  BY NatLessThanWellFounded DEF OpToRel, Less

\* A non-empty set of numbers has a least one.
LEMMA Least ==
  ASSUME NEW T, T \subseteq Nat, T # {}
  PROVE  \E x \in T : \A y \in T : x <= y
<1>1. \E x \in T : \A y \in T : <<y, x>> \notin Less
  BY LessIsWellFounded, WFMin
<1>2. \A x, y \in T : <<y, x>> \in Less <=> y < x
  BY DEF Less
<1>3. PICK x \in T : \A y \in T : ~(y < x)
  BY <1>1, <1>2
<1>4. ASSUME NEW y \in T PROVE x <= y
  <2>1. x \in Nat /\ y \in Nat /\ ~(y < x)
    BY <1>3
  <2> QED BY <2>1
<1> QED
  BY <1>4

\* What holds at m and from one place to the next holds as far as n.
LEMMA Along ==
  ASSUME NEW m \in Nat, NEW n \in Nat, NEW P, m \in P,
         \A i \in m + 1 .. n : i - 1 \in P => i \in P
  PROVE  \A i \in m .. n : i \in P
<1> DEFINE T == {i \in m .. n : i \notin P}
<1>1. SUFFICES ASSUME T # {} PROVE FALSE
  OBVIOUS
<1>2. PICK i \in T : \A y \in T : i <= y
  <2>1. T \subseteq Nat
    OBVIOUS
  <2> QED BY <1>1, <2>1, Least
<1>3. i \in m + 1 .. n /\ i - 1 \in m .. n /\ i - 1 \notin T
  BY <1>2
<1> QED
  BY <1>3

\* The same on the way down.
LEMMA Downward ==
  ASSUME NEW n \in Nat, NEW P, n \in P, \A i \in 0 .. n - 1 : i + 1 \in P => i \in P
  PROVE  \A i \in 0 .. n : i \in P
<1> DEFINE Q == {k \in 0 .. n : n - k \in P}
<1>1. 0 \in Q
  <2>1. 0 \in 0 .. n /\ n - 0 = n
    OBVIOUS
  <2> QED BY <2>1
<1>2. ASSUME NEW k \in 0 + 1 .. n, k - 1 \in Q PROVE k \in Q
  <2>1. n - k \in 0 .. n - 1 /\ (n - k) + 1 = n - (k - 1)
    OBVIOUS
  <2> QED BY <1>2, <2>1
<1>3. \A k \in 0 .. n : k \in Q
  <2> HIDE DEF Q
  <2> QED BY <1>1, <1>2, Along
<1>4. ASSUME NEW i \in 0 .. n PROVE i \in P
  <2>1. n - i \in 0 .. n /\ n - (n - i) = i
    OBVIOUS
  <2> QED BY <1>3, <2>1
<1> QED
  BY <1>4

\* A loop whose rounds, told by F, lead from states in S to states in S has a
\* trace of such states.
Iterates(s, zero, F, m, n) == s = [i \in m .. n |-> IF i = m THEN zero ELSE F[<<s[i - 1], i>>]]

\* For a step that stays within S there is a trace of its states, all in S.
LEMMA IteratesExist ==
  ASSUME NEW S, NEW zero \in S, NEW m \in Nat, NEW n \in Nat, m <= n,
         NEW F \in [S \X (m + 1 .. n) -> S]
  PROVE  \E s \in [m .. n -> S] : Iterates(s, zero, F, m, n)
<1> DEFINE P == {k \in m .. n : \E s \in [m .. k -> S] : Iterates(s, zero, F, m, k)}
<1>1. m \in P
  <2> DEFINE s == [i \in m .. m |-> zero]
  <2>1. s = [i \in m .. m |-> IF i = m THEN zero ELSE F[<<s[i - 1], i>>]]
    OBVIOUS
  <2>2. s \in [m .. m -> S]
    OBVIOUS
  <2> HIDE DEF s
  <2>3. Iterates(s, zero, F, m, m)
    BY <2>1 DEF Iterates
  <2> QED BY <2>2, <2>3
<1>2. ASSUME NEW k \in m + 1 .. n, k - 1 \in P PROVE k \in P
  <2>1. PICK s \in [m .. k - 1 -> S] : Iterates(s, zero, F, m, k - 1)
    BY <1>2
  <2>2. s[k - 1] \in S /\ F[<<s[k - 1], k>>] \in S
    <3>1. k - 1 \in m .. k - 1
      OBVIOUS
    <3> QED BY <3>1
  <2> DEFINE u == [i \in m .. k |-> IF i = k THEN F[<<s[k - 1], k>>] ELSE s[i]]
             v == [i \in m .. k |-> IF i = m THEN zero ELSE F[<<u[i - 1], i>>]]
  <2>3. ASSUME NEW i \in m .. k - 1 PROVE s[i] = IF i = m THEN zero ELSE F[<<s[i - 1], i>>]
    <3>1. s = [j \in m .. k - 1 |-> IF j = m THEN zero ELSE F[<<s[j - 1], j>>]]
      BY <2>1 DEF Iterates
    <3> QED BY <3>1
  <2>4. ASSUME NEW i \in m .. k PROVE u[i] = v[i] /\ u[i] \in S
    <3>1. CASE i = k
      <4>1. k \in m .. k /\ k - 1 \in m .. k /\ k # m
        OBVIOUS
      <4>2. u[k] = F[<<s[k - 1], k>>] /\ u[k - 1] = s[k - 1]
        BY <4>1
      <4>3. v[k] = F[<<u[k - 1], k>>]
        BY <4>1
      <4> HIDE DEF u, v
      <4> QED BY <3>1, <4>2, <4>3, <2>2
    <3>2. CASE i # k /\ i # m
      <4>1. i \in m .. k - 1 /\ i - 1 \in m .. k /\ i - 1 # k
        BY <3>2
      <4>2. u[i] = s[i] /\ u[i - 1] = s[i - 1] /\ v[i] = F[<<u[i - 1], i>>]
        BY <3>2, <4>1
      <4> HIDE DEF u, v
      <4> QED BY <3>2, <4>1, <4>2, <2>3
    <3>3. CASE i # k /\ i = m
      <4>1. i \in m .. k - 1
        BY <3>3
      <4>2. s[i] = zero
        BY <2>3, <4>1, <3>3
      <4>3. u[i] = s[i] /\ v[i] = zero
        BY <3>3
      <4> QED BY <4>2, <4>3
    <3> QED BY <3>1, <3>2, <3>3
  <2>5. u = [i \in m .. k |-> u[i]] /\ v = [i \in m .. k |-> v[i]]
    OBVIOUS
  <2>6. u = v /\ u \in [m .. k -> S]
    <3> HIDE DEF u, v
    <3> QED BY <2>4, <2>5
  <2>7. Iterates(u, zero, F, m, k)
    <3> HIDE DEF u
    <3> QED BY <2>6 DEF Iterates
  <2> HIDE DEF u, v
  <2>8. k \in m .. n
    OBVIOUS
  <2>9. \E w \in [m .. k -> S] : Iterates(w, zero, F, m, k)
    BY <2>6, <2>7
  <2> QED BY <2>8, <2>9
<1>3. n \in P
  <2> HIDE DEF P
  <2>1. n \in m .. n
    OBVIOUS
  <2> QED BY <1>1, <1>2, <2>1, Along
<1> QED
  BY <1>3

\* Evaluated is the value.
LEMMA EvaluatedIs == \A v : Evaluated(v) = v
  BY DEF Evaluated

-----------------------------------------------------------------------------
(* Permutations *)

\* As many points as the degree says.
LEMMA PointsAre ==
  /\ IsFiniteSet(Points) /\ Cardinality(Points) = Degree /\ 0 \in Points
  /\ Points \subseteq Nat /\ \A p \in Points : p + 1 \in 0 .. Degree /\ p < Degree
<1>1. 0 \in Int /\ Degree - 1 \in Int
  BY DegreeAssumption
<1>2. IsFiniteSet(Points) /\ Cardinality(Points) = IF 0 > Degree - 1 THEN 0 ELSE (Degree - 1) - 0 + 1
  BY <1>1, FS_Interval DEF Points
<1> QED
  BY <1>2, DegreeAssumption DEF Points

\* A permutation takes some point everywhere.
LEMMA ValidCovers ==
  ASSUME NEW f, Valid(f), NEW j \in Points
  PROVE  \E i \in Points : f[i] = j
<1>1. f \in Injection(Points, Points)
  BY Fun_IsInj DEF Valid
<1>2. f \in Surjection(Points, Points)
  BY <1>1, PointsAre, FS_Injection
<1> QED
  BY <1>2, Fun_SurjectionProperties

\* phy_permutation_identity.
LEMMA IdentityIs == Valid(Identity) /\ \A i \in Points : Identity[i] = i
  BY DEF Valid, Identity

\* phy_permutation_compose.
LEMMA ComposeIs ==
  ASSUME NEW f, NEW g, Valid(f), Valid(g)
  PROVE  Valid(Compose(f, g)) /\ \A i \in Points : Compose(f, g)[i] = f[g[i]]
<1>1. \A i \in Points : Compose(f, g)[i] = f[g[i]] /\ g[i] \in Points /\ f[g[i]] \in Points
  BY DEF Compose, Valid
<1>2. Compose(f, g) \in [Points -> Points]
  BY <1>1 DEF Compose
<1> QED
  BY <1>1, <1>2 DEF Valid

\* phy_permutation_inverse.
LEMMA InverseIs ==
  ASSUME NEW f, Valid(f)
  PROVE  /\ Valid(InverseOf(f))
         /\ \A i \in Points : f[InverseOf(f)[i]] = i /\ InverseOf(f)[f[i]] = i
<1>1. ASSUME NEW i \in Points
      PROVE  InverseOf(f)[i] \in Points /\ f[InverseOf(f)[i]] = i
  <2>1. \E j \in Points : f[j] = i
    BY ValidCovers
  <2>2. InverseOf(f)[i] = CHOOSE j \in Points : f[j] = i
    BY DEF InverseOf
  <2> QED BY <2>1, <2>2
<1>2. InverseOf(f) \in [Points -> Points]
  BY <1>1 DEF InverseOf
<1>3. ASSUME NEW i \in Points, NEW j \in Points, InverseOf(f)[i] = InverseOf(f)[j]
      PROVE  i = j
  BY <1>1, <1>3
<1>4. ASSUME NEW i \in Points PROVE InverseOf(f)[f[i]] = i
  <2>1. f[i] \in Points
    BY DEF Valid
  <2>2. InverseOf(f)[f[i]] \in Points /\ f[InverseOf(f)[f[i]]] = f[i]
    BY <1>1, <2>1
  <2> QED BY <2>2 DEF Valid
<1> QED
  BY <1>1, <1>2, <1>3, <1>4 DEF Valid

\* Permutations that agree everywhere are one.
LEMMA SameImages ==
  ASSUME NEW f, NEW g, Valid(f), Valid(g), \A i \in Points : f[i] = g[i]
  PROVE  f = g
  BY DEF Valid

\* A signed permutation is its image and its sign.
LEMMA SignedIs ==
  /\ \A x \in SignedPermutations : Valid(x.image) /\ x.sign \in {-1, 1}
  /\ \A f, s : Valid(f) /\ s \in {-1, 1} => [image |-> f, sign |-> s] \in SignedPermutations
  /\ \A x, y \in SignedPermutations : x.image = y.image /\ x.sign = y.sign => x = y
<1>1. \A f : f \in {h \in [Points -> Points] : Valid(h)} <=> Valid(f)
  BY DEF Valid
<1>2. \A x, y \in SignedPermutations : x.image = y.image /\ x.sign = y.sign => x = y
  BY DEF SignedPermutations
<1> QED
  BY <1>1, <1>2 DEF SignedPermutations, Signs

\* Equal where it counts.
LEMMA SameSigned ==
  ASSUME NEW x \in SignedPermutations, NEW y \in SignedPermutations,
         x.sign = y.sign, \A i \in Points : x.image[i] = y.image[i]
  PROVE  x = y
  BY SignedIs, SameImages

\* The product of two.
LEMMA FollowIs ==
  ASSUME NEW x \in SignedPermutations, NEW y \in SignedPermutations
  PROVE  /\ Follow(x, y) \in SignedPermutations
         /\ Follow(x, y).sign = x.sign * y.sign
         /\ Follow(x, y).image = Compose(x.image, y.image)
         /\ \A i \in Points : Follow(x, y).image[i] = x.image[y.image[i]] /\ y.image[i] \in Points
<1>1. Valid(x.image) /\ Valid(y.image) /\ x.sign \in {-1, 1} /\ y.sign \in {-1, 1}
  BY SignedIs
<1>2. x.sign * y.sign \in {-1, 1}
  BY <1>1
<1>3. Valid(Compose(x.image, y.image)) /\ \A i \in Points : Compose(x.image, y.image)[i] = x.image[y.image[i]]
  BY <1>1, ComposeIs
<1> QED
  BY <1>1, <1>2, <1>3, SignedIs DEF Follow, Valid

\* What undoes an element.
Undo(x) == [image |-> InverseOf(x.image), sign |-> x.sign]

\* An element undone is a signed permutation of the same sign; either of the
\* two takes every point back to where the other found it.
LEMMA UndoIs ==
  ASSUME NEW x \in SignedPermutations
  PROVE  /\ Undo(x) \in SignedPermutations
         /\ Undo(x).sign = x.sign
         /\ \A i \in Points : /\ Undo(x).image[i] \in Points /\ x.image[i] \in Points
                              /\ x.image[Undo(x).image[i]] = i /\ Undo(x).image[x.image[i]] = i
<1>1. Valid(x.image) /\ x.sign \in {-1, 1}
  BY SignedIs
<1>2. Valid(InverseOf(x.image))
  BY <1>1, InverseIs
<1> QED
  BY <1>1, <1>2, InverseIs, SignedIs DEF Undo, Valid

\* The two elements that move nothing.
LEMMA UnitsAre ==
  /\ Unit \in SignedPermutations /\ MinusUnit \in SignedPermutations
  /\ Unit.sign = 1 /\ MinusUnit.sign = -1
  /\ \A i \in Points : Unit.image[i] = i /\ MinusUnit.image[i] = i
  BY IdentityIs, SignedIs DEF Unit, MinusUnit

\* Signed permutations are a group under Follow.
LEMMA GroupLaws ==
  ASSUME NEW x \in SignedPermutations, NEW y \in SignedPermutations, NEW z \in SignedPermutations
  PROVE  /\ Follow(Follow(x, y), z) = Follow(x, Follow(y, z))
         /\ Follow(Unit, x) = x /\ Follow(x, Unit) = x
         /\ Follow(x, Undo(x)) = Unit /\ Follow(Undo(x), x) = Unit
<1>1. /\ Follow(x, y) \in SignedPermutations /\ Follow(y, z) \in SignedPermutations
      /\ Undo(x) \in SignedPermutations /\ Unit \in SignedPermutations
  BY FollowIs, UndoIs, UnitsAre
<1>2. x.sign \in {-1, 1} /\ y.sign \in {-1, 1} /\ z.sign \in {-1, 1}
  BY SignedIs
<1>3. Follow(Follow(x, y), z) = Follow(x, Follow(y, z))
  <2>1. /\ Follow(Follow(x, y), z) \in SignedPermutations /\ Follow(x, Follow(y, z)) \in SignedPermutations
        /\ Follow(Follow(x, y), z).sign = x.sign * y.sign * z.sign
        /\ Follow(x, Follow(y, z)).sign = x.sign * (y.sign * z.sign)
    BY <1>1, FollowIs
  <2>2. x.sign * y.sign * z.sign = x.sign * (y.sign * z.sign)
    BY <1>2
  <2>3. \A i \in Points : Follow(Follow(x, y), z).image[i] = Follow(x, Follow(y, z)).image[i]
    BY <1>1, FollowIs
  <2> QED BY <2>1, <2>2, <2>3, SameSigned
<1>4. Follow(Unit, x) = x /\ Follow(x, Unit) = x
  <2>1. /\ Follow(Unit, x) \in SignedPermutations /\ Follow(x, Unit) \in SignedPermutations
        /\ Follow(Unit, x).sign = x.sign /\ Follow(x, Unit).sign = x.sign
    BY <1>1, <1>2, FollowIs, UnitsAre
  <2>2. \A i \in Points : Follow(Unit, x).image[i] = x.image[i] /\ Follow(x, Unit).image[i] = x.image[i]
    BY <1>1, FollowIs, UnitsAre
  <2> QED BY <2>1, <2>2, SameSigned
<1>5. Follow(x, Undo(x)) = Unit /\ Follow(Undo(x), x) = Unit
  <2>1. /\ Follow(x, Undo(x)) \in SignedPermutations /\ Follow(Undo(x), x) \in SignedPermutations
        /\ Follow(x, Undo(x)).sign = 1 /\ Follow(Undo(x), x).sign = 1
    BY <1>1, <1>2, FollowIs, UndoIs
  <2>2. \A i \in Points : Follow(x, Undo(x)).image[i] = i /\ Follow(Undo(x), x).image[i] = i
    BY <1>1, FollowIs, UndoIs
  <2> QED BY <2>1, <2>2, <1>1, UnitsAre, SameSigned
<1> QED
  BY <1>3, <1>4, <1>5

-----------------------------------------------------------------------------
(* Products *)

\* There are finitely many signed permutations of so many points.
LEMMA SignedAreFinite == IsFiniteSet(SignedPermutations)
<1> DEFINE T == SUBSET ((0 .. Degree) \X Points)
           Drawn(x) == {<<i, x.image[i]>> : i \in Points} \cup (IF x.sign = 1 THEN {<<Degree, 0>>} ELSE {})
           Graph == [x \in SignedPermutations |-> Drawn(x)]
<1>1. IsFiniteSet(T)
  <2>1. IsFiniteSet(0 .. Degree)
    BY DegreeAssumption, FS_Interval
  <2>2. IsFiniteSet((0 .. Degree) \X Points)
    BY <2>1, PointsAre, FS_Product
  <2> QED BY <2>2, FS_SUBSET
<1>2. Graph \in [SignedPermutations -> T]
  <2>1. ASSUME NEW x \in SignedPermutations PROVE Drawn(x) \in T
    <3>1. \A i \in Points : x.image[i] \in Points /\ i \in 0 .. Degree
      BY SignedIs, DegreeAssumption DEF Valid, Points
    <3>2. Degree \in 0 .. Degree /\ 0 \in Points
      BY PointsAre, DegreeAssumption
    <3> QED BY <3>1, <3>2
  <2> HIDE DEF Drawn, T
  <2> QED BY <2>1
<1>3. ASSUME NEW x \in SignedPermutations, NEW y \in SignedPermutations, Graph[x] = Graph[y]
      PROVE  x = y
  <2>1. Drawn(x) = Drawn(y)
    <3> HIDE DEF Drawn
    <3> QED BY <1>3
  <2>2. Degree \notin Points
    BY PointsAre, DegreeAssumption
  <2>3. ASSUME NEW z \in SignedPermutations
        PROVE  /\ z.sign = 1 <=> <<Degree, 0>> \in Drawn(z)
               /\ \A i \in Points : \A j : <<i, j>> \in Drawn(z) <=> j = z.image[i]
    BY <2>2
  <2> HIDE DEF Drawn
  <2>4. \A i \in Points : x.image[i] = y.image[i]
    BY <2>1, <2>3
  <2>5. x.sign = y.sign
    BY <2>1, <2>3, SignedIs
  <2> QED BY <2>4, <2>5, SameSigned
<1>4. Graph \in Injection(SignedPermutations, T)
  <2> HIDE DEF Graph, T
  <2> QED BY <1>2, <1>3, Fun_IsInj
<1> QED
  <2> HIDE DEF Graph, T
  <2> QED BY <1>1, <1>4, FS_Injection

\* Unit is in the set, and the generators keep to it.
Absorbs(H, gens) == Unit \in H /\ \A g \in gens, e \in H : Follow(g, e) \in H

\* Every product of generators, with its sign.
Products(gens) ==
    {x \in SignedPermutations : \A H \in SUBSET SignedPermutations : Absorbs(H, gens) => x \in H}

\* They absorb their generators, and are the least set that does.
LEMMA ProductsAre ==
  ASSUME NEW gens \in SUBSET SignedPermutations
  PROVE  /\ Products(gens) \subseteq SignedPermutations
         /\ Absorbs(Products(gens), gens)
         /\ \A H \in SUBSET SignedPermutations : Absorbs(H, gens) => Products(gens) \subseteq H
         /\ gens \subseteq Products(gens)
<1>1. Products(gens) \subseteq SignedPermutations
  BY DEF Products
<1>2. Unit \in Products(gens)
  BY UnitsAre DEF Products, Absorbs
<1>3. ASSUME NEW g \in gens, NEW e \in Products(gens) PROVE Follow(g, e) \in Products(gens)
  <2>1. Follow(g, e) \in SignedPermutations
    BY <1>1, FollowIs
  <2>2. ASSUME NEW H \in SUBSET SignedPermutations, Absorbs(H, gens) PROVE Follow(g, e) \in H
    BY <2>2 DEF Absorbs, Products
  <2> QED BY <2>1, <2>2 DEF Products
<1>4. gens \subseteq Products(gens)
  <2> SUFFICES ASSUME NEW g \in gens PROVE g \in Products(gens)
    OBVIOUS
  <2>1. Follow(g, Unit) = g
    BY GroupLaws
  <2> QED BY <1>2, <1>3, <2>1
<1>5. \A H \in SUBSET SignedPermutations : Absorbs(H, gens) => Products(gens) \subseteq H
  BY DEF Products
<1> QED
  BY <1>1, <1>2, <1>3, <1>4, <1>5 DEF Absorbs

\* A product of products is one.
LEMMA ProductsMultiply ==
  ASSUME NEW gens \in SUBSET SignedPermutations, NEW x \in Products(gens), NEW y \in Products(gens)
  PROVE  Follow(x, y) \in Products(gens)
<1> DEFINE H == {e \in Products(gens) : Follow(e, y) \in Products(gens)}
<1>1. x \in SignedPermutations /\ y \in SignedPermutations /\ H \in SUBSET SignedPermutations
  BY ProductsAre
<1>2. Unit \in H
  <2>1. Follow(Unit, y) = y
    BY <1>1, GroupLaws
  <2> QED BY <2>1, ProductsAre DEF Absorbs
<1>3. ASSUME NEW g \in gens, NEW e \in H PROVE Follow(g, e) \in H
  <2>1. e \in SignedPermutations /\ g \in SignedPermutations
    BY <1>1
  <2>2. Follow(Follow(g, e), y) = Follow(g, Follow(e, y))
    BY <1>1, <2>1, GroupLaws
  <2>3. Follow(g, Follow(e, y)) \in Products(gens) /\ Follow(g, e) \in Products(gens)
    BY ProductsAre DEF Absorbs
  <2> QED BY <2>2, <2>3
<1>4. Products(gens) \subseteq H
  <2>1. Absorbs(H, gens)
    BY <1>2, <1>3 DEF Absorbs
  <2> HIDE DEF H
  <2> QED BY <1>1, <2>1, ProductsAre
<1> QED
  BY <1>4

\* What undoes a generator is a product of generators: multiplying by it leads
\* from the products to all products.
LEMMA GeneratorsUndo ==
  ASSUME NEW gens \in SUBSET SignedPermutations, NEW g \in gens
  PROVE  Undo(g) \in Products(gens)
<1> DEFINE P == Products(gens)
           F == [e \in P |-> Follow(g, e)]
<1>1. P \subseteq SignedPermutations /\ g \in SignedPermutations
  BY ProductsAre
<1>2. F \in [P -> P]
  BY ProductsAre DEF Absorbs
<1>3. ASSUME NEW a \in P, NEW b \in P, F[a] = F[b] PROVE a = b
  <2>1. a \in SignedPermutations /\ b \in SignedPermutations /\ Undo(g) \in SignedPermutations
    BY <1>1, UndoIs
  <2>2. Follow(Undo(g), Follow(g, a)) = a /\ Follow(Undo(g), Follow(g, b)) = b
    BY <1>1, <2>1, GroupLaws
  <2> QED BY <1>3, <2>2
<1>4. F \in Surjection(P, P)
  <2> HIDE DEF P, F
  <2>1. F \in Injection(P, P)
    BY <1>2, <1>3, Fun_IsInj
  <2>2. IsFiniteSet(P)
    BY <1>1, SignedAreFinite, FS_Subset
  <2> QED BY <2>1, <2>2, FS_Injection
<1>5. PICK e \in P : F[e] = Unit
  <2>1. Unit \in P
    BY ProductsAre DEF Absorbs
  <2> HIDE DEF P, F
  <2> QED BY <1>4, <2>1, Fun_SurjectionProperties
<1>6. e = Undo(g)
  <2>1. e \in SignedPermutations /\ Undo(g) \in SignedPermutations /\ Follow(g, e) = Unit
    BY <1>1, <1>5, UndoIs
  <2>2. Follow(Undo(g), Follow(g, e)) = e /\ Follow(Undo(g), Unit) = Undo(g)
    <3>1. Follow(Follow(Undo(g), g), e) = Follow(Undo(g), Follow(g, e))
      BY <1>1, <2>1, GroupLaws
    <3>2. Follow(Undo(g), g) = Unit /\ Follow(Unit, e) = e /\ Follow(Undo(g), Unit) = Undo(g)
      BY <1>1, <2>1, GroupLaws
    <3> QED BY <3>1, <3>2
  <2> QED BY <2>1, <2>2
<1> QED
  BY <1>6

\* Undoing comes in the other order.
LEMMA UndoFollow ==
  ASSUME NEW x \in SignedPermutations, NEW y \in SignedPermutations
  PROVE  Undo(Follow(x, y)) = Follow(Undo(y), Undo(x)) /\ Undo(Unit) = Unit /\ Undo(Undo(x)) = x
<1>1. /\ Undo(x) \in SignedPermutations /\ Undo(y) \in SignedPermutations /\ Unit \in SignedPermutations
      /\ Follow(x, y) \in SignedPermutations /\ Undo(Unit) \in SignedPermutations
      /\ Undo(Follow(x, y)) \in SignedPermutations /\ Follow(Undo(y), Undo(x)) \in SignedPermutations
      /\ Undo(Undo(x)) \in SignedPermutations
  BY FollowIs, UndoIs, UnitsAre
<1>2. x.sign \in {-1, 1} /\ y.sign \in {-1, 1}
  BY SignedIs
<1>3. Undo(Follow(x, y)) = Follow(Undo(y), Undo(x))
  <2>1. Undo(Follow(x, y)).sign = Follow(Undo(y), Undo(x)).sign
    <3>1. Undo(Follow(x, y)).sign = x.sign * y.sign /\ Follow(Undo(y), Undo(x)).sign = y.sign * x.sign
      BY <1>1, FollowIs, UndoIs
    <3> QED BY <3>1, <1>2
  <2>2. ASSUME NEW i \in Points
        PROVE  Undo(Follow(x, y)).image[i] = Follow(Undo(y), Undo(x)).image[i]
    <3> DEFINE j == Undo(Follow(x, y)).image[i]
    <3>1. j \in Points /\ Follow(x, y).image[j] = i
      BY <1>1, UndoIs
    <3>2. x.image[y.image[j]] = i /\ y.image[j] \in Points
      BY <3>1, FollowIs
    <3>3. Undo(x).image[i] = y.image[j]
      BY <3>2, UndoIs
    <3>4. Undo(y).image[y.image[j]] = j
      BY <3>1, UndoIs
    <3>5. Follow(Undo(y), Undo(x)).image[i] = Undo(y).image[Undo(x).image[i]]
      BY <1>1, FollowIs
    <3> QED BY <3>3, <3>4, <3>5
  <2> QED BY <1>1, <2>1, <2>2, SameSigned
<1>4. Undo(Unit) = Unit
  <2>1. Undo(Unit).sign = Unit.sign /\ \A i \in Points : Undo(Unit).image[i] = Unit.image[i]
    BY <1>1, UndoIs, UnitsAre
  <2> QED BY <1>1, <2>1, SameSigned
<1>5. Undo(Undo(x)) = x
  <2>1. Undo(Undo(x)).sign = x.sign
    BY <1>1, UndoIs
  <2>2. ASSUME NEW i \in Points PROVE Undo(Undo(x)).image[i] = x.image[i]
    <3>1. x.image[i] \in Points /\ Undo(x).image[x.image[i]] = i
      BY UndoIs
    <3> QED BY <3>1, <1>1, UndoIs
  <2> QED BY <1>1, <2>1, <2>2, SameSigned
<1> QED
  BY <1>3, <1>4, <1>5

\* So is what undoes a product: products of generators are a group.
LEMMA ProductsUndo ==
  ASSUME NEW gens \in SUBSET SignedPermutations, NEW x \in Products(gens)
  PROVE  Undo(x) \in Products(gens)
<1> DEFINE H == {e \in Products(gens) : Undo(e) \in Products(gens)}
<1>1. Products(gens) \subseteq SignedPermutations /\ H \in SUBSET SignedPermutations
  BY ProductsAre
<1>2. Unit \in H
  BY ProductsAre, UndoFollow, UnitsAre DEF Absorbs
<1>3. ASSUME NEW g \in gens, NEW e \in H PROVE Follow(g, e) \in H
  <2>1. e \in SignedPermutations /\ g \in SignedPermutations
    BY <1>1
  <2>2. Undo(Follow(g, e)) = Follow(Undo(e), Undo(g))
    BY <2>1, UndoFollow
  <2>3. Follow(Undo(e), Undo(g)) \in Products(gens)
    BY GeneratorsUndo, ProductsMultiply
  <2>4. Follow(g, e) \in Products(gens)
    BY ProductsAre DEF Absorbs
  <2> QED BY <2>2, <2>3, <2>4
<1>4. Products(gens) \subseteq H
  <2>1. Absorbs(H, gens)
    BY <1>2, <1>3 DEF Absorbs
  <2> HIDE DEF H
  <2> QED BY <1>1, <2>1, ProductsAre
<1> QED
  BY <1>4

\* Generators that are products of others make no more than those.
LEMMA ProductsWithin ==
  ASSUME NEW gens \in SUBSET SignedPermutations, NEW more \in SUBSET SignedPermutations,
         gens \subseteq Products(more)
  PROVE  Products(gens) \subseteq Products(more)
<1>1. Products(more) \in SUBSET SignedPermutations
  BY ProductsAre
<1>2. Absorbs(Products(more), gens)
  <2>1. ASSUME NEW g \in gens, NEW e \in Products(more) PROVE Follow(g, e) \in Products(more)
    BY ProductsMultiply
  <2> QED BY <2>1, ProductsAre DEF Absorbs
<1> QED
  BY <1>1, <1>2, ProductsAre

\* A quotient that is a product tells of what was divided by a product.
LEMMA QuotientsTell ==
  ASSUME NEW gens \in SUBSET SignedPermutations, NEW t \in Products(gens), NEW x \in SignedPermutations
  PROVE  Follow(Undo(t), x) \in Products(gens) <=> x \in Products(gens)
<1>1. t \in SignedPermutations /\ Undo(t) \in Products(gens) /\ Undo(t) \in SignedPermutations
  BY ProductsAre, ProductsUndo, UndoIs
<1>2. Follow(t, Follow(Undo(t), x)) = x
  <2>1. Follow(Follow(t, Undo(t)), x) = Follow(t, Follow(Undo(t), x))
    BY <1>1, GroupLaws
  <2>2. Follow(t, Undo(t)) = Unit /\ Follow(Unit, x) = x
    BY <1>1, GroupLaws
  <2> QED BY <2>1, <2>2
<1>3. ASSUME x \in Products(gens) PROVE Follow(Undo(t), x) \in Products(gens)
  BY <1>1, <1>3, ProductsMultiply
<1>4. ASSUME Follow(Undo(t), x) \in Products(gens) PROVE x \in Products(gens)
  BY <1>1, <1>2, <1>4, ProductsMultiply
<1> QED
  BY <1>3, <1>4

\* The caller's generators.
Made == {generators[k] : k \in DOMAIN generators}

\* Repeated multiplication makes the products of the generators.
LEMMA GeneratedIs ==
  ASSUME Made \subseteq SignedPermutations
  PROVE  Generated = Products(Made)
<1> DEFINE E == SUBSET SignedPermutations
           Step(f) == [s \in E |-> IF Extended(s) = s THEN s ELSE f[Extended(s)]]
           f == CHOOSE g : g = Step(g)
           Full(S) == S \in E /\ Extended(S) = S
           Least1(s) == {t \in SignedPermutations : \A S \in E : s \subseteq S /\ Full(S) => t \in S}
           h == [s \in E |-> Least1(s)]
           Good(s) == /\ s \subseteq f[s] /\ Full(f[s])
                      /\ \A S \in E : s \subseteq S /\ Full(S) => f[s] \subseteq S
<1>1. Generated = f[{Unit}]
  BY DEF Generated
<1>2. \A s \in E : Extended(s) \in E /\ s \subseteq Extended(s)
  BY FollowIs DEF Extended, Made
<1>0. \A s, S : s \subseteq S => Extended(s) \subseteq Extended(S)
  BY DEF Extended
<1>3. h = Step(h)
  <2>1. ASSUME NEW s \in E PROVE h[s] = IF Extended(s) = s THEN s ELSE h[Extended(s)]
    <3>0. h[s] = Least1(s) /\ h[Extended(s)] = Least1(Extended(s)) /\ Extended(s) \in E
      BY <1>2
    <3>1. CASE Extended(s) = s
      <4>1. Full(s)
        BY <3>1
      <4>2. Least1(s) = s
        BY <4>1
      <4> HIDE DEF Least1
      <4> QED BY <3>0, <3>1, <4>2
    <3>2. CASE Extended(s) # s
      <4>1. \A S \in E : s \subseteq S /\ Full(S) <=> Extended(s) \subseteq S /\ Full(S)
        BY <1>0, <1>2
      <4>2. Least1(s) = Least1(Extended(s))
        BY <4>1
      <4> HIDE DEF Least1, h
      <4> QED BY <3>0, <3>2, <4>2
    <3> QED BY <3>1, <3>2
  <2> HIDE DEF Least1
  <2> QED BY <2>1
<1>4. f = Step(f)
  <2> HIDE DEF Step, h
  <2> QED BY <1>3
<1>5. \A s \in E : f[s] = IF Extended(s) = s THEN s ELSE f[Extended(s)]
  <2> HIDE DEF f
  <2> QED BY <1>4
<1> HIDE DEF f
<1> DEFINE Bad == {s \in E : ~Good(s)}
           left == [s \in E |-> Cardinality(SignedPermutations \ s)]
<1>6. Bad = {}
  <2> SUFFICES ASSUME Bad # {} PROVE FALSE
    OBVIOUS
  <2>1. \A s \in E : left[s] \in Nat /\ IsFiniteSet(SignedPermutations \ s)
    BY SignedAreFinite, FS_Subset, FS_CardinalityType
  <2> DEFINE T == {left[s] : s \in Bad}
  <2> HIDE DEF left, Good
  <2>2. T \subseteq Nat /\ T # {}
    BY <2>1
  <2>3. PICK s \in Bad : \A u \in Bad : left[s] <= left[u]
    <3>1. PICK n \in T : \A m \in T : n <= m
      BY <2>2, Least
    <3> QED BY <3>1
  <2>4. CASE Extended(s) = s
    <3>1. f[s] = s
      BY <1>5, <2>4
    <3>2. Good(s)
      BY <3>1, <2>3, <2>4 DEF Good
    <3> QED BY <3>2, <2>3
  <2>5. CASE Extended(s) # s
    <3> DEFINE u == Extended(s)
    <3>1. u \in E /\ f[s] = f[u] /\ s \subseteq u /\ u # s
      BY <1>5, <1>2, <2>5
    <3> HIDE DEF u
    <3>2. left[u] < left[s]
      <4>1. SignedPermutations \ u \subseteq SignedPermutations \ s /\ SignedPermutations \ u # SignedPermutations \ s
        BY <3>1
      <4>2. /\ Cardinality(SignedPermutations \ u) <= Cardinality(SignedPermutations \ s)
            /\ Cardinality(SignedPermutations \ u) # Cardinality(SignedPermutations \ s)
        BY <4>1, <2>1, FS_Subset
      <4>3. left[u] = Cardinality(SignedPermutations \ u) /\ left[s] = Cardinality(SignedPermutations \ s)
        BY <3>1 DEF left
      <4>4. left[u] \in Nat /\ left[s] \in Nat
        BY <2>1, <3>1
      <4> QED BY <4>2, <4>3, <4>4
    <3>3. Good(u)
      <4>1. ~(left[s] <= left[u])
        <5> left[u] \in Nat /\ left[s] \in Nat
          BY <3>1, <2>1
        <5> QED BY <3>2
      <4> QED BY <4>1, <2>3, <3>1
    <3>4. \A S \in E : s \subseteq S /\ Full(S) => u \subseteq S
      BY <1>0 DEF u
    <3>5. Good(s)
      <4> HIDE DEF Full
      <4> QED BY <3>1, <3>3, <3>4 DEF Good
    <3> QED BY <3>5, <2>3
  <2> QED BY <2>4, <2>5
<1>7. {Unit} \in E /\ Good({Unit})
  <2>1. {Unit} \in E
    BY UnitsAre
  <2> HIDE DEF Good
  <2> QED BY <1>6, <2>1
<1>8. \A S \in E : Full(S) /\ Unit \in S <=> Absorbs(S, Made) /\ S \in E
  BY <1>2 DEF Extended, Absorbs, Made
<1>9. Absorbs(f[{Unit}], Made) /\ f[{Unit}] \in E
  BY <1>7, <1>8
<1>10. \A S \in E : Absorbs(S, Made) => f[{Unit}] \subseteq S
  BY <1>7, <1>8
<1> HIDE DEF Good, Full
<1> QED
  BY <1>1, <1>9, <1>10, ProductsAre

-----------------------------------------------------------------------------
(* Levels and strong generators *)

\* An element that moves none of the first base points.
Fixes(x, level) == \A i \in 0 .. level - 1 : x.image[i] = i

\* phy_perm_level tells of how many.
LEMMA LevelIs ==
  ASSUME NEW x \in SignedPermutations, NEW level \in 0 .. Degree
  PROVE  /\ Level(x.image) \in 0 .. Degree
         /\ ~(Level(x.image) < level) <=> Fixes(x, level)
         /\ Level(x.image) = Degree <=> x.image = Identity
<1>0. \A i \in Nat, j \in Points : j \in 0 .. i - 1 <=> j < i
  BY PointsAre
<1>1. CASE x.image = Identity
  <2>1. Level(x.image) = Degree
    BY <1>1 DEF Level
  <2>2. \A i \in 0 .. level - 1 : i \in Points
    BY DegreeAssumption DEF Points
  <2> QED BY <1>1, <2>1, <2>2, IdentityIs, DegreeAssumption DEF Fixes
<1>2. CASE x.image # Identity
  <2> DEFINE T == {i \in Points : x.image[i] # i}
  <2>1. T # {}
    BY <1>2, SignedIs, SameImages, IdentityIs
  <2>2. PICK i \in T : \A j \in T : i <= j
    <3> T \subseteq Nat
      BY PointsAre
    <3> QED BY <2>1, Least
  <2>3. x.image[i] # i /\ \A j \in 0 .. i - 1 : x.image[j] = j
    <3>0. i \in 0 .. Degree - 1
      BY DEF Points
    <3>1. \A j \in 0 .. i - 1 : j \in Points /\ ~(i <= j)
      <4> HIDE DEF T
      <4> QED BY <3>0, DegreeAssumption DEF Points
    <3>2. \A j \in Points : ~(i <= j) => x.image[j] = j
      BY <2>2
    <3>3. x.image[i] # i
      BY <2>2
    <3> QED BY <3>1, <3>2, <3>3
  <2> DEFINE L == Level(x.image)
  <2>4. L \in Points /\ x.image[L] # L /\ \A j \in 0 .. L - 1 : x.image[j] = j
    BY <1>2, <2>3 DEF Level
  <2> HIDE DEF L
  <2>5. L \in 0 .. Degree /\ L # Degree
    BY <2>4, PointsAre, DegreeAssumption
  <2>6. CASE L < level
    <3>1. L \in 0 .. level - 1
      BY <2>5, <2>6
    <3> QED BY <1>2, <2>4, <2>5, <2>6, <3>1 DEF Fixes, L
  <2>7. CASE ~(L < level)
    <3>1. \A j \in 0 .. level - 1 : j \in 0 .. L - 1
      BY <2>5, <2>7
    <3> QED BY <1>2, <2>4, <2>5, <2>7, <3>1 DEF Fixes, L
  <2> QED BY <2>6, <2>7
<1> QED
  BY <1>1, <1>2

\* Products and what undoes them fix what their factors fix.
LEMMA FixesFollow ==
  ASSUME NEW x \in SignedPermutations, NEW y \in SignedPermutations, NEW level \in 0 .. Degree,
         Fixes(x, level), Fixes(y, level)
  PROVE  Fixes(Follow(x, y), level) /\ Fixes(Undo(x), level)
<1>1. \A i \in 0 .. level - 1 : i \in Points
  BY DegreeAssumption DEF Points
<1>2. \A i \in 0 .. level - 1 : Follow(x, y).image[i] = i
  BY <1>1, FollowIs DEF Fixes
<1>3. \A i \in 0 .. level - 1 : Undo(x).image[i] = i
  BY <1>1, UndoIs DEF Fixes
<1> QED
  BY <1>2, <1>3 DEF Fixes

\* What moves nothing is an identity.
LEMMA FixesAll ==
  ASSUME NEW x \in SignedPermutations
  PROVE  /\ Fixes(x, Degree) <=> x.image = Identity
         /\ x.image = Identity <=> x \in {Unit, MinusUnit}
         /\ x.image = Identity /\ x.sign = 1 <=> x = Unit
<1>1. Fixes(x, Degree) <=> x.image = Identity
  BY DegreeAssumption, SignedIs, SameImages, IdentityIs DEF Fixes, Points
<1>2. x.image = Identity <=> x \in {Unit, MinusUnit}
  BY SignedIs, UnitsAre DEF Unit, MinusUnit
<1> QED
  BY <1>1, <1>2, UnitsAre, SignedIs DEF Unit, MinusUnit

\* The entries of a list, and what they tell with the identity's sign.
Entries(list) == {list[k] : k \in DOMAIN list}
Known(list, negative) == Entries(list) \cup (IF negative THEN {MinusUnit} ELSE {})

\* A list of strong generators: none is an identity, and there is room for all.
IsStrong(list) ==
    /\ list \in Seq(SignedPermutations) /\ Len(list) <= MaxStrong
    /\ \A k \in DOMAIN list : list[k].image # Identity

Lists == {acc \in [strong : Seq(SignedPermutations), negative : BOOLEAN, changed : BOOLEAN, failed : BOOLEAN] :
            IsStrong(acc.strong)}

\* Every entry is a signed permutation.
LEMMA KnownAre ==
  ASSUME NEW list \in Seq(SignedPermutations), NEW negative \in BOOLEAN
  PROVE  /\ Known(list, negative) \in SUBSET SignedPermutations
         /\ DOMAIN list = 1 .. Len(list) /\ Len(list) \in Nat
         /\ \A k \in DOMAIN list : list[k] \in SignedPermutations /\ list[k] \in Known(list, negative)
         /\ negative => MinusUnit \in Known(list, negative)
<1>1. DOMAIN list = 1 .. Len(list) /\ Len(list) \in Nat /\ \A k \in DOMAIN list : list[k] \in SignedPermutations
  OBVIOUS
<1> QED
  BY <1>1, UnitsAre DEF Known, Entries

\* Minus the identity turns the sign around.
LEMMA MinusTurns ==
  ASSUME NEW x \in SignedPermutations, NEW y \in SignedPermutations, x.image = y.image, x.sign # y.sign
  PROVE  /\ Follow(MinusUnit, y) = x
         /\ Follow(Undo(y), x) = MinusUnit
<1>1. x.sign \in {-1, 1} /\ y.sign \in {-1, 1} /\ x.sign = (-1) * y.sign /\ y.sign * x.sign = -1
  BY SignedIs
<1>2. /\ Follow(MinusUnit, y) \in SignedPermutations /\ Follow(MinusUnit, y).sign = (-1) * y.sign
      /\ \A i \in Points : Follow(MinusUnit, y).image[i] = y.image[i]
  BY FollowIs, UnitsAre
<1>3. Undo(y) \in SignedPermutations /\ Undo(y).sign = y.sign
  BY UndoIs
<1>4. /\ Follow(Undo(y), x) \in SignedPermutations /\ Follow(Undo(y), x).sign = y.sign * x.sign
      /\ \A i \in Points : Follow(Undo(y), x).image[i] = i
  BY <1>3, FollowIs, UndoIs
<1>5. Follow(MinusUnit, y) = x
  BY <1>1, <1>2, SameSigned
<1>6. Follow(Undo(y), x) = MinusUnit
  BY <1>1, <1>4, UnitsAre, SameSigned
<1> QED
  BY <1>5, <1>6

\* phy_perm_add_strong: what it takes in is from the group, and what it leaves
\* is known already.
LEMMA OfferIs ==
  ASSUME NEW acc \in Lists, NEW x \in SignedPermutations
  PROVE  LET a == Offer(acc, x.image, x.sign) IN
         /\ a \in Lists
         /\ Known(acc.strong, acc.negative) \subseteq Known(a.strong, a.negative)
         /\ acc.failed => a.failed
         /\ ~a.failed => x \in Products(Known(a.strong, a.negative))
         /\ ~a.changed => ~acc.changed /\ a.strong = acc.strong /\ a.negative = acc.negative
         /\ ~a.changed /\ ~a.failed =>
              \/ x.image = Identity /\ (x.sign = 1 \/ acc.negative)
              \/ \E k \in DOMAIN acc.strong : acc.strong[k].image = x.image
         /\ \A gens \in SUBSET SignedPermutations :
              Known(acc.strong, acc.negative) \subseteq Products(gens) /\ x \in Products(gens) =>
              Known(a.strong, a.negative) \subseteq Products(gens)
<1> DEFINE a == Offer(acc, x.image, x.sign)
           s == acc.strong
           same == {k \in DOMAIN s : s[k].image = x.image}
           clash == \E k \in same : s[k].sign # x.sign
<1>1. /\ s \in Seq(SignedPermutations) /\ IsStrong(s) /\ acc.negative \in BOOLEAN
      /\ acc.changed \in BOOLEAN /\ acc.failed \in BOOLEAN
      /\ acc = [strong |-> s, negative |-> acc.negative, changed |-> acc.changed, failed |-> acc.failed]
  BY DEF Lists
<1>2. DOMAIN s = 1 .. Len(s) /\ Len(s) \in Nat /\ \A k \in DOMAIN s : s[k] \in SignedPermutations
  BY <1>1
<1>3. ASSUME NEW list \in Seq(SignedPermutations), IsStrong(list),
             NEW n \in BOOLEAN, NEW c \in BOOLEAN, NEW f \in BOOLEAN
      PROVE  [strong |-> list, negative |-> n, changed |-> c, failed |-> f] \in Lists
  BY <1>3 DEF Lists
<1>4. CASE acc.failed
  BY <1>4 DEF Offer
<1>5. CASE ~acc.failed /\ x.image = Identity
  <2>1. a = [strong |-> s, negative |-> acc.negative \/ x.sign = -1,
             changed |-> acc.changed \/ (x.sign = -1 /\ ~acc.negative), failed |-> FALSE]
    BY <1>1, <1>5 DEF Offer, AddStrong
  <2>2. a \in Lists
    BY <1>1, <1>3, <2>1
  <2>3. x.sign = -1 => x = MinusUnit
    BY <1>5 , SignedIs, UnitsAre DEF MinusUnit
  <2>4. x.sign # -1 => x = Unit
    BY <1>5, SignedIs, UnitsAre DEF Unit
  <2>5. Known(s, acc.negative \/ x.sign = -1) \in SUBSET SignedPermutations
    BY <1>1, KnownAre
  <2>6. x \in Products(Known(s, acc.negative \/ x.sign = -1))
    <3>1. CASE x.sign = -1
      BY <2>3, <2>5, <3>1, ProductsAre DEF Known
    <3>2. CASE x.sign # -1
      BY <2>4, <2>5, <3>2, ProductsAre DEF Absorbs
    <3> QED BY <3>1, <3>2
  <2>7. x.sign \in {-1, 1}
    BY SignedIs
  <2>8. ASSUME NEW gens \in SUBSET SignedPermutations,
               Known(s, acc.negative) \subseteq Products(gens), x \in Products(gens)
        PROVE  Known(s, acc.negative \/ x.sign = -1) \subseteq Products(gens)
    BY <2>3, <2>8 DEF Known
  <2>9. Known(s, acc.negative) \subseteq Known(s, acc.negative \/ x.sign = -1)
    BY DEF Known
  <2> HIDE DEF a, s
  <2>10. a.strong = s /\ a.negative = (acc.negative \/ x.sign = -1) /\ ~a.failed
         /\ a.changed = (acc.changed \/ (x.sign = -1 /\ ~acc.negative))
    BY <2>1
  <2> QED BY <1>1, <1>5, <2>2, <2>6, <2>7, <2>8, <2>9, <2>10 DEF a, s
<1>6. CASE ~acc.failed /\ x.image # Identity /\ same # {}
  <2>1. a = [strong |-> s, negative |-> acc.negative \/ clash,
             changed |-> acc.changed \/ (clash /\ ~acc.negative), failed |-> FALSE]
    BY <1>1, <1>6 DEF Offer, AddStrong
  <2>2. a \in Lists
    <3> HIDE DEF clash, s
    <3>1. (acc.negative \/ clash) \in BOOLEAN /\ (acc.changed \/ (clash /\ ~acc.negative)) \in BOOLEAN
      BY <1>1
    <3> QED BY <1>1, <1>3, <2>1, <3>1
  <2>3. PICK k \in DOMAIN s : s[k].image = x.image
    BY <1>6
  <2>4. s[k] \in SignedPermutations /\ Known(s, acc.negative \/ clash) \in SUBSET SignedPermutations
        /\ s[k] \in Known(s, acc.negative \/ clash)
    BY <1>1, <1>2, <2>3, KnownAre
  <2>5. x \in Products(Known(s, acc.negative \/ clash))
    <3>1. CASE s[k].sign = x.sign
      BY <2>3, <2>4, <3>1, SignedIs, ProductsAre
    <3>2. CASE s[k].sign # x.sign
      <4>1. clash
        BY <2>3, <3>2
      <4>2. MinusUnit \in Known(s, acc.negative \/ clash)
        BY <4>1 DEF Known
      <4>3. Follow(MinusUnit, s[k]) = x
        BY <2>3, <2>4, <3>2, MinusTurns
      <4> HIDE DEF clash
      <4> QED BY <2>4, <4>2, <4>3, ProductsAre DEF Absorbs
    <3> QED BY <3>1, <3>2
  <2>6. ASSUME NEW gens \in SUBSET SignedPermutations,
               Known(s, acc.negative) \subseteq Products(gens), x \in Products(gens)
        PROVE  Known(s, acc.negative \/ clash) \subseteq Products(gens)
    <3>1. ASSUME clash PROVE MinusUnit \in Products(gens)
      <4>1. PICK j \in DOMAIN s : s[j].image = x.image /\ s[j].sign # x.sign
        BY <3>1
      <4>2. s[j] \in SignedPermutations /\ s[j] \in Products(gens)
        BY <1>2, <2>6 DEF Known, Entries
      <4>3. Follow(Undo(s[j]), x) = MinusUnit
        BY <4>1, <4>2, MinusTurns
      <4>4. Undo(s[j]) \in Products(gens)
        BY <4>2, ProductsUndo
      <4> QED BY <2>6, <4>3, <4>4, ProductsMultiply
    <3> HIDE DEF clash
    <3> QED BY <2>6, <3>1 DEF Known
  <2>7. Known(s, acc.negative) \subseteq Known(s, acc.negative \/ clash)
    BY DEF Known
  <2>8. \E j \in DOMAIN s : s[j].image = x.image
    BY <2>3
  <2> HIDE DEF a, s, clash
  <2>10. a.strong = s /\ a.negative = (acc.negative \/ clash) /\ ~a.failed
         /\ a.changed = (acc.changed \/ (clash /\ ~acc.negative))
    BY <2>1
  <2>11. acc.strong = s
    BY DEF s
  <2>12. ~a.changed => ~acc.changed /\ a.negative = acc.negative
    BY <1>1, <2>10
  <2> QED BY <1>6, <2>2, <2>5, <2>6, <2>7, <2>8, <2>10, <2>11, <2>12 DEF a
<1>7. CASE ~acc.failed /\ x.image # Identity /\ same = {} /\ Len(s) >= MaxStrong
  <2>1. a = [strong |-> s, negative |-> acc.negative, changed |-> acc.changed, failed |-> TRUE]
    BY <1>1, <1>7 DEF Offer, AddStrong
  <2>2. a \in Lists
    BY <1>1, <1>3, <2>1
  <2> HIDE DEF a, s
  <2>3. a.strong = s /\ a.negative = acc.negative /\ a.failed /\ a.changed = acc.changed
    BY <2>1
  <2> QED BY <2>2, <2>3 DEF a, s
<1>8. CASE ~acc.failed /\ x.image # Identity /\ same = {} /\ ~(Len(s) >= MaxStrong)
  <2> DEFINE t == Append(s, x)
  <2>1. a = [strong |-> t, negative |-> acc.negative, changed |-> TRUE, failed |-> FALSE]
    <3>1. [image |-> x.image, sign |-> x.sign] = x
      BY DEF SignedPermutations
    <3> QED BY <1>1, <1>8, <3>1 DEF Offer, AddStrong
  <2>2. /\ t \in Seq(SignedPermutations) /\ Len(t) = Len(s) + 1 /\ DOMAIN t = 1 .. Len(s) + 1
        /\ \A k \in 1 .. Len(s) : t[k] = s[k]
        /\ t[Len(s) + 1] = x
    BY <1>1
  <2> HIDE DEF t
  <2>3. IsStrong(t)
    <3>1. \A k \in DOMAIN t : t[k].image # Identity
      BY <1>1, <1>2, <1>8, <2>2 DEF IsStrong
    <3> QED BY <1>2, <1>8, <2>2, <3>1, LimitAssumption DEF IsStrong
  <2>4. a \in Lists
    BY <1>1, <1>3, <2>1, <2>2, <2>3
  <2>5. Entries(t) = Entries(s) \cup {x}
    <3>1. \A k \in DOMAIN t : t[k] \in Entries(s) \cup {x}
      BY <1>2, <2>2 DEF Entries
    <3>2. \A k \in DOMAIN s : s[k] \in Entries(t)
      BY <1>2, <2>2 DEF Entries
    <3>3. x \in Entries(t)
      BY <1>2, <2>2 DEF Entries
    <3> QED BY <3>1, <3>2, <3>3 DEF Entries
  <2>6. Known(t, acc.negative) = Known(s, acc.negative) \cup {x}
    BY <2>5 DEF Known
  <2>7. x \in Products(Known(t, acc.negative))
    BY <1>1, <2>2, <2>6, KnownAre, ProductsAre
  <2> HIDE DEF a, s
  <2>8. a.strong = t /\ a.negative = acc.negative /\ a.changed /\ ~a.failed
    BY <2>1
  <2> QED BY <1>8, <2>4, <2>6, <2>7, <2>8 DEF a, s
<1> QED
  BY <1>4, <1>5, <1>6, <1>7, <1>8


-----------------------------------------------------------------------------
(* Transversals *)

\* The generators a level of the chain uses.
Used(gens, level) == {g \in Entries(gens) : Fixes(g, level)}

\* Their products fix what they fix.
LEMMA UsedFix ==
  ASSUME NEW gens \in Seq(SignedPermutations), NEW level \in 0 .. Degree
  PROVE  /\ Used(gens, level) \in SUBSET SignedPermutations
         /\ \A x \in Products(Used(gens, level)) : x \in SignedPermutations /\ Fixes(x, level)
<1> DEFINE H == {x \in SignedPermutations : Fixes(x, level)}
<1>1. Used(gens, level) \in SUBSET SignedPermutations
  BY DEF Used, Entries
<1>2. \A i \in 0 .. level - 1 : i \in Points
  BY DegreeAssumption DEF Points
<1>3. Unit \in H
  BY <1>2, UnitsAre DEF Fixes
<1>4. ASSUME NEW g \in Used(gens, level), NEW e \in H PROVE Follow(g, e) \in H
  <2>1. g \in SignedPermutations /\ Fixes(g, level)
    BY <1>1 DEF Used
  <2> QED BY <2>1, FollowIs, FixesFollow
<1>5. Absorbs(H, Used(gens, level))
  BY <1>3, <1>4 DEF Absorbs
<1>6. Products(Used(gens, level)) \subseteq H
  <2> H \in SUBSET SignedPermutations
    OBVIOUS
  <2> HIDE DEF H
  <2> QED BY <1>1, <1>5, ProductsAre
<1> QED
  BY <1>1, <1>6

\* A state of the search of a level: the queue lists the points that have a
\* representative, each once, and representatives are products of the
\* generators in use that take the base point where they are filed.
Searches(gens, level) ==
    {st \in [queue : Seq(Points), reps : UNION {[D -> SignedPermutations] : D \in SUBSET Points}] :
        /\ \A i \in DOMAIN st.queue : st.queue[i] \in DOMAIN st.reps
        /\ \A p \in DOMAIN st.reps : \E i \in DOMAIN st.queue : st.queue[i] = p
        /\ \A i, j \in DOMAIN st.queue : st.queue[i] = st.queue[j] => i = j
        /\ level \in DOMAIN st.reps /\ st.reps[level] = Unit
        /\ \A p \in DOMAIN st.reps : st.reps[p] \in Products(Used(gens, level)) /\ st.reps[p].image[level] = p}

\* A later state of the search.
Grown(a, b) ==
    /\ Len(a.queue) <= Len(b.queue)
    /\ \A i \in 1 .. Len(a.queue) : b.queue[i] = a.queue[i]
    /\ DOMAIN a.reps \subseteq DOMAIN b.reps

\* One generator at one point.
LEMMA ReachByIs ==
  ASSUME NEW gens \in Seq(SignedPermutations), NEW level \in Points,
         NEW st \in Searches(gens, level), NEW point \in DOMAIN st.reps, NEW k \in DOMAIN gens
  PROVE  LET next == ReachBy(gens, level, st, point, k) IN
         /\ next \in Searches(gens, level)
         /\ Grown(st, next)
         /\ Fixes(gens[k], level) => gens[k].image[point] \in DOMAIN next.reps
<1> DEFINE next == ReachBy(gens, level, st, point, k)
           g == gens[k]
           image == g.image[point]
           D == DOMAIN st.reps
           Q == Used(gens, level)
<1>1. /\ st.queue \in Seq(Points) /\ D \subseteq Points /\ st.reps \in [D -> SignedPermutations]
      /\ st = [queue |-> st.queue, reps |-> st.reps]
  BY DEF Searches
<1>2. g \in SignedPermutations /\ image \in Points /\ level \in 0 .. Degree
  <2>1. g \in SignedPermutations
    OBVIOUS
  <2>2. Valid(g.image) /\ point \in Points
    BY <1>1, <2>1, SignedIs
  <2>3. image \in Points
    BY <2>2 DEF Valid
  <2>4. level \in 0 .. Degree
    BY PointsAre, DegreeAssumption
  <2> QED BY <2>1, <2>3, <2>4
<1>3. ~(Level(g.image) < level) <=> Fixes(g, level)
  BY <1>2, LevelIs
<1>4. CASE Level(g.image) < level \/ image \in D
  <2>1. next = st
    BY <1>4 DEF ReachBy
  <2>2. Grown(st, st)
    BY <1>1 DEF Grown
  <2> QED BY <1>3, <1>4, <2>1, <2>2
<1>5. CASE ~(Level(g.image) < level \/ image \in D)
  <2> DEFINE queue == Append(st.queue, image)
             reps == [p \in D \cup {image} |-> IF p = image THEN Follow(g, st.reps[point]) ELSE st.reps[p]]
  <2>1. next = [queue |-> queue, reps |-> reps]
    BY <1>5 DEF ReachBy
  <2>2. /\ queue \in Seq(Points) /\ Len(queue) = Len(st.queue) + 1 /\ DOMAIN queue = 1 .. Len(st.queue) + 1
        /\ Len(st.queue) \in Nat /\ DOMAIN st.queue = 1 .. Len(st.queue)
        /\ \A i \in 1 .. Len(st.queue) : queue[i] = st.queue[i]
        /\ queue[Len(st.queue) + 1] = image
    BY <1>1, <1>2
  <2>3. g \in Q /\ Q \in SUBSET SignedPermutations
    BY <1>2, <1>3, <1>5, UsedFix DEF Used, Entries
  <2>4. st.reps[point] \in Products(Q) /\ st.reps[point] \in SignedPermutations /\ st.reps[point].image[level] = point
    BY <1>1 DEF Searches
  <2>5. /\ Follow(g, st.reps[point]) \in Products(Q) /\ Follow(g, st.reps[point]) \in SignedPermutations
        /\ Follow(g, st.reps[point]).image[level] = image
    BY <1>2, <2>3, <2>4, ProductsAre, FollowIs DEF Absorbs
  <2>6. /\ DOMAIN reps = D \cup {image} /\ D \cup {image} \subseteq Points
        /\ reps[image] = Follow(g, st.reps[point])
        /\ \A p \in D : reps[p] = st.reps[p]
    BY <1>1, <1>2, <1>5
  <2>7. reps \in [D \cup {image} -> SignedPermutations]
    BY <1>1, <2>5
  <2> HIDE DEF reps, queue
  <2>8. /\ \A i \in DOMAIN queue : queue[i] \in DOMAIN reps
        /\ \A p \in DOMAIN reps : \E i \in DOMAIN queue : queue[i] = p
    <3>1. ASSUME NEW i \in DOMAIN queue PROVE queue[i] \in DOMAIN reps
      <4>1. CASE i = Len(st.queue) + 1
        BY <2>2, <2>6, <4>1
      <4>2. CASE i # Len(st.queue) + 1
        <5>1. i \in DOMAIN st.queue
          BY <2>2, <4>2
        <5>2. st.queue[i] \in D
          BY <5>1 DEF Searches
        <5> QED BY <5>1, <5>2, <2>2, <2>6
      <4> QED BY <4>1, <4>2
    <3>2. ASSUME NEW p \in DOMAIN reps PROVE \E i \in DOMAIN queue : queue[i] = p
      <4>1. CASE p = image
        <5>1. Len(st.queue) + 1 \in DOMAIN queue
          BY <2>2
        <5> QED BY <5>1, <4>1, <2>2
      <4>2. CASE p # image
        <5>1. p \in D
          BY <2>6, <4>2
        <5>2. PICK i \in DOMAIN st.queue : st.queue[i] = p
          BY <5>1 DEF Searches
        <5>3. i \in DOMAIN queue
          BY <2>2
        <5> QED BY <5>2, <5>3, <2>2
      <4> QED BY <4>1, <4>2
    <3> QED BY <3>1, <3>2
  <2>9. ASSUME NEW i \in DOMAIN queue, NEW j \in DOMAIN queue, queue[i] = queue[j] PROVE i = j
    <3>1. \A n \in 1 .. Len(st.queue) : st.queue[n] \in D /\ st.queue[n] # image
      BY <1>5, <2>2 DEF Searches
    <3>2. \A n \in DOMAIN queue : n \in 1 .. Len(st.queue) \/ n = Len(st.queue) + 1
      BY <2>2
    <3>3. CASE i \in 1 .. Len(st.queue) /\ j \in 1 .. Len(st.queue)
      BY <3>3, <2>2, <2>9 DEF Searches
    <3> QED BY <3>1, <3>2, <3>3, <2>2, <2>9
  <2>10. level \in DOMAIN reps /\ reps[level] = Unit
    BY <2>6 DEF Searches
  <2>11. \A p \in DOMAIN reps : reps[p] \in Products(Q) /\ reps[p].image[level] = p
    <3>1. \A p \in D : st.reps[p] \in Products(Q) /\ st.reps[p].image[level] = p
      BY DEF Searches
    <3> QED BY <3>1, <2>5, <2>6
  <2>12. [queue |-> queue, reps |-> reps] \in Searches(gens, level)
    <3> DEFINE new == [queue |-> queue, reps |-> reps]
               Maps == UNION {[E -> SignedPermutations] : E \in SUBSET Points}
    <3>1. new.queue = queue /\ new.reps = reps
      OBVIOUS
    <3>2. reps \in Maps
      BY <2>6, <2>7
    <3>3. new \in [queue : Seq(Points), reps : Maps]
      <4> HIDE DEF Maps
      <4> QED BY <2>2, <3>2
    <3> HIDE DEF new, Q
    <3> QED BY <3>1, <3>3, <2>8, <2>9, <2>10, <2>11 DEF Searches, Q
  <2>13. Grown(st, [queue |-> queue, reps |-> reps])
    BY <2>2, <2>6 DEF Grown
  <2>14. image \in DOMAIN [queue |-> queue, reps |-> reps].reps
    BY <2>6
  <2> HIDE DEF next
  <2> QED BY <2>1, <2>12, <2>13, <2>14 DEF next
<1> QED
  BY <1>4, <1>5

\* The queue of a search is never longer than there are points.
LEMMA QueuesFit ==
  ASSUME NEW gens \in Seq(SignedPermutations), NEW level \in Points, NEW st \in Searches(gens, level)
  PROVE  Len(st.queue) \in Nat /\ Len(st.queue) <= Degree
<1>1. st.queue \in Seq(Points) /\ Len(st.queue) \in Nat /\ st.queue \in [1 .. Len(st.queue) -> Points]
      /\ DOMAIN st.queue = 1 .. Len(st.queue)
  BY DEF Searches
<1>2. st.queue \in Injection(1 .. Len(st.queue), Points)
  <2>1. \A i, j \in 1 .. Len(st.queue) : st.queue[i] = st.queue[j] => i = j
    BY <1>1 DEF Searches
  <2> QED BY <1>1, <2>1, Fun_IsInj
<1>3. Cardinality(1 .. Len(st.queue)) <= Cardinality(Points)
  BY <1>2, PointsAre, FS_Injection
<1>4. Cardinality(1 .. Len(st.queue)) = Len(st.queue)
  BY <1>1, FS_Interval
<1> QED
  BY <1>1, <1>3, <1>4, PointsAre

\* Growth upon growth.
LEMMA GrownOn ==
  ASSUME NEW a, NEW b, NEW c, Len(a.queue) \in Nat, Len(b.queue) \in Nat, Len(c.queue) \in Nat,
         Grown(a, b), Grown(b, c)
  PROVE  Grown(a, c)
<1>1. \A i \in 1 .. Len(a.queue) : i \in 1 .. Len(b.queue)
  BY DEF Grown
<1>2. \A i \in 1 .. Len(a.queue) : c.queue[i] = a.queue[i]
  BY <1>1 DEF Grown
<1>3. Len(a.queue) <= Len(c.queue)
  BY DEF Grown
<1> QED
  BY <1>2, <1>3 DEF Grown

\* Every generator at one point of the queue.
LEMMA VisitPointIs ==
  ASSUME NEW gens \in Seq(SignedPermutations), NEW level \in Points,
         NEW st \in Searches(gens, level), NEW n \in Nat \ {0}
  PROVE  LET next == VisitPoint(gens, level, st, n) IN
         /\ next \in Searches(gens, level)
         /\ Grown(st, next)
         /\ n > Len(st.queue) => next = st
         /\ n <= Len(st.queue) =>
              \A g \in Used(gens, level) : g.image[st.queue[n]] \in DOMAIN next.reps
<1> DEFINE next == VisitPoint(gens, level, st, n)
           point == st.queue[n]
           N == Len(gens)
           Step(f) == [k \in 0 .. N |-> IF k = 0 THEN st ELSE ReachBy(gens, level, f[k - 1], point, k)]
           after == CHOOSE f : f = Step(f)
           S == {s \in Searches(gens, level) : Grown(st, s)}
           F == [p \in S \X (0 + 1 .. N) |-> ReachBy(gens, level, p[1], point, p[2])]
<1>1. next = IF n > Len(st.queue) THEN st ELSE after[N]
  BY DEF VisitPoint
<1>2. \A s \in Searches(gens, level) : Len(s.queue) \in Nat
  BY QueuesFit
<1>3. Grown(st, st) /\ st \in S
  BY <1>2 DEF Grown
<1>4. CASE n > Len(st.queue)
  <2>1. ~(n <= Len(st.queue))
    BY <1>2, <1>4
  <2> QED BY <1>1, <1>3, <1>4, <2>1
<1>5. CASE ~(n > Len(st.queue))
  <2>0. N \in Nat /\ DOMAIN gens = 1 .. N /\ \A k \in 0 + 1 .. N : k \in DOMAIN gens
    OBVIOUS
  <2>1. point \in DOMAIN st.reps
    <3>1. n \in DOMAIN st.queue
      <4> st.queue \in Seq(Points)
        BY DEF Searches
      <4> QED BY <1>2, <1>5
    <3> QED BY <3>1 DEF Searches
  <2>2. ASSUME NEW s \in S, NEW k \in 0 + 1 .. N
        PROVE  LET t == ReachBy(gens, level, s, point, k) IN
               /\ t \in S /\ Grown(s, t)
               /\ Fixes(gens[k], level) => gens[k].image[point] \in DOMAIN t.reps
    <3>1. k \in DOMAIN gens /\ point \in DOMAIN s.reps
      BY <2>0, <2>1 DEF Grown
    <3> DEFINE t == ReachBy(gens, level, s, point, k)
    <3>2. t \in Searches(gens, level) /\ Grown(s, t) /\ (Fixes(gens[k], level) => gens[k].image[point] \in DOMAIN t.reps)
      BY <3>1, ReachByIs
    <3>3. Grown(st, t)
      <4> HIDE DEF t
      <4> QED BY <1>2, <3>2, GrownOn
    <3> QED BY <3>2, <3>3
  <2>3. F \in [S \X (0 + 1 .. N) -> S]
    <3> HIDE DEF S
    <3> QED BY <2>2
  <2>4. \E h \in [0 .. N -> S] : Iterates(h, st, F, 0, N)
    <3>1. st \in S /\ 0 \in Nat /\ N \in Nat /\ 0 <= N
      BY <1>3, <2>0
    <3> HIDE DEF F, S, N
    <3> QED BY <3>1, <2>3, IteratesExist
  <2>5. \E h : h = Step(h)
    <3>1. PICK h \in [0 .. N -> S] : Iterates(h, st, F, 0, N)
      BY <2>4
    <3>2. h = [k \in 0 .. N |-> IF k = 0 THEN st ELSE F[<<h[k - 1], k>>]]
      BY <3>1 DEF Iterates
    <3>3. ASSUME NEW k \in 0 .. N, k # 0 PROVE F[<<h[k - 1], k>>] = ReachBy(gens, level, h[k - 1], point, k)
      <4>1. k \in 0 + 1 .. N /\ k - 1 \in 0 .. N
        BY <2>0, <3>3
      <4>2. h[k - 1] \in S
        BY <4>1
      <4> HIDE DEF S
      <4> QED BY <4>1, <4>2
    <3> HIDE DEF F, S
    <3>4. h = Step(h)
      BY <3>2, <3>3
    <3> HIDE DEF Step
    <3> QED BY <3>4
  <2>6. after = Step(after)
    <3> HIDE DEF Step
    <3> QED BY <2>5
  <2> HIDE DEF after
  <2>7. after[0] = st /\ \A k \in 0 + 1 .. N : after[k] = ReachBy(gens, level, after[k - 1], point, k)
    <3>1. \A k \in 0 .. N : after[k] = IF k = 0 THEN st ELSE ReachBy(gens, level, after[k - 1], point, k)
      BY <2>6
    <3> QED BY <3>1, <2>0
  <2> DEFINE P == {k \in 0 .. N : /\ after[k] \in S
                                  /\ \A j \in 1 .. k : Fixes(gens[j], level) =>
                                        gens[j].image[point] \in DOMAIN after[k].reps}
  <2>8. 0 \in P
    <3>1. after[0] \in S /\ 0 \in 0 .. N
      BY <1>3, <2>0, <2>7
    <3> HIDE DEF S
    <3> QED BY <3>1
  <2>9. ASSUME NEW k \in 0 + 1 .. N, k - 1 \in P PROVE k \in P
    <3>1. /\ after[k] \in S /\ Grown(after[k - 1], after[k])
          /\ Fixes(gens[k], level) => gens[k].image[point] \in DOMAIN after[k].reps
      <4>1. after[k - 1] \in S
        BY <2>9
      <4> DEFINE t == ReachBy(gens, level, after[k - 1], point, k)
      <4>2. after[k] = t
        BY <2>7
      <4>3. t \in S /\ Grown(after[k - 1], t) /\ (Fixes(gens[k], level) => gens[k].image[point] \in DOMAIN t.reps)
        BY <4>1, <2>2
      <4> HIDE DEF S, t, point
      <4> QED BY <4>2, <4>3
    <3>2. ASSUME NEW j \in 1 .. k, Fixes(gens[j], level) PROVE gens[j].image[point] \in DOMAIN after[k].reps
      <4>1. CASE j = k
        BY <3>1, <3>2, <4>1
      <4>2. CASE j # k
        <5>1. j \in 1 .. k - 1
          BY <4>2
        <5>2. gens[j].image[point] \in DOMAIN after[k - 1].reps
          BY <2>9, <3>2, <5>1
        <5> QED BY <3>1, <5>2 DEF Grown
      <4> QED BY <4>1, <4>2
    <3>3. k \in 0 .. N
      BY <2>0
    <3> HIDE DEF S
    <3> QED BY <3>1, <3>2, <3>3
  <2>10. N \in P
    <3> HIDE DEF P
    <3>1. N \in 0 .. N
      BY <2>0
    <3> QED BY <2>0, <2>8, <2>9, <3>1, Along
  <2>11. \A g \in Used(gens, level) : g.image[point] \in DOMAIN after[N].reps
    <3>1. \A j \in 1 .. N : Fixes(gens[j], level) => gens[j].image[point] \in DOMAIN after[N].reps
      BY <2>10
    <3> QED BY <2>0, <3>1 DEF Used, Entries
  <2>12. next = after[N]
    BY <1>1, <1>5
  <2>13. after[N] \in S
    BY <2>10
  <2> HIDE DEF next, P
  <2> QED BY <1>5, <2>11, <2>12, <2>13 DEF next
<1> QED
  BY <1>4, <1>5

\* One level of phy_perm_chain_build: a representative takes the base point
\* where it is filed and comes from the generators of the level, and those
\* lead from the points that have one to points that have one.
LEMMA TransversalIs ==
  ASSUME NEW gens \in Seq(SignedPermutations), NEW level \in Points
  PROVE  LET reps == Transversal(gens, level) IN
         /\ DOMAIN reps \subseteq Points /\ level \in DOMAIN reps /\ reps[level] = Unit
         /\ \A p \in DOMAIN reps : /\ reps[p] \in Products(Used(gens, level))
                                   /\ reps[p] \in SignedPermutations
                                   /\ reps[p].image[level] = p
         /\ \A p \in DOMAIN reps, g \in Used(gens, level) : g.image[p] \in DOMAIN reps
<1> DEFINE zero == [queue |-> <<level>>, reps |-> [p \in {level} |-> Unit]]
           Step(f) == [n \in 0 .. Degree |-> IF n = 0 THEN zero ELSE Evaluated(VisitPoint(gens, level, f[n - 1], n))]
           after == CHOOSE f : f = Step(f)
           S == Searches(gens, level)
           F == [p \in S \X (0 + 1 .. Degree) |-> VisitPoint(gens, level, p[1], p[2])]
           Q == Used(gens, level)
<1>0. Degree \in Nat /\ level \in 0 .. Degree /\ level \in Nat
  BY PointsAre, DegreeAssumption
<1>1. Transversal(gens, level) = after[Degree].reps
  BY DEF Transversal
<1>2. zero \in S
  <2>1. /\ zero.queue \in Seq(Points) /\ DOMAIN zero.queue = {1} /\ zero.queue[1] = level
        /\ DOMAIN zero.reps = {level} /\ zero.reps[level] = Unit
    OBVIOUS
  <2>2. zero.reps \in [{level} -> SignedPermutations] /\ {level} \in SUBSET Points
    BY UnitsAre
  <2> DEFINE Maps == UNION {[E -> SignedPermutations] : E \in SUBSET Points}
  <2>3. zero.reps \in Maps
    BY <2>2
  <2>4. zero \in [queue : Seq(Points), reps : Maps]
    <3> HIDE DEF Maps
    <3> QED BY <2>1, <2>3
  <2>5. Unit \in Products(Q)
    BY <1>0, UsedFix, ProductsAre DEF Absorbs
  <2>6. Unit.image[level] = level
    BY UnitsAre
  <2> HIDE DEF zero, Q
  <2> QED BY <2>1, <2>4, <2>5, <2>6 DEF Searches, Q
<1>3. ASSUME NEW s \in S, NEW n \in 0 + 1 .. Degree
      PROVE  LET t == VisitPoint(gens, level, s, n) IN
             /\ t \in S /\ Grown(s, t)
             /\ n > Len(s.queue) => t = s
             /\ n <= Len(s.queue) => \A g \in Q : g.image[s.queue[n]] \in DOMAIN t.reps
  <2>1. n \in Nat \ {0}
    BY <1>0
  <2> QED BY <2>1, VisitPointIs
<1>4. F \in [S \X (0 + 1 .. Degree) -> S]
  <2> HIDE DEF S
  <2> QED BY <1>3
<1>5. \E h \in [0 .. Degree -> S] : Iterates(h, zero, F, 0, Degree)
  <2>1. zero \in S /\ 0 \in Nat /\ Degree \in Nat /\ 0 <= Degree
    BY <1>0, <1>2
  <2> HIDE DEF F, S, zero
  <2> QED BY <2>1, <1>4, IteratesExist
<1>6. \E h : h = Step(h)
  <2>1. PICK h \in [0 .. Degree -> S] : Iterates(h, zero, F, 0, Degree)
    BY <1>5
  <2>2. h = [n \in 0 .. Degree |-> IF n = 0 THEN zero ELSE F[<<h[n - 1], n>>]]
    BY <2>1 DEF Iterates
  <2>3. ASSUME NEW n \in 0 .. Degree, n # 0
        PROVE  F[<<h[n - 1], n>>] = Evaluated(VisitPoint(gens, level, h[n - 1], n))
    <3>1. n \in 0 + 1 .. Degree /\ n - 1 \in 0 .. Degree
      BY <1>0, <2>3
    <3>2. h[n - 1] \in S
      BY <3>1
    <3> HIDE DEF S
    <3> QED BY <3>1, <3>2, EvaluatedIs
  <2> HIDE DEF F, S, zero
  <2>4. h = Step(h)
    BY <2>2, <2>3
  <2> HIDE DEF Step
  <2> QED BY <2>4
<1>7. after = Step(after)
  <2> HIDE DEF Step
  <2> QED BY <1>6
<1> HIDE DEF after, zero
<1>8. after[0] = zero /\ \A n \in 0 + 1 .. Degree : after[n] = VisitPoint(gens, level, after[n - 1], n)
  <2>1. \A n \in 0 .. Degree :
          after[n] = IF n = 0 THEN zero ELSE Evaluated(VisitPoint(gens, level, after[n - 1], n))
    BY <1>7
  <2> QED BY <2>1, <1>0, EvaluatedIs
<1> DEFINE Done(n) == \A i \in 1 .. n : i <= Len(after[n].queue) =>
                        \A g \in Q : g.image[after[n].queue[i]] \in DOMAIN after[n].reps
           P == {n \in 0 .. Degree : after[n] \in S /\ Done(n)}
<1>9. 0 \in P
  <2>1. Done(0)
    OBVIOUS
  <2>2. after[0] \in S /\ 0 \in 0 .. Degree
    BY <1>0, <1>2, <1>8
  <2> HIDE DEF Done, S
  <2> QED BY <2>1, <2>2
<1>10. ASSUME NEW n \in 0 + 1 .. Degree, n - 1 \in P PROVE n \in P
  <2> DEFINE s == after[n - 1]
             t == after[n]
  <2>1. s \in S /\ Done(n - 1)
    BY <1>10
  <2>2. /\ t \in S /\ Grown(s, t)
        /\ n > Len(s.queue) => t = s
        /\ n <= Len(s.queue) => \A g \in Q : g.image[s.queue[n]] \in DOMAIN t.reps
    <3> DEFINE v == VisitPoint(gens, level, s, n)
    <3>1. t = v
      BY <1>8
    <3>2. /\ v \in S /\ Grown(s, v)
          /\ n > Len(s.queue) => v = s
          /\ n <= Len(s.queue) => \A g \in Q : g.image[s.queue[n]] \in DOMAIN v.reps
      <4> HIDE DEF s, S, Q
      <4> QED BY <2>1, <1>3
    <3> HIDE DEF s, t, v, S, Q
    <3> QED BY <3>1, <3>2
  <2>3. Len(s.queue) \in Nat /\ Len(t.queue) \in Nat
    BY <2>1, <2>2, QueuesFit
  <2>4. ASSUME NEW i \in 1 .. n, i <= Len(t.queue), NEW g \in Q
        PROVE  g.image[t.queue[i]] \in DOMAIN t.reps
    <3>1. CASE n > Len(s.queue)
      <4>1. t = s /\ i \in 1 .. n - 1 /\ i <= Len(s.queue)
        <5>1. t = s
          BY <2>2, <3>1
        <5>2. i <= Len(s.queue)
          BY <5>1, <2>4
        <5>3. i \in 1 .. n - 1
          BY <5>2, <2>3, <3>1, <1>0
        <5> QED BY <5>1, <5>2, <5>3
      <4>2. g.image[s.queue[i]] \in DOMAIN s.reps
        BY <2>1, <4>1
      <4> HIDE DEF s, t
      <4> QED BY <4>1, <4>2
    <3>2. CASE ~(n > Len(s.queue))
      <4>1. n <= Len(s.queue) /\ i <= Len(s.queue) /\ i \in 1 .. Len(s.queue)
        BY <2>3, <3>2, <1>0
      <4>2. t.queue[i] = s.queue[i]
        BY <2>2, <4>1 DEF Grown
      <4>3. CASE i = n
        <5> HIDE DEF s, t, S, Q
        <5> QED BY <2>2, <4>1, <4>2, <4>3
      <4>4. CASE i # n
        <5>1. i \in 1 .. n - 1
          BY <4>4
        <5>2. g.image[s.queue[i]] \in DOMAIN s.reps
          BY <2>1, <4>1, <5>1
        <5>3. DOMAIN s.reps \subseteq DOMAIN t.reps
          BY <2>2 DEF Grown
        <5> HIDE DEF s, t
        <5> QED BY <4>2, <5>2, <5>3
      <4> QED BY <4>3, <4>4
    <3> QED BY <3>1, <3>2
  <2>5. n \in 0 .. Degree
    BY <1>0
  <2>6. Done(n)
    BY <2>4
  <2> HIDE DEF Done, S
  <2> QED BY <2>2, <2>5, <2>6
<1>11. Degree \in P
  <2>1. 0 \in Nat /\ Degree \in 0 .. Degree /\ Degree \in Nat
    BY <1>0
  <2> HIDE DEF P
  <2> QED BY <2>1, <1>9, <1>10, Along
<1> DEFINE last == after[Degree]
<1>12. last \in S /\ Done(Degree)
  BY <1>11
<1>13. \A p \in DOMAIN last.reps, g \in Q : g.image[p] \in DOMAIN last.reps
  <2>1. ASSUME NEW p \in DOMAIN last.reps, NEW g \in Q PROVE g.image[p] \in DOMAIN last.reps
    <3>1. PICK i \in DOMAIN last.queue : last.queue[i] = p
      BY <1>12 DEF Searches
    <3>2. i \in 1 .. Degree /\ i <= Len(last.queue)
      <4>1. Len(last.queue) \in Nat /\ Len(last.queue) <= Degree
        <5> HIDE DEF last
        <5> QED BY <1>12, QueuesFit
      <4>2. last.queue \in Seq(Points)
        BY <1>12 DEF Searches
      <4> HIDE DEF last
      <4> QED BY <4>1, <4>2, <1>0
    <3>3. g.image[last.queue[i]] \in DOMAIN last.reps
      BY <1>12, <3>2
    <3> HIDE DEF last
    <3> QED BY <3>1, <3>3
  <2> QED BY <2>1
<1>14. /\ DOMAIN last.reps \subseteq Points /\ level \in DOMAIN last.reps /\ last.reps[level] = Unit
       /\ \A p \in DOMAIN last.reps : last.reps[p] \in Products(Q) /\ last.reps[p].image[level] = p
  <2> HIDE DEF last, Q
  <2> QED BY <1>12 DEF Searches, Q
<1>15. \A x \in Products(Q) : x \in SignedPermutations
  BY <1>0, UsedFix
<1> HIDE DEF last, Q
<1> QED
  BY <1>1, <1>13, <1>14, <1>15 DEF last, Q

-----------------------------------------------------------------------------
(* Sifting *)

\* A chain of transversals: what phy_perm_chain_build makes of a list.
Chained(gens, ch) ==
    \A level \in Points :
        /\ DOMAIN ch[level] \subseteq Points /\ level \in DOMAIN ch[level] /\ ch[level][level] = Unit
        /\ \A p \in DOMAIN ch[level] : /\ ch[level][p] \in Products(Used(gens, level))
                                       /\ ch[level][p] \in SignedPermutations
                                       /\ ch[level][p].image[level] = p
        /\ \A p \in DOMAIN ch[level], g \in Used(gens, level) : g.image[p] \in DOMAIN ch[level]

\* phy_perm_chain_build files every level by what a chain has to have.
LEMMA ChainIs ==
  ASSUME NEW gens \in Seq(SignedPermutations)
  PROVE  Chained(gens, ChainBuild(gens)) /\ DOMAIN ChainBuild(gens) = Points
<1>1. \A level \in Points : ChainBuild(gens)[level] = Transversal(gens, level)
  BY DEF ChainBuild
<1>2. ASSUME NEW level \in Points
      PROVE  LET reps == ChainBuild(gens)[level] IN
             /\ DOMAIN reps \subseteq Points /\ level \in DOMAIN reps /\ reps[level] = Unit
             /\ \A p \in DOMAIN reps : /\ reps[p] \in Products(Used(gens, level))
                                       /\ reps[p] \in SignedPermutations
                                       /\ reps[p].image[level] = p
             /\ \A p \in DOMAIN reps, g \in Used(gens, level) : g.image[p] \in DOMAIN reps
  <2> DEFINE reps == ChainBuild(gens)[level]
             same == Transversal(gens, level)
  <2>1. reps = same
    BY <1>1
  <2>2. /\ DOMAIN same \subseteq Points /\ level \in DOMAIN same /\ same[level] = Unit
        /\ \A p \in DOMAIN same : /\ same[p] \in Products(Used(gens, level))
                                  /\ same[p] \in SignedPermutations
                                  /\ same[p].image[level] = p
        /\ \A p \in DOMAIN same, g \in Used(gens, level) : g.image[p] \in DOMAIN same
    BY TransversalIs
  <2> HIDE DEF reps, same
  <2>3. /\ DOMAIN reps \subseteq Points /\ level \in DOMAIN reps /\ reps[level] = Unit
        /\ \A p \in DOMAIN reps : /\ reps[p] \in Products(Used(gens, level))
                                  /\ reps[p] \in SignedPermutations
                                  /\ reps[p].image[level] = p
        /\ \A p \in DOMAIN reps, g \in Used(gens, level) : g.image[p] \in DOMAIN reps
    BY <2>1, <2>2
  <2> QED BY <2>3 DEF reps
<1>3. Chained(gens, ChainBuild(gens))
  BY <1>2 DEF Chained
<1> QED
  BY <1>3 DEF ChainBuild

\* What is left of an element at a level, and whether some level had no
\* representative for it.
Remains == [element : SignedPermutations, stuck : BOOLEAN]

\* One division.
LEMMA DivideIs ==
  ASSUME NEW gens \in Seq(SignedPermutations), NEW ch, Chained(gens, ch),
         NEW prior \in Remains, NEW level \in Points
  PROVE  LET next == Divide(ch, prior, level)
             p == prior.element.image[level]
         IN  /\ next \in Remains
             /\ prior.stuck => next = prior
             /\ ~prior.stuck /\ p \notin DOMAIN ch[level] => next = [element |-> prior.element, stuck |-> TRUE]
             /\ ~prior.stuck /\ p \in DOMAIN ch[level] =>
                  /\ next = [element |-> Follow(Undo(ch[level][p]), prior.element), stuck |-> FALSE]
                  /\ ch[level][p] \in SignedPermutations
<1> DEFINE next == Divide(ch, prior, level)
           p == prior.element.image[level]
           t == ch[level][p]
<1>1. /\ prior.element \in SignedPermutations /\ prior.stuck \in BOOLEAN
      /\ prior = [element |-> prior.element, stuck |-> prior.stuck]
  BY DEF Remains
<1>2. CASE prior.stuck \/ p \notin DOMAIN ch[level]
  <2>1. next = [element |-> prior.element, stuck |-> TRUE]
    BY <1>2 DEF Divide
  <2> HIDE DEF next
  <2>2. next \in Remains
    BY <1>1, <2>1 DEF Remains
  <2> QED BY <1>1, <1>2, <2>1, <2>2 DEF next
<1>3. CASE ~(prior.stuck \/ p \notin DOMAIN ch[level])
  <2>1. t \in SignedPermutations
    BY <1>3 DEF Chained
  <2>2. next = [element |-> [image |-> Compose(InverseOf(t.image), prior.element.image),
                             sign  |-> prior.element.sign * t.sign],
                stuck   |-> FALSE]
    BY <1>3 DEF Divide
  <2>3. Follow(Undo(t), prior.element) =
          [image |-> Compose(InverseOf(t.image), prior.element.image), sign |-> t.sign * prior.element.sign]
    BY DEF Follow, Undo
  <2>4. prior.element.sign * t.sign = t.sign * prior.element.sign
    <3>1. prior.element.sign \in {-1, 1} /\ t.sign \in {-1, 1}
      BY <1>1, <2>1, SignedIs
    <3> QED BY <3>1
  <2>5. Follow(Undo(t), prior.element) \in SignedPermutations
    BY <1>1, <2>1, FollowIs, UndoIs
  <2> DEFINE left == Follow(Undo(t), prior.element)
  <2>6. next = [element |-> left, stuck |-> FALSE]
    BY <2>2, <2>3, <2>4
  <2>7. [element |-> left, stuck |-> FALSE] \in Remains
    BY <2>5 DEF Remains
  <2> HIDE DEF next, left
  <2> QED BY <1>1, <1>3, <2>1, <2>6, <2>7 DEF next, left
<1> QED
  BY <1>2, <1>3

\* A sift, level by level.
Sifted(ch, x, start, at) ==
    /\ at[start] = [element |-> x, stuck |-> FALSE]
    /\ \A level \in start + 1 .. Degree : at[level] = Divide(ch, at[level - 1], level - 1)
    /\ \A level \in start .. Degree : at[level] \in Remains
    /\ Sift(ch, x, start) = at[Degree].element

\* The loop of phy_perm_sift has such a trace, which ends with what it returns.
LEMMA SiftRuns ==
  ASSUME NEW gens \in Seq(SignedPermutations), NEW ch, Chained(gens, ch),
         NEW x \in SignedPermutations, NEW start \in 0 .. Degree
  PROVE  \E at : Sifted(ch, x, start, at)
<1> DEFINE zero == [element |-> x, stuck |-> FALSE]
           Step(f) == [level \in start .. Degree |->
                         IF level = start THEN zero ELSE Evaluated(Divide(ch, f[level - 1], level - 1))]
           at == CHOOSE f : f = Step(f)
           F == [p \in Remains \X (start + 1 .. Degree) |-> Divide(ch, p[1], p[2] - 1)]
<1>0. /\ Degree \in Nat /\ start \in Nat /\ start <= Degree
      /\ \A level \in start + 1 .. Degree : level - 1 \in Points /\ level \in start .. Degree /\ level # start
                                            /\ level - 1 \in start .. Degree
      /\ \A level \in start .. Degree : level # start => level \in start + 1 .. Degree
  BY DegreeAssumption DEF Points
<1>1. Sift(ch, x, start) = at[Degree].element
  BY DEF Sift
<1>2. zero \in Remains
  BY DEF Remains
<1>3. \A s \in Remains, level \in start + 1 .. Degree : Divide(ch, s, level - 1) \in Remains
  BY <1>0, DivideIs
<1>4. F \in [Remains \X (start + 1 .. Degree) -> Remains]
  BY <1>3
<1>5. \E h \in [start .. Degree -> Remains] : Iterates(h, zero, F, start, Degree)
  <2> HIDE DEF F, zero
  <2> QED BY <1>0, <1>2, <1>4, IteratesExist
<1>6. \E h : h = Step(h)
  <2>1. PICK h \in [start .. Degree -> Remains] : Iterates(h, zero, F, start, Degree)
    BY <1>5
  <2>2. h = [level \in start .. Degree |-> IF level = start THEN zero ELSE F[<<h[level - 1], level>>]]
    BY <2>1 DEF Iterates
  <2>3. ASSUME NEW level \in start .. Degree, level # start
        PROVE  F[<<h[level - 1], level>>] = Evaluated(Divide(ch, h[level - 1], level - 1))
    <3>1. level \in start + 1 .. Degree /\ level - 1 \in start .. Degree
      BY <1>0, <2>3
    <3>2. h[level - 1] \in Remains
      BY <3>1
    <3> QED BY <3>1, <3>2, EvaluatedIs
  <2> HIDE DEF F, zero
  <2>4. h = Step(h)
    BY <2>2, <2>3
  <2> HIDE DEF Step
  <2> QED BY <2>4
<1>7. at = Step(at)
  <2> HIDE DEF Step
  <2> QED BY <1>6
<1> HIDE DEF at, zero
<1>8. at[start] = zero /\ \A level \in start + 1 .. Degree : at[level] = Divide(ch, at[level - 1], level - 1)
  <2>1. \A level \in start .. Degree :
          at[level] = IF level = start THEN zero ELSE Evaluated(Divide(ch, at[level - 1], level - 1))
    BY <1>7
  <2>2. start \in start .. Degree
    BY <1>0
  <2> QED BY <2>1, <2>2, <1>0, EvaluatedIs
<1>9. \A level \in start .. Degree : at[level] \in Remains
  <2> DEFINE P == {level \in start .. Degree : at[level] \in Remains}
  <2>1. start \in P
    BY <1>0, <1>2, <1>8
  <2>2. ASSUME NEW level \in start + 1 .. Degree, level - 1 \in P PROVE level \in P
    BY <1>0, <1>3, <1>8, <2>2
  <2>3. \A level \in start .. Degree : level \in P
    <3> HIDE DEF P
    <3> QED BY <1>0, <2>1, <2>2, Along
  <2> QED BY <2>3
<1>10. Sifted(ch, x, start, at)
  BY <1>1, <1>8, <1>9 DEF Sifted, zero
<1> QED
  BY <1>10

\* What a division leaves fixes one base point more.
LEMMA DividedIs ==
  ASSUME NEW gens \in Seq(SignedPermutations), NEW ch, Chained(gens, ch), NEW level \in Points,
         NEW e \in SignedPermutations, Fixes(e, level), e.image[level] \in DOMAIN ch[level]
  PROVE  LET t == ch[level][e.image[level]] IN
         /\ t \in SignedPermutations /\ t \in Products(Used(gens, level)) /\ Fixes(t, level)
         /\ t.image[level] = e.image[level]
         /\ Follow(Undo(t), e) \in SignedPermutations
         /\ Fixes(Follow(Undo(t), e), level + 1)
<1> DEFINE p == e.image[level]
           t == ch[level][p]
<1>0. level \in 0 .. Degree /\ level \in Nat
  BY PointsAre, DegreeAssumption
<1>1. t \in SignedPermutations /\ t \in Products(Used(gens, level)) /\ t.image[level] = p
  BY DEF Chained
<1>2. Fixes(t, level)
  BY <1>0, <1>1, UsedFix
<1>3. Undo(t) \in SignedPermutations /\ Fixes(Undo(t), level) /\ Undo(t).image[p] = level
  <2>1. Undo(t).image[t.image[level]] = level
    BY <1>1, UndoIs
  <2> QED BY <2>1, <1>0, <1>1, <1>2, UndoIs, FixesFollow
<1>4. Follow(Undo(t), e) \in SignedPermutations /\ Fixes(Follow(Undo(t), e), level)
  BY <1>0, <1>3, FollowIs, FixesFollow
<1>5. Follow(Undo(t), e).image[level] = level
  BY <1>3, FollowIs
<1>6. \A i \in 0 .. (level + 1) - 1 : i \in 0 .. level - 1 \/ i = level
  BY <1>0
<1>7. Fixes(Follow(Undo(t), e), level + 1)
  BY <1>4, <1>5, <1>6 DEF Fixes
<1> HIDE DEF t, p
<1> QED
  BY <1>1, <1>2, <1>4, <1>7 DEF t, p

\* A level uses fewer generators than the levels before it.
LEMMA UsedShrinks ==
  ASSUME NEW gens \in Seq(SignedPermutations), NEW level \in Nat, NEW start \in Nat, start <= level
  PROVE  Used(gens, level) \subseteq Used(gens, start)
<1>1. ASSUME NEW g, Fixes(g, level) PROVE Fixes(g, start)
  <2>1. \A i \in 0 .. start - 1 : i \in 0 .. level - 1
    OBVIOUS
  <2> QED BY <1>1, <2>1 DEF Fixes
<1> QED
  BY <1>1 DEF Used

\* What a sift leaves is from the group exactly when the element was, and is
\* not a strong generator: where a level has no representative the element
\* goes to a point no strong generator of that level reaches.
LEMMA SiftIs ==
  ASSUME NEW gens, IsStrong(gens), NEW ch, Chained(gens, ch),
         NEW x \in SignedPermutations, NEW start \in 0 .. Degree, Fixes(x, start)
  PROVE  LET r == Sift(ch, x, start) IN
         /\ r \in SignedPermutations
         /\ \A k \in DOMAIN gens : r.image # gens[k].image
         /\ \A H \in SUBSET SignedPermutations :
              Used(gens, start) \subseteq Products(H) => (r \in Products(H) <=> x \in Products(H))
<1> DEFINE r == Sift(ch, x, start)
           Missed(e) == \A k \in DOMAIN gens : e.image # gens[k].image
           Same(e) == \A H \in SUBSET SignedPermutations :
                        Used(gens, start) \subseteq Products(H) => (e \in Products(H) <=> x \in Products(H))
<1>0. /\ gens \in Seq(SignedPermutations) /\ Degree \in Nat /\ start \in Nat
      /\ \A k \in DOMAIN gens : gens[k].image # Identity /\ gens[k] \in SignedPermutations
      /\ \A level \in start + 1 .. Degree : level - 1 \in Points /\ level - 1 \in Nat /\ level - 1 \in start .. Degree
                                            /\ start <= level - 1 /\ level \in start .. Degree
  BY DegreeAssumption DEF Points, IsStrong
<1>1. PICK at : Sifted(ch, x, start, at)
  BY <1>0, SiftRuns
<1> DEFINE P == {level \in start .. Degree :
                   /\ Same(at[level].element)
                   /\ at[level].stuck => Missed(at[level].element)
                   /\ ~at[level].stuck => Fixes(at[level].element, level)}
<1>2. start \in P
  <2>1. at[start] = [element |-> x, stuck |-> FALSE]
    BY <1>1 DEF Sifted
  <2>2. at[start].element = x /\ ~at[start].stuck
    BY <2>1
  <2>3. start \in start .. Degree
    BY <1>0
  <2>4. Same(x)
    OBVIOUS
  <2> HIDE DEF Same, Missed
  <2> QED BY <2>2, <2>3, <2>4
<1>3. ASSUME NEW level \in start + 1 .. Degree, level - 1 \in P PROVE level \in P
  <2> DEFINE l == level - 1
             prior == at[l]
             e == prior.element
             next == at[level]
             p == e.image[l]
             t == ch[l][p]
             q == Follow(Undo(t), e)
  <2>1. /\ l \in Points /\ l \in start .. Degree /\ level \in start .. Degree /\ l \in Nat /\ start <= l /\ l + 1 = level
        /\ prior \in Remains /\ next = Divide(ch, prior, l)
    BY <1>0, <1>1 DEF Sifted
  <2>2. /\ Same(e) /\ (prior.stuck => Missed(e)) /\ (~prior.stuck => Fixes(e, l))
        /\ e \in SignedPermutations
    BY <1>3, <2>1 DEF Remains
  <2> DEFINE v == Divide(ch, prior, l)
  <2>6. /\ prior.stuck => v = prior
        /\ ~prior.stuck /\ p \notin DOMAIN ch[l] => v = [element |-> e, stuck |-> TRUE]
        /\ ~prior.stuck /\ p \in DOMAIN ch[l] => v = [element |-> q, stuck |-> FALSE]
    <3> HIDE DEF prior, l
    <3> QED BY <1>0, <2>1, DivideIs
  <2>7. next = v
    BY <2>1
  <2> HIDE DEF v
  <2>3. CASE prior.stuck
    <3>1. next = prior
      BY <2>3, <2>6, <2>7
    <3>2. next.element = e /\ next.stuck
      BY <2>3, <3>1
    <3> HIDE DEF next, Same, Missed, e, prior
    <3> QED BY <2>1, <2>2, <2>3, <3>2 DEF next
  <2>4. CASE ~prior.stuck /\ p \notin DOMAIN ch[l]
    <3>1. next = [element |-> e, stuck |-> TRUE]
      <4> HIDE DEF next, e, p
      <4> QED BY <2>4, <2>6, <2>7
    <3>2. next.element = e /\ next.stuck
      BY <3>1
    <3>3. Missed(e)
      <4>1. ASSUME NEW k \in DOMAIN gens, e.image = gens[k].image PROVE FALSE
        <5>1. Fixes(gens[k], l)
          BY <2>2, <2>4, <4>1 DEF Fixes
        <5>2. gens[k] \in Used(gens, l)
          BY <5>1 DEF Used, Entries
        <5>3. gens[k].image[l] \in DOMAIN ch[l]
          BY <2>1, <5>2 DEF Chained
        <5> QED BY <2>4, <4>1, <5>3
      <4> QED BY <4>1
    <3> HIDE DEF next, Same, Missed, e, prior
    <3> QED BY <2>1, <2>2, <3>2, <3>3 DEF next
  <2>5. CASE ~prior.stuck /\ p \in DOMAIN ch[l]
    <3>1. next = [element |-> q, stuck |-> FALSE]
      <4> HIDE DEF next, q, p
      <4> QED BY <2>5, <2>6, <2>7
    <3>2. next.element = q /\ ~next.stuck
      <4> HIDE DEF q, next
      <4> QED BY <3>1
    <3>3. t \in Products(Used(gens, l)) /\ Fixes(q, level)
      <4>1. Fixes(e, l) /\ e.image[l] \in DOMAIN ch[l]
        BY <2>2, <2>5
      <4>2. Fixes(q, l + 1) /\ t \in Products(Used(gens, l))
        <5> HIDE DEF e, l, prior
        <5> QED BY <1>0, <2>1, <2>2, <4>1, DividedIs
      <4> QED BY <2>1, <4>2
    <3>4. Same(q)
      <4>1. ASSUME NEW H \in SUBSET SignedPermutations, Used(gens, start) \subseteq Products(H)
            PROVE  q \in Products(H) <=> x \in Products(H)
        <5>1. Used(gens, l) \subseteq Products(H) /\ Used(gens, l) \in SUBSET SignedPermutations
          <6>1. Used(gens, l) \subseteq Used(gens, start)
            <7> HIDE DEF l
            <7> QED BY <1>0, <2>1, UsedShrinks
          <6>2. Used(gens, l) \in SUBSET SignedPermutations
            <7> HIDE DEF l
            <7> QED BY <1>0, <2>1, UsedFix
          <6> QED BY <4>1, <6>1, <6>2
        <5>2. t \in Products(H)
          BY <3>3, <5>1, ProductsWithin
        <5>3. q \in Products(H) <=> e \in Products(H)
          <6> HIDE DEF t, e
          <6> QED BY <2>2, <5>2, QuotientsTell
        <5>4. e \in Products(H) <=> x \in Products(H)
          BY <2>2, <4>1
        <5> QED BY <5>3, <5>4
      <4> HIDE DEF q
      <4> QED BY <4>1
    <3> HIDE DEF next, Same, Missed, q
    <3> QED BY <2>1, <3>2, <3>3, <3>4 DEF next
  <2> QED BY <2>3, <2>4, <2>5
<1>4. Degree \in P
  <2>1. Degree \in start .. Degree
    BY <1>0
  <2> HIDE DEF P
  <2> QED BY <2>1, <1>0, <1>2, <1>3, Along
<1>5. r = at[Degree].element /\ at[Degree] \in Remains /\ r \in SignedPermutations
  <2>1. Degree \in start .. Degree
    BY <1>0
  <2>2. at[Degree] \in Remains /\ r = at[Degree].element
    BY <1>1, <2>1 DEF Sifted
  <2> HIDE DEF r
  <2> QED BY <2>2 DEF Remains
<1> HIDE DEF r
<1>6. Missed(r)
  <2>1. CASE at[Degree].stuck
    BY <1>4, <1>5, <2>1
  <2>2. CASE ~at[Degree].stuck
    <3>1. Fixes(r, Degree)
      BY <1>4, <1>5, <2>2
    <3>2. r.image = Identity
      BY <1>5, <3>1, FixesAll
    <3> QED BY <1>0, <3>2
  <2> QED BY <2>1, <2>2
<1>7. Same(r)
  BY <1>4, <1>5
<1> QED
  BY <1>5, <1>6, <1>7 DEF r

\* Sifting from a level is a division, and sifting from the next one.
LEMMA SiftPeels ==
  ASSUME NEW gens \in Seq(SignedPermutations), NEW ch, Chained(gens, ch),
         NEW x \in SignedPermutations, NEW start \in Points, Fixes(x, start),
         x.image[start] \in DOMAIN ch[start]
  PROVE  Sift(ch, x, start) = Sift(ch, Follow(Undo(ch[start][x.image[start]]), x), start + 1)
<1> DEFINE q == Follow(Undo(ch[start][x.image[start]]), x)
<1>0. /\ start \in 0 .. Degree /\ start + 1 \in 0 .. Degree /\ start + 1 \in Nat /\ start \in Nat /\ Degree \in Nat
      /\ start + 1 \in start + 1 .. Degree /\ (start + 1) - 1 = start
      /\ \A level \in (start + 1) + 1 .. Degree : level \in start + 1 .. Degree
      /\ start \in start .. Degree /\ Degree \in start + 1 .. Degree
  BY PointsAre, DegreeAssumption
<1>1. q \in SignedPermutations
  BY DividedIs
<1> HIDE DEF q
<1>2. PICK a : Sifted(ch, x, start, a)
  BY <1>0, SiftRuns
<1>3. PICK b : Sifted(ch, q, start + 1, b)
  BY <1>0, <1>1, SiftRuns
<1> DEFINE P == {level \in start + 1 .. Degree : a[level] = b[level]}
<1>4. start + 1 \in P
  <2>1. b[start + 1] = [element |-> q, stuck |-> FALSE]
    BY <1>3 DEF Sifted
  <2>2. a[start] = [element |-> x, stuck |-> FALSE] /\ a[start] \in Remains
    BY <1>0, <1>2 DEF Sifted
  <2>3. a[start + 1] = Divide(ch, a[start], start)
    BY <1>0, <1>2 DEF Sifted
  <2>4. a[start].element = x /\ ~a[start].stuck
    BY <2>2
  <2>5. Divide(ch, a[start], start) = [element |-> q, stuck |-> FALSE]
    BY <2>2, <2>4, DivideIs DEF q
  <2> QED BY <1>0, <2>1, <2>3, <2>5
<1>5. ASSUME NEW level \in (start + 1) + 1 .. Degree, level - 1 \in P PROVE level \in P
  <2>1. level \in start + 1 .. Degree
    BY <1>0
  <2>2. a[level] = Divide(ch, a[level - 1], level - 1) /\ b[level] = Divide(ch, b[level - 1], level - 1)
    BY <1>2, <1>3, <2>1 DEF Sifted
  <2> QED BY <1>5, <2>1, <2>2
<1>6. Degree \in P
  <2> HIDE DEF P
  <2> QED BY <1>0, <1>4, <1>5, Along
<1>7. Sift(ch, x, start) = a[Degree].element /\ Sift(ch, q, start + 1) = b[Degree].element
  BY <1>2, <1>3 DEF Sifted
<1>8. a[Degree] = b[Degree]
  BY <1>6
<1> QED
  BY <1>7, <1>8 DEF q

\* Below the last level nothing is left to divide by.
LEMMA SiftEnds ==
  ASSUME NEW gens \in Seq(SignedPermutations), NEW ch, Chained(gens, ch), NEW x \in SignedPermutations
  PROVE  Sift(ch, x, Degree) = x
<1>0. Degree \in 0 .. Degree
  BY DegreeAssumption
<1>1. PICK at : Sifted(ch, x, Degree, at)
  BY <1>0, SiftRuns
<1>2. at[Degree] = [element |-> x, stuck |-> FALSE] /\ Sift(ch, x, Degree) = at[Degree].element
  BY <1>1 DEF Sifted
<1> QED
  BY <1>2

-----------------------------------------------------------------------------
(* Membership *)

\* What a level can produce: products of its generators, with either sign when
\* minus the identity is known to belong.
With(gens, level, negative) == Used(gens, level) \cup (IF negative THEN {MinusUnit} ELSE {})

\* Those generators are signed permutations that fix the earlier points; the
\* products of them do too.  At the first level they are all that is known, and
\* at the last at most minus the identity is left.
LEMMA WithIs ==
  ASSUME NEW gens, IsStrong(gens), NEW level \in 0 .. Degree, NEW negative \in BOOLEAN
  PROVE  /\ With(gens, level, negative) \in SUBSET SignedPermutations
         /\ \A x \in Products(With(gens, level, negative)) : x \in SignedPermutations /\ Fixes(x, level)
         /\ With(gens, 0, negative) = Known(gens, negative)
         /\ With(gens, Degree, negative) = (IF negative THEN {MinusUnit} ELSE {})
<1> DEFINE W == With(gens, level, negative)
           H == {x \in SignedPermutations : Fixes(x, level)}
<1>0. /\ gens \in Seq(SignedPermutations) /\ Degree \in 0 .. Degree
      /\ \A k \in DOMAIN gens : gens[k].image # Identity /\ gens[k] \in SignedPermutations
  BY DegreeAssumption DEF IsStrong
<1>1. W \in SUBSET SignedPermutations
  BY <1>0, UsedFix, UnitsAre DEF With
<1>2. \A i \in 0 .. level - 1 : i \in Points
  BY DegreeAssumption DEF Points
<1>3. Unit \in H /\ MinusUnit \in H
  BY <1>2, UnitsAre DEF Fixes
<1>4. ASSUME NEW g \in W, NEW e \in H PROVE Follow(g, e) \in H
  <2>1. g \in SignedPermutations /\ Fixes(g, level)
    BY <1>1, <1>3 DEF With, Used
  <2> QED BY <2>1, FollowIs, FixesFollow
<1>5. Absorbs(H, W)
  BY <1>3, <1>4 DEF Absorbs
<1>6. Products(W) \subseteq H
  <2> H \in SUBSET SignedPermutations
    OBVIOUS
  <2> HIDE DEF H, W
  <2> QED BY <1>1, <1>5, ProductsAre
<1>7. With(gens, 0, negative) = Known(gens, negative)
  <2>1. \A x : Fixes(x, 0)
    BY DEF Fixes
  <2> QED BY <2>1 DEF With, Known, Used
<1>8. With(gens, Degree, negative) = (IF negative THEN {MinusUnit} ELSE {})
  <2>1. ASSUME NEW g \in Entries(gens) PROVE ~Fixes(g, Degree)
    BY <1>0, FixesAll DEF Entries
  <2> QED BY <2>1 DEF With, Used
<1> QED
  BY <1>1, <1>6, <1>7, <1>8

\* The Schreier generator of a level, a point and a generator.
LEMMA SchreierIs ==
  ASSUME NEW gens \in Seq(SignedPermutations), NEW ch, Chained(gens, ch), NEW level \in Points,
         NEW p \in DOMAIN ch[level], NEW g \in Used(gens, level)
  PROVE  LET tx == ch[level][p]
             ty == ch[level][g.image[p]]
             s == Schreier(ch, level, p, g)
         IN  /\ s = Follow(Undo(ty), Follow(g, tx))
             /\ tx \in SignedPermutations /\ ty \in SignedPermutations /\ g \in SignedPermutations
             /\ g.image[p] \in DOMAIN ch[level]
             /\ s \in SignedPermutations /\ s \in Products(Used(gens, level))
             /\ Fixes(s, level + 1)
<1> DEFINE Q == Used(gens, level)
           tx == ch[level][p]
           ty == ch[level][g.image[p]]
           s == Schreier(ch, level, p, g)
           e == Follow(g, tx)
<1>0. level \in 0 .. Degree
  BY PointsAre, DegreeAssumption
<1>1. /\ g.image[p] \in DOMAIN ch[level]
      /\ tx \in SignedPermutations /\ ty \in SignedPermutations
      /\ tx \in Products(Q) /\ ty \in Products(Q)
      /\ tx.image[level] = p /\ ty.image[level] = g.image[p]
  BY DEF Chained
<1>2. Q \in SUBSET SignedPermutations /\ g \in SignedPermutations /\ Fixes(g, level) /\ Fixes(tx, level)
  BY <1>0, <1>1, UsedFix DEF Used
<1>3. e \in SignedPermutations /\ Fixes(e, level) /\ e.image[level] = g.image[p] /\ e \in Products(Q)
  <2>1. e \in Products(Q)
    BY <1>1, <1>2, ProductsAre DEF Absorbs
  <2>2. e \in SignedPermutations /\ e.image[level] = g.image[p]
    <3> HIDE DEF tx, ty
    <3> QED BY <1>1, <1>2, FollowIs
  <2>3. Fixes(e, level)
    <3> HIDE DEF tx, ty
    <3> QED BY <1>0, <1>1, <1>2, FixesFollow
  <2> HIDE DEF e
  <2> QED BY <2>1, <2>2, <2>3
<1>4. s = Follow(Undo(ty), e)
  <2>1. s = [image |-> Compose(InverseOf(ty.image), Compose(g.image, tx.image)),
             sign  |-> ty.sign * g.sign * tx.sign]
    BY DEF Schreier
  <2>2. Follow(Undo(ty), e) = [image |-> Compose(InverseOf(ty.image), Compose(g.image, tx.image)),
                               sign  |-> ty.sign * (g.sign * tx.sign)]
    BY DEF Follow, Undo
  <2>3. ty.sign * g.sign * tx.sign = ty.sign * (g.sign * tx.sign)
    <3>1. ty.sign \in {-1, 1} /\ g.sign \in {-1, 1} /\ tx.sign \in {-1, 1}
      BY <1>1, <1>2, SignedIs
    <3> HIDE DEF tx, ty
    <3> QED BY <3>1
  <2> QED BY <2>1, <2>2, <2>3
<1>5. Follow(Undo(ty), e) \in SignedPermutations /\ Fixes(Follow(Undo(ty), e), level + 1)
  <2>1. ty = ch[level][e.image[level]]
    BY <1>3
  <2>2. e.image[level] \in DOMAIN ch[level]
    BY <1>1, <1>3
  <2> DEFINE u == ch[level][e.image[level]]
  <2>3. Follow(Undo(u), e) \in SignedPermutations /\ Fixes(Follow(Undo(u), e), level + 1)
    <3> HIDE DEF e
    <3> QED BY <1>3, <2>2, DividedIs
  <2> HIDE DEF u, ty, e
  <2> QED BY <2>1, <2>3 DEF u
<1>6. Follow(Undo(ty), e) \in Products(Q)
  <2> HIDE DEF ty, e, Q
  <2> QED BY <1>1, <1>2, <1>3, ProductsUndo, ProductsMultiply
<1> HIDE DEF s, tx, ty, Q
<1> QED
  BY <1>1, <1>2, <1>4, <1>5, <1>6 DEF s, tx, ty, Q

\* An element sifts through from a level.
Passes(ch, x, level, negative) ==
    LET r == Sift(ch, x, level) IN r.image = Identity /\ (r.sign = 1 \/ negative)

\* Every Schreier generator of every level does.
Closed(gens, ch, negative) ==
    \A level \in Points : \A p \in DOMAIN ch[level], g \in Used(gens, level) :
        Passes(ch, Schreier(ch, level, p, g), level + 1, negative)

\* What sifts through is a product of the level's generators.
LEMMA PassesMeans ==
  ASSUME NEW gens, IsStrong(gens), NEW ch, Chained(gens, ch), NEW level \in 0 .. Degree,
         NEW negative \in BOOLEAN, NEW x \in SignedPermutations, Fixes(x, level), Passes(ch, x, level, negative)
  PROVE  x \in Products(With(gens, level, negative))
<1> DEFINE W == With(gens, level, negative)
           r == Sift(ch, x, level)
<1>1. W \in SUBSET SignedPermutations
  BY WithIs
<1>2. W \subseteq Products(W) /\ Unit \in Products(W)
  <2> HIDE DEF W
  <2> QED BY <1>1, ProductsAre DEF Absorbs
<1>3. r \in SignedPermutations /\ (r \in Products(W) <=> x \in Products(W))
  <2>1. Used(gens, level) \subseteq Products(W)
    BY <1>2 DEF With
  <2> HIDE DEF W
  <2> QED BY <1>1, <2>1, SiftIs
<1>4. r \in {Unit, MinusUnit} /\ (r = Unit \/ negative)
  <2>1. r.image = Identity /\ (r.sign = 1 \/ negative)
    BY DEF Passes
  <2> HIDE DEF r
  <2> QED BY <2>1, <1>3, FixesAll
<1>5. r \in Products(W)
  <2>1. negative => MinusUnit \in W
    BY DEF With
  <2> HIDE DEF r, W
  <2> QED BY <2>1, <1>2, <1>4
<1> QED
  BY <1>3, <1>5

\* Where Schreier generators sift through, a product of a level's generators
\* is a representative of the level and a product of the next level's.
LEMMA ProductsSplit ==
  ASSUME NEW gens, IsStrong(gens), NEW ch, Chained(gens, ch), NEW level \in Points,
         NEW negative \in BOOLEAN, Closed(gens, ch, negative),
         NEW x \in Products(With(gens, level, negative))
  PROVE  /\ x \in SignedPermutations /\ Fixes(x, level)
         /\ x.image[level] \in DOMAIN ch[level]
         /\ Follow(Undo(ch[level][x.image[level]]), x) \in Products(With(gens, level + 1, negative))
<1> DEFINE W == With(gens, level, negative)
           V == With(gens, level + 1, negative)
           D == DOMAIN ch[level]
           Left(e) == Follow(Undo(ch[level][e.image[level]]), e)
           H == {e \in SignedPermutations : /\ Fixes(e, level)
                                            /\ e.image[level] \in D
                                            /\ Left(e) \in Products(V)}
<1>0. level \in 0 .. Degree /\ level + 1 \in 0 .. Degree /\ gens \in Seq(SignedPermutations)
  BY PointsAre, DegreeAssumption DEF IsStrong
<1>1. /\ W \in SUBSET SignedPermutations /\ V \in SUBSET SignedPermutations
      /\ \A e \in Products(W) : e \in SignedPermutations /\ Fixes(e, level)
      /\ Products(V) \subseteq SignedPermutations /\ V \subseteq Products(V) /\ Unit \in Products(V)
  <2>1. W \in SUBSET SignedPermutations /\ V \in SUBSET SignedPermutations
        /\ \A e \in Products(W) : e \in SignedPermutations /\ Fixes(e, level)
    BY <1>0, WithIs
  <2> HIDE DEF W, V
  <2> QED BY <2>1, ProductsAre DEF Absorbs
<1>2. Unit \in H
  <2>1. Unit \in SignedPermutations /\ Fixes(Unit, level) /\ Unit.image[level] = level
    <3> \A i \in 0 .. level - 1 : i \in Points
      BY <1>0, DegreeAssumption DEF Points
    <3> QED BY UnitsAre DEF Fixes
  <2>2. level \in D /\ ch[level][level] = Unit
    BY DEF Chained
  <2>3. Left(Unit) = Unit
    BY <2>1, <2>2, UndoFollow, GroupLaws
  <2> HIDE DEF Left, V
  <2> QED BY <1>1, <2>1, <2>2, <2>3
<1>3. ASSUME NEW e \in H, NEW g \in Used(gens, level) PROVE Follow(g, e) \in H
  <2> DEFINE p == e.image[level]
             tx == ch[level][p]
             ty == ch[level][g.image[p]]
             s == Schreier(ch, level, p, g)
             ge == Follow(g, e)
  <2>1. e \in SignedPermutations /\ Fixes(e, level) /\ p \in D /\ Follow(Undo(tx), e) \in Products(V)
    OBVIOUS
  <2>2. /\ s = Follow(Undo(ty), Follow(g, tx))
        /\ tx \in SignedPermutations /\ ty \in SignedPermutations /\ g \in SignedPermutations
        /\ g.image[p] \in D
        /\ s \in SignedPermutations /\ Fixes(s, level + 1)
    <3> HIDE DEF p
    <3> QED BY <1>0, <2>1, SchreierIs
  <2>3. s \in Products(V)
    <3>1. Passes(ch, s, level + 1, negative)
      BY <2>1 DEF Closed
    <3> HIDE DEF s
    <3> QED BY <1>0, <2>2, <3>1, PassesMeans
  <2>4. Fixes(g, level)
    BY DEF Used
  <2>5. ge \in SignedPermutations /\ Fixes(ge, level) /\ ge.image[level] = g.image[p]
    <3>1. ge \in SignedPermutations /\ ge.image[level] = g.image[p]
      BY <2>1, <2>2, FollowIs
    <3>2. Fixes(ge, level)
      <4>1. e \in SignedPermutations /\ Fixes(e, level) /\ g \in SignedPermutations
        BY <2>1, <2>2
      <4> HIDE DEF H, p, tx, ty, s
      <4> QED BY <1>0, <2>4, <4>1, FixesFollow
    <3> HIDE DEF ge
    <3> QED BY <3>1, <3>2
  <2>6. Follow(Undo(ty), ge) = Follow(s, Follow(Undo(tx), e))
    <3> DEFINE a == Undo(ty)
               b == Undo(tx)
    <3>1. a \in SignedPermutations /\ b \in SignedPermutations /\ Follow(g, tx) \in SignedPermutations
          /\ Follow(b, e) \in SignedPermutations
      BY <2>1, <2>2, UndoIs, FollowIs
    <3>2. Follow(tx, b) = Unit
      BY <2>1, <2>2, GroupLaws
    <3> HIDE DEF a, b, tx, ty, s
    <3>3. Follow(tx, Follow(b, e)) = e
      <4>1. Follow(Follow(tx, b), e) = Follow(tx, Follow(b, e))
        BY <2>1, <2>2, <3>1, GroupLaws
      <4>2. Follow(Unit, e) = e
        BY <2>1, GroupLaws
      <4> QED BY <3>2, <4>1, <4>2
    <3>4. Follow(Follow(g, tx), Follow(b, e)) = Follow(g, Follow(tx, Follow(b, e)))
      BY <2>2, <3>1, GroupLaws
    <3>5. Follow(Follow(a, Follow(g, tx)), Follow(b, e)) = Follow(a, Follow(Follow(g, tx), Follow(b, e)))
      BY <3>1, GroupLaws
    <3>6. s = Follow(a, Follow(g, tx))
      BY <2>2 DEF a
    <3>7. Follow(s, Follow(b, e)) = Follow(a, Follow(g, e))
      BY <3>3, <3>4, <3>5, <3>6
    <3> QED BY <3>7 DEF a, b
  <2>7. Left(ge) = Follow(Undo(ty), ge)
    BY <2>5
  <2>8. Follow(s, Follow(Undo(tx), e)) \in Products(V)
    <3> HIDE DEF s, V, tx
    <3> QED BY <1>1, <2>1, <2>3, ProductsMultiply
  <2>9. Left(ge) \in Products(V)
    BY <2>6, <2>7, <2>8
  <2> HIDE DEF Left, V, ge, p
  <2> QED BY <2>2, <2>5, <2>9 DEF ge
<1>4. ASSUME NEW e \in H, negative PROVE Follow(MinusUnit, e) \in H
  <2> DEFINE p == e.image[level]
             t == ch[level][p]
             me == Follow(MinusUnit, e)
  <2>1. e \in SignedPermutations /\ Fixes(e, level) /\ p \in D /\ Follow(Undo(t), e) \in Products(V)
    OBVIOUS
  <2>2. t \in SignedPermutations /\ Undo(t) \in SignedPermutations /\ MinusUnit \in SignedPermutations
    BY <2>1, UndoIs, UnitsAre DEF Chained
  <2>3. me \in SignedPermutations /\ \A i \in Points : me.image[i] = e.image[i]
    BY <2>1, <2>2, FollowIs, UnitsAre
  <2>4. Fixes(me, level) /\ me.image[level] = p
    <3> \A i \in 0 .. level - 1 : i \in Points
      BY <1>0, DegreeAssumption DEF Points
    <3> QED BY <2>1, <2>3 DEF Fixes
  <2>5. Follow(Undo(t), me) = Follow(MinusUnit, Follow(Undo(t), e))
    <3> DEFINE a == Undo(t)
    <3>1. a \in SignedPermutations /\ Follow(a, e) \in SignedPermutations
      BY <2>1, <2>2, FollowIs
    <3> HIDE DEF a
    <3>2. /\ Follow(a, me) \in SignedPermutations /\ Follow(MinusUnit, Follow(a, e)) \in SignedPermutations
          /\ \A i \in Points : Follow(a, me).image[i] = a.image[e.image[i]]
          /\ \A i \in Points : Follow(MinusUnit, Follow(a, e)).image[i] = a.image[e.image[i]]
      <4>1. Follow(a, me) \in SignedPermutations /\ Follow(MinusUnit, Follow(a, e)) \in SignedPermutations
        BY <2>2, <2>3, <3>1, FollowIs
      <4>2. ASSUME NEW i \in Points PROVE Follow(a, me).image[i] = a.image[e.image[i]]
        BY <2>3, <3>1, FollowIs
      <4>3. ASSUME NEW i \in Points PROVE Follow(MinusUnit, Follow(a, e)).image[i] = a.image[e.image[i]]
        <5>1. Follow(a, e).image[i] = a.image[e.image[i]]
          BY <2>1, <3>1, FollowIs
        <5>2. Follow(a, e).image[i] \in Points
          BY <3>1, SignedIs DEF Valid
        <5>3. Follow(MinusUnit, Follow(a, e)).image[i] = MinusUnit.image[Follow(a, e).image[i]]
          BY <2>2, <3>1, FollowIs
        <5> QED BY <5>1, <5>2, <5>3, UnitsAre
      <4> QED BY <4>1, <4>2, <4>3
    <3>3. Follow(a, me).sign = Follow(MinusUnit, Follow(a, e)).sign
      <4>1. me.sign = (-1) * e.sign /\ Follow(a, me).sign = a.sign * me.sign
        BY <2>1, <2>2, <2>3, <3>1, FollowIs, UnitsAre
      <4>2. Follow(MinusUnit, Follow(a, e)).sign = (-1) * Follow(a, e).sign /\ Follow(a, e).sign = a.sign * e.sign
        BY <2>1, <2>2, <3>1, FollowIs, UnitsAre
      <4>3. a.sign \in {-1, 1} /\ e.sign \in {-1, 1}
        BY <2>1, <3>1, SignedIs
      <4> QED BY <4>1, <4>2, <4>3
    <3>4. Follow(a, me) = Follow(MinusUnit, Follow(a, e))
      <4> DEFINE y == Follow(a, me)
                 z == Follow(MinusUnit, Follow(a, e))
      <4>1. y \in SignedPermutations /\ z \in SignedPermutations /\ y.sign = z.sign
            /\ \A i \in Points : y.image[i] = z.image[i]
        BY <3>2, <3>3
      <4> HIDE DEF y, z
      <4>2. y = z
        BY <4>1, SameSigned
      <4> QED BY <4>2 DEF y, z
    <3> QED BY <3>4 DEF a
  <2>6. Left(me) = Follow(Undo(t), me)
    BY <2>4
  <2>7. Follow(MinusUnit, Follow(Undo(t), e)) \in Products(V)
    <3>1. MinusUnit \in V
      BY <1>4 DEF With
    <3> HIDE DEF V, t
    <3> QED BY <1>1, <2>1, <3>1, ProductsAre DEF Absorbs
  <2>8. Left(me) \in Products(V)
    BY <2>5, <2>6, <2>7
  <2> HIDE DEF Left, V, me, p
  <2> QED BY <2>1, <2>3, <2>4, <2>8 DEF me
<1>5. Absorbs(H, W)
  <2>1. ASSUME NEW g \in W, NEW e \in H PROVE Follow(g, e) \in H
    <3>1. g \in Used(gens, level) \/ (negative /\ g = MinusUnit)
      BY DEF With
    <3> HIDE DEF H
    <3> QED BY <1>3, <1>4, <3>1
  <2> HIDE DEF H, W
  <2> QED BY <1>2, <2>1 DEF Absorbs
<1>6. x \in H
  <2> H \in SUBSET SignedPermutations
    OBVIOUS
  <2> HIDE DEF H
  <2> QED BY <1>1, <1>5, ProductsAre
<1> QED
  BY <1>1, <1>6

\* The last level knows nothing but the sign.
LEMMA BottomIs ==
  ASSUME NEW gens, IsStrong(gens), NEW negative \in BOOLEAN
  PROVE  /\ Products(With(gens, Degree, negative)) = {Unit} \cup (IF negative THEN {MinusUnit} ELSE {})
         /\ Cardinality(Products(With(gens, Degree, negative))) = IF negative THEN 2 ELSE 1
<1> DEFINE M == IF negative THEN {MinusUnit} ELSE {}
           W == With(gens, Degree, negative)
           B == {Unit} \cup M
<1>0. Degree \in 0 .. Degree
  BY DegreeAssumption
<1>1. W = M /\ M \in SUBSET SignedPermutations /\ B \in SUBSET SignedPermutations
  BY <1>0, WithIs, UnitsAre
<1>2. Absorbs(B, M)
  <2>1. Follow(MinusUnit, Unit) = MinusUnit
    BY UnitsAre, GroupLaws
  <2>2. Follow(MinusUnit, MinusUnit) = Unit
    <3>1. /\ Follow(MinusUnit, MinusUnit) \in SignedPermutations
          /\ Follow(MinusUnit, MinusUnit).sign = 1
          /\ \A i \in Points : Follow(MinusUnit, MinusUnit).image[i] = i
      BY FollowIs, UnitsAre
    <3> QED BY <3>1, UnitsAre, SameSigned
  <2> QED BY <2>1, <2>2 DEF Absorbs
<1>3. Products(M) \subseteq B
  <2> HIDE DEF B, M
  <2> QED BY <1>1, <1>2, ProductsAre
<1>4. B \subseteq Products(M)
  <2>1. Unit \in Products(M) /\ M \subseteq Products(M)
    <3> HIDE DEF M
    <3> QED BY <1>1, ProductsAre DEF Absorbs
  <2> QED BY <2>1
<1>5. Unit # MinusUnit
  BY UnitsAre
<1>6. Cardinality(B) = IF negative THEN 2 ELSE 1
  <2>1. IsFiniteSet({Unit}) /\ Cardinality({Unit}) = 1
    BY FS_Singleton
  <2>2. Cardinality({Unit} \cup {MinusUnit}) = 2
    BY <1>5, <2>1, FS_AddElement
  <2>3. negative => B = {Unit} \cup {MinusUnit}
    OBVIOUS
  <2>4. ~negative => B = {Unit}
    OBVIOUS
  <2> HIDE DEF B
  <2> QED BY <2>1, <2>2, <2>3, <2>4
<1> QED
  BY <1>1, <1>3, <1>4, <1>6

\* Schreier: where the Schreier generators sift through, so does every product.
LEMMA ProductsPass ==
  ASSUME NEW gens, IsStrong(gens), NEW ch, Chained(gens, ch),
         NEW negative \in BOOLEAN, Closed(gens, ch, negative)
  PROVE  \A level \in 0 .. Degree : \A x \in Products(With(gens, level, negative)) : Passes(ch, x, level, negative)
<1> DEFINE Fine(level) == \A x \in Products(With(gens, level, negative)) : Passes(ch, x, level, negative)
           P == {level \in 0 .. Degree : Fine(level)}
<1>0. /\ gens \in Seq(SignedPermutations) /\ Degree \in Nat /\ Degree \in 0 .. Degree
      /\ \A level \in 0 .. Degree - 1 : level \in Points /\ level \in 0 .. Degree /\ level + 1 \in 0 .. Degree
  BY DegreeAssumption DEF IsStrong, Points
<1>1. Degree \in P
  <2>1. ASSUME NEW x \in Products(With(gens, Degree, negative)) PROVE Passes(ch, x, Degree, negative)
    <3>1. x \in {Unit} \cup (IF negative THEN {MinusUnit} ELSE {})
      BY BottomIs
    <3>2. x \in SignedPermutations /\ Sift(ch, x, Degree) = x
      BY <1>0, <3>1, UnitsAre, SiftEnds
    <3>3. x.image = Identity /\ (x.sign = 1 \/ negative)
      BY <3>1 DEF Unit, MinusUnit
    <3> QED BY <3>2, <3>3 DEF Passes
  <2> QED BY <1>0, <2>1
<1>2. ASSUME NEW level \in 0 .. Degree - 1, level + 1 \in P PROVE level \in P
  <2>1. ASSUME NEW x \in Products(With(gens, level, negative)) PROVE Passes(ch, x, level, negative)
    <3> DEFINE q == Follow(Undo(ch[level][x.image[level]]), x)
    <3>1. /\ x \in SignedPermutations /\ Fixes(x, level) /\ x.image[level] \in DOMAIN ch[level]
          /\ q \in Products(With(gens, level + 1, negative))
      BY <1>0, ProductsSplit
    <3>2. Sift(ch, x, level) = Sift(ch, q, level + 1)
      BY <1>0, <3>1, SiftPeels
    <3>3. Passes(ch, q, level + 1, negative)
      BY <1>2, <3>1
    <3> HIDE DEF q
    <3> QED BY <3>2, <3>3 DEF Passes
  <2> HIDE DEF Passes
  <2> QED BY <1>0, <2>1
<1>3. \A level \in 0 .. Degree : level \in P
  <2> HIDE DEF P
  <2> QED BY <1>0, <1>1, <1>2, Downward
<1> QED
  BY <1>3

\* An element sifts through the whole chain exactly when it is a product.
LEMMA MembersAre ==
  ASSUME NEW gens, IsStrong(gens), NEW ch, Chained(gens, ch),
         NEW negative \in BOOLEAN, Closed(gens, ch, negative), NEW x \in SignedPermutations
  PROVE  Passes(ch, x, 0, negative) <=> x \in Products(Known(gens, negative))
<1>0. 0 \in 0 .. Degree /\ Fixes(x, 0)
  BY DegreeAssumption DEF Fixes
<1>1. With(gens, 0, negative) = Known(gens, negative)
  BY <1>0, WithIs
<1>2. ASSUME Passes(ch, x, 0, negative) PROVE x \in Products(With(gens, 0, negative))
  BY <1>0, <1>2, PassesMeans
<1>3. ASSUME x \in Products(With(gens, 0, negative)) PROVE Passes(ch, x, 0, negative)
  BY <1>0, <1>3, ProductsPass
<1> QED
  BY <1>1, <1>2, <1>3

-----------------------------------------------------------------------------
(* The order *)

\* A level has as many products as points with a representative, each as often
\* as the next level has products.
LEMMA LevelsMultiply ==
  ASSUME NEW gens, IsStrong(gens), NEW ch, Chained(gens, ch), NEW level \in Points,
         NEW negative \in BOOLEAN, Closed(gens, ch, negative)
  PROVE  /\ Cardinality(Products(With(gens, level, negative))) =
              Cardinality(DOMAIN ch[level]) * Cardinality(Products(With(gens, level + 1, negative)))
         /\ Cardinality(DOMAIN ch[level]) \in Nat
         /\ Cardinality(Products(With(gens, level + 1, negative))) \in Nat
<1> DEFINE W == With(gens, level, negative)
           V == With(gens, level + 1, negative)
           D == DOMAIN ch[level]
           G == Products(W)
           N == Products(V)
           f == [pair \in D \X N |-> Follow(ch[level][pair[1]], pair[2])]
<1>0. /\ level \in 0 .. Degree /\ level + 1 \in 0 .. Degree /\ gens \in Seq(SignedPermutations)
      /\ level \in Nat /\ level + 1 \in Nat /\ level <= level + 1 /\ level \in 0 .. (level + 1) - 1
  BY PointsAre, DegreeAssumption DEF IsStrong
<1>1. W \in SUBSET SignedPermutations /\ V \in SUBSET SignedPermutations
  BY <1>0, WithIs
<1>2. /\ \A x \in G : x \in SignedPermutations /\ Fixes(x, level)
      /\ \A x \in N : x \in SignedPermutations /\ Fixes(x, level + 1)
  BY <1>0, WithIs
<1>3. \A p \in D : /\ ch[level][p] \in SignedPermutations /\ ch[level][p] \in G
                   /\ ch[level][p].image[level] = p /\ p \in Points
  <2>1. W \subseteq G
    <3> HIDE DEF W
    <3> QED BY <1>1, ProductsAre
  <2>2. Used(gens, level) \in SUBSET SignedPermutations /\ Used(gens, level) \subseteq G
    BY <2>1, <1>1 DEF With
  <2>3. Products(Used(gens, level)) \subseteq G
    <3> HIDE DEF W
    <3> QED BY <1>1, <2>2, ProductsWithin
  <2> QED BY <2>3 DEF Chained
<1>4. N \subseteq G
  <2>1. V \subseteq W
    <3>1. Used(gens, level + 1) \subseteq Used(gens, level)
      BY <1>0, UsedShrinks
    <3> QED BY <3>1 DEF With
  <2>2. W \subseteq G
    <3> HIDE DEF W
    <3> QED BY <1>1, ProductsAre
  <2> HIDE DEF W, V
  <2> QED BY <1>1, <2>1, <2>2, ProductsWithin
<1>5. IsFiniteSet(D) /\ IsFiniteSet(N) /\ IsFiniteSet(G)
  <2>1. D \subseteq Points
    BY DEF Chained
  <2>2. N \subseteq SignedPermutations /\ G \subseteq SignedPermutations
    BY <1>2
  <2> HIDE DEF D, N, G
  <2> QED BY <2>1, <2>2, PointsAre, SignedAreFinite, FS_Subset
<1>6. \A p \in D, h \in N : /\ f[<<p, h>>] = Follow(ch[level][p], h)
                            /\ f[<<p, h>>] \in G
                            /\ f[<<p, h>>].image[level] = p
  <2>1. ASSUME NEW p \in D, NEW h \in N
        PROVE  Follow(ch[level][p], h) \in G /\ Follow(ch[level][p], h).image[level] = p
    <3>1. Follow(ch[level][p], h) \in G
      <4> HIDE DEF W, V, D
      <4> QED BY <1>1, <1>3, <1>4, ProductsMultiply
    <3>2. h.image[level] = level
      BY <1>0, <1>2 DEF Fixes
    <3> QED BY <3>1, <3>2, <1>2, <1>3, FollowIs
  <2>2. ASSUME NEW p \in D, NEW h \in N PROVE f[<<p, h>>] = Follow(ch[level][p], h)
    <3> HIDE DEF D, N
    <3> QED OBVIOUS
  <2> HIDE DEF f, D, N, G
  <2> QED BY <2>1, <2>2
<1>7. f \in [D \X N -> G]
  <2>1. ASSUME NEW pair \in D \X N PROVE Follow(ch[level][pair[1]], pair[2]) \in G
    <3>1. pair = <<pair[1], pair[2]>> /\ pair[1] \in D /\ pair[2] \in N
      <4> HIDE DEF D, N
      <4> QED OBVIOUS
    <3>2. f[<<pair[1], pair[2]>>] \in G /\ f[<<pair[1], pair[2]>>] = Follow(ch[level][pair[1]], pair[2])
      <4> HIDE DEF f, D, N, G
      <4> QED BY <1>6, <3>1
    <3> HIDE DEF f, D, N, G
    <3> QED BY <3>2
  <2> HIDE DEF D, N, G
  <2> QED BY <2>1
<1>8. \A a, b \in D \X N : f[a] = f[b] => a = b
  <2>1. ASSUME NEW p \in D, NEW h \in N, NEW q \in D, NEW k \in N, f[<<p, h>>] = f[<<q, k>>]
        PROVE  p = q /\ h = k
    <3>1. p = q
      <4> HIDE DEF f, D, N
      <4> QED BY <1>6, <2>1
    <3> DEFINE t == ch[level][p]
    <3>2. t \in SignedPermutations /\ h \in SignedPermutations /\ k \in SignedPermutations
          /\ Undo(t) \in SignedPermutations
      BY <1>2, <1>3, UndoIs
    <3>3. Follow(t, h) = Follow(t, k)
      <4> HIDE DEF f, D, N
      <4> QED BY <1>6, <2>1, <3>1
    <3> HIDE DEF t
    <3>4. Follow(Undo(t), Follow(t, h)) = h /\ Follow(Undo(t), Follow(t, k)) = k
      <4>1. /\ Follow(Follow(Undo(t), t), h) = Follow(Undo(t), Follow(t, h))
            /\ Follow(Follow(Undo(t), t), k) = Follow(Undo(t), Follow(t, k))
        BY <3>2, GroupLaws
      <4>2. Follow(Undo(t), t) = Unit /\ Follow(Unit, h) = h /\ Follow(Unit, k) = k
        BY <3>2, GroupLaws
      <4> QED BY <4>1, <4>2
    <3> QED BY <3>1, <3>3, <3>4
  <2>2. ASSUME NEW a \in D \X N, NEW b \in D \X N, f[a] = f[b] PROVE a = b
    <3>1. /\ a = <<a[1], a[2]>> /\ a[1] \in D /\ a[2] \in N
          /\ b = <<b[1], b[2]>> /\ b[1] \in D /\ b[2] \in N
      <4> HIDE DEF D, N
      <4> QED OBVIOUS
    <3>2. f[<<a[1], a[2]>>] = f[<<b[1], b[2]>>]
      <4> HIDE DEF f, D, N
      <4> QED BY <2>2, <3>1
    <3>3. a[1] = b[1] /\ a[2] = b[2]
      <4> HIDE DEF f, D, N
      <4> QED BY <2>1, <3>1, <3>2
    <3> HIDE DEF f, D, N
    <3> QED BY <3>1, <3>3
  <2> HIDE DEF f, D, N
  <2> QED BY <2>2
<1>9. \A x \in G : \E a \in D \X N : f[a] = x
  <2>1. ASSUME NEW x \in G PROVE \E a \in D \X N : f[a] = x
    <3> DEFINE t == ch[level][x.image[level]]
               h == Follow(Undo(t), x)
    <3>1. x \in SignedPermutations /\ x.image[level] \in D /\ h \in N
      BY ProductsSplit
    <3>2. t \in SignedPermutations /\ Undo(t) \in SignedPermutations
      BY <1>3, <3>1, UndoIs
    <3>3. Follow(t, h) = x
      <4>1. Follow(Follow(t, Undo(t)), x) = Follow(t, h)
        BY <3>1, <3>2, GroupLaws
      <4>2. Follow(t, Undo(t)) = Unit /\ Follow(Unit, x) = x
        BY <3>1, <3>2, GroupLaws
      <4> QED BY <4>1, <4>2
    <3>4. f[<<x.image[level], h>>] = Follow(t, h)
      <4> HIDE DEF f, D, N, h
      <4> QED BY <1>6, <3>1
    <3>5. <<x.image[level], h>> \in D \X N
      BY <3>1
    <3> HIDE DEF f, D, N, h
    <3> QED BY <3>3, <3>4, <3>5
  <2> HIDE DEF f, D, N, G
  <2> QED BY <2>1
<1>10. f \in Injection(D \X N, G) /\ f \in Surjection(D \X N, G)
  <2> HIDE DEF f, D, N, G
  <2>1. f \in Injection(D \X N, G)
    BY <1>7, <1>8, Fun_IsInj
  <2>2. f \in Surjection(D \X N, G)
    BY <1>7, <1>9, Fun_IsSurj
  <2> QED BY <2>1, <2>2
<1>11. Cardinality(G) = Cardinality(D) * Cardinality(N) /\ Cardinality(D) \in Nat /\ Cardinality(N) \in Nat
  <2> HIDE DEF f, D, N, G
  <2>1. IsFiniteSet(D \X N) /\ Cardinality(D \X N) = Cardinality(D) * Cardinality(N)
    BY <1>5, FS_Product
  <2>2. Cardinality(G) = Cardinality(D \X N)
    BY <1>10, <2>1, FS_Surjection
  <2> QED BY <1>5, <2>1, <2>2, FS_CardinalityType
<1> QED
  BY <1>11

\* compute_order, level by level.
LEMMA OrderRuns ==
  ASSUME NEW gens, IsStrong(gens), NEW ch, Chained(gens, ch), NEW negative \in BOOLEAN
  PROVE  \E u : /\ u[0] = IF negative THEN 2 ELSE 1
                /\ \A level \in 0 .. Degree : u[level] \in Nat
                /\ \A level \in 0 + 1 .. Degree : u[level] = u[level - 1] * Cardinality(DOMAIN ch[level - 1])
                /\ OrderOf(ch, negative) = u[Degree]
<1> DEFINE zero == IF negative THEN 2 ELSE 1
           Step(f) == [level \in 0 .. Degree |->
                         IF level = 0 THEN IF negative THEN 2 ELSE 1
                         ELSE f[level - 1] * Cardinality(DOMAIN ch[level - 1])]
           u == CHOOSE f : f = Step(f)
           F == [p \in Nat \X (0 + 1 .. Degree) |-> p[1] * Cardinality(DOMAIN ch[p[2] - 1])]
<1>0. /\ Degree \in Nat /\ 0 <= Degree /\ 0 \in 0 .. Degree /\ zero \in Nat
      /\ \A level \in 0 + 1 .. Degree : level - 1 \in Points /\ level # 0 /\ level - 1 \in 0 .. Degree
                                        /\ level \in 0 .. Degree
      /\ \A level \in 0 .. Degree : level # 0 => level \in 0 + 1 .. Degree
  BY DegreeAssumption DEF Points
<1>1. OrderOf(ch, negative) = u[Degree]
  BY DEF OrderOf
<1>2. ASSUME NEW level \in 0 + 1 .. Degree PROVE Cardinality(DOMAIN ch[level - 1]) \in Nat
  <2> DEFINE D == DOMAIN ch[level - 1]
  <2>1. D \subseteq Points
    BY <1>0 DEF Chained
  <2> HIDE DEF D
  <2>2. IsFiniteSet(D)
    BY <2>1, PointsAre, FS_Subset
  <2>3. Cardinality(D) \in Nat
    BY <2>2, FS_CardinalityType
  <2> QED BY <2>3 DEF D
<1>3. \A n \in Nat, level \in 0 + 1 .. Degree : n * Cardinality(DOMAIN ch[level - 1]) \in Nat
  BY <1>2
<1>4. F \in [Nat \X (0 + 1 .. Degree) -> Nat]
  BY <1>3
<1>5. \E h \in [0 .. Degree -> Nat] : Iterates(h, zero, F, 0, Degree)
  <2>1. 0 \in Nat
    OBVIOUS
  <2> HIDE DEF F, zero
  <2> QED BY <1>0, <1>4, <2>1, IteratesExist
<1>6. \E h : h = Step(h)
  <2>1. PICK h \in [0 .. Degree -> Nat] : Iterates(h, zero, F, 0, Degree)
    BY <1>5
  <2>2. h = [level \in 0 .. Degree |-> IF level = 0 THEN zero ELSE F[<<h[level - 1], level>>]]
    BY <2>1 DEF Iterates
  <2>3. ASSUME NEW level \in 0 .. Degree, level # 0
        PROVE  F[<<h[level - 1], level>>] = h[level - 1] * Cardinality(DOMAIN ch[level - 1])
    <3>1. level \in 0 + 1 .. Degree /\ h[level - 1] \in Nat
      BY <1>0, <2>3
    <3> QED BY <3>1
  <2> HIDE DEF F
  <2>4. h = Step(h)
    BY <2>2, <2>3
  <2> HIDE DEF Step
  <2> QED BY <2>4
<1>7. u = Step(u)
  <2> HIDE DEF Step
  <2> QED BY <1>6
<1> HIDE DEF u
<1>8. /\ u[0] = zero
      /\ \A level \in 0 + 1 .. Degree : u[level] = u[level - 1] * Cardinality(DOMAIN ch[level - 1])
  <2>1. \A level \in 0 .. Degree :
          u[level] = IF level = 0 THEN zero ELSE u[level - 1] * Cardinality(DOMAIN ch[level - 1])
    BY <1>7
  <2> HIDE DEF zero
  <2> QED BY <2>1, <1>0
<1>9. \A level \in 0 .. Degree : u[level] \in Nat
  <2> DEFINE P == {level \in 0 .. Degree : u[level] \in Nat}
  <2>1. 0 \in P
    BY <1>0, <1>8
  <2>2. ASSUME NEW level \in 0 + 1 .. Degree, level - 1 \in P PROVE level \in P
    BY <1>0, <1>3, <1>8, <2>2
  <2>3. \A level \in 0 .. Degree : level \in P
    <3> HIDE DEF P
    <3> QED BY <1>0, <2>1, <2>2, Along
  <2> QED BY <2>3
<1> QED
  BY <1>1, <1>8, <1>9

\* compute_order counts the products.
LEMMA OrderIs ==
  ASSUME NEW gens, IsStrong(gens), NEW ch, Chained(gens, ch),
         NEW negative \in BOOLEAN, Closed(gens, ch, negative)
  PROVE  OrderOf(ch, negative) = Cardinality(Products(Known(gens, negative)))
<1> DEFINE size == [level \in 0 .. Degree |-> Cardinality(Products(With(gens, level, negative)))]
           b == IF negative THEN 2 ELSE 1
<1>1. PICK u : /\ u[0] = b
               /\ \A level \in 0 .. Degree : u[level] \in Nat
               /\ \A level \in 0 + 1 .. Degree : u[level] = u[level - 1] * Cardinality(DOMAIN ch[level - 1])
               /\ OrderOf(ch, negative) = u[Degree]
  BY OrderRuns
<1>2. /\ Degree \in Nat /\ 0 \in 0 .. Degree /\ Degree \in 0 .. Degree
      /\ \A level \in 0 + 1 .. Degree : level - 1 \in Points /\ level - 1 \in 0 .. Degree /\ level \in 0 .. Degree
                                        /\ (level - 1) + 1 = level
  BY DegreeAssumption DEF Points
<1>3. ASSUME NEW level \in 0 .. Degree PROVE size[level] \in Nat
  <2> DEFINE G == Products(With(gens, level, negative))
  <2>1. G \subseteq SignedPermutations
    BY WithIs
  <2> HIDE DEF G
  <2>2. Cardinality(G) \in Nat
    BY <2>1, SignedAreFinite, FS_Subset, FS_CardinalityType
  <2> QED BY <2>2 DEF G
<1>4. size[Degree] = b
  BY <1>2, BottomIs
<1>5. ASSUME NEW level \in 0 + 1 .. Degree
      PROVE  /\ size[level - 1] = Cardinality(DOMAIN ch[level - 1]) * size[level]
             /\ Cardinality(DOMAIN ch[level - 1]) \in Nat
  <2> DEFINE l == level - 1
  <2>1. l \in Points /\ l + 1 = level /\ l \in 0 .. Degree /\ level \in 0 .. Degree
    BY <1>2
  <2> HIDE DEF l
  <2>2. /\ Cardinality(Products(With(gens, l, negative))) =
             Cardinality(DOMAIN ch[l]) * Cardinality(Products(With(gens, l + 1, negative)))
        /\ Cardinality(DOMAIN ch[l]) \in Nat
    BY <2>1, LevelsMultiply
  <2>3. size[l] = Cardinality(DOMAIN ch[l]) * size[level]
    BY <2>1, <2>2
  <2> HIDE DEF size
  <2> QED BY <2>2, <2>3 DEF l
<1> HIDE DEF size
<1> DEFINE P == {level \in 0 .. Degree : u[level] * size[level] = b * size[0]}
<1>6. 0 \in P
  BY <1>1, <1>2
<1>7. ASSUME NEW level \in 0 + 1 .. Degree, level - 1 \in P PROVE level \in P
  <2> DEFINE d == Cardinality(DOMAIN ch[level - 1])
             l == level - 1
  <2>1. u[l] * size[l] = b * size[0]
    BY <1>7
  <2>2. /\ u[level] = u[l] * d /\ size[l] = d * size[level]
        /\ u[l] \in Nat /\ d \in Nat /\ size[level] \in Nat
    BY <1>1, <1>2, <1>3, <1>5
  <2> HIDE DEF d, l, b
  <2>3. u[l] * d * size[level] = u[l] * (d * size[level])
    BY <2>2
  <2>4. u[level] * size[level] = b * size[0]
    BY <2>1, <2>2, <2>3
  <2> QED BY <1>2, <2>4
<1>8. Degree \in P
  <2>1. 0 \in Nat
    OBVIOUS
  <2> HIDE DEF P
  <2> QED BY <2>1, <1>2, <1>6, <1>7, Along
<1>9. u[Degree] * b = b * size[0]
  BY <1>4, <1>8
<1>10. u[Degree] = size[0]
  <2>1. u[Degree] \in Nat /\ size[0] \in Nat
    BY <1>1, <1>2, <1>3
  <2>2. CASE negative
    BY <1>9, <2>1, <2>2
  <2>3. CASE ~negative
    BY <1>9, <2>1, <2>3
  <2> QED BY <2>2, <2>3
<1>11. size[0] = Cardinality(Products(Known(gens, negative)))
  BY <1>2, WithIs DEF size
<1> QED
  BY <1>1, <1>10, <1>11

-----------------------------------------------------------------------------
(* Orbits *)

\* Another round finds the points found before.
LEMMA SpreadIs ==
  ASSUME IsStrong(strong), NEW seen \in SUBSET Points
  PROVE  /\ Spread(seen) \in SUBSET Points /\ seen \subseteq Spread(seen)
         /\ \A g \in Entries(strong), p \in seen : g.image[p] \in Spread(seen)
         /\ \A q \in Spread(seen) : q \in seen \/ \E g \in Entries(strong), p \in seen : q = g.image[p]
<1>1. \A k \in DOMAIN strong : strong[k] \in SignedPermutations
  BY DEF IsStrong
<1>2. \A k \in DOMAIN strong, p \in Points : strong[k].image[p] \in Points
  BY <1>1, SignedIs DEF Valid
<1> QED
  BY <1>2 DEF Spread, Entries

\* phy_perm_group_orbit, round by round.
LEMMA OrbitRuns ==
  ASSUME IsStrong(strong), NEW point \in Points
  PROVE  \E seen : /\ seen[0] = {point}
                   /\ \A n \in 0 .. Degree : seen[n] \in SUBSET Points
                   /\ \A n \in 0 + 1 .. Degree : seen[n] = Spread(seen[n - 1])
                   /\ Orbit(point) = seen[Degree]
<1> DEFINE Step(f) == [n \in 0 .. Degree |-> IF n = 0 THEN {point} ELSE Spread(f[n - 1])]
           seen == CHOOSE f : f = Step(f)
           S == SUBSET Points
           F == [p \in S \X (0 + 1 .. Degree) |-> Spread(p[1])]
<1>0. /\ Degree \in Nat /\ 0 <= Degree /\ 0 \in 0 .. Degree /\ {point} \in S /\ 0 \in Nat
      /\ \A n \in 0 + 1 .. Degree : n # 0 /\ n - 1 \in 0 .. Degree /\ n \in 0 .. Degree
      /\ \A n \in 0 .. Degree : n # 0 => n \in 0 + 1 .. Degree
  BY DegreeAssumption
<1>1. Orbit(point) = seen[Degree]
  BY DEF Orbit
<1>2. \A s \in S : Spread(s) \in S
  BY SpreadIs
<1>3. F \in [S \X (0 + 1 .. Degree) -> S]
  <2> HIDE DEF S
  <2> QED BY <1>2
<1>4. \E h \in [0 .. Degree -> S] : Iterates(h, {point}, F, 0, Degree)
  <2> HIDE DEF F, S
  <2> QED BY <1>0, <1>3, IteratesExist
<1>5. \E h : h = Step(h)
  <2>1. PICK h \in [0 .. Degree -> S] : Iterates(h, {point}, F, 0, Degree)
    BY <1>4
  <2>2. h = [n \in 0 .. Degree |-> IF n = 0 THEN {point} ELSE F[<<h[n - 1], n>>]]
    BY <2>1 DEF Iterates
  <2>3. ASSUME NEW n \in 0 .. Degree, n # 0 PROVE F[<<h[n - 1], n>>] = Spread(h[n - 1])
    <3> HIDE DEF S
    <3>1. n \in 0 + 1 .. Degree /\ h[n - 1] \in S
      BY <1>0, <2>3
    <3> QED BY <3>1
  <2> HIDE DEF F
  <2>4. h = Step(h)
    BY <2>2, <2>3
  <2> HIDE DEF Step
  <2> QED BY <2>4
<1>6. seen = Step(seen)
  <2> HIDE DEF Step
  <2> QED BY <1>5
<1> HIDE DEF seen
<1>7. seen[0] = {point} /\ \A n \in 0 + 1 .. Degree : seen[n] = Spread(seen[n - 1])
  <2>1. \A n \in 0 .. Degree : seen[n] = IF n = 0 THEN {point} ELSE Spread(seen[n - 1])
    BY <1>6
  <2> QED BY <2>1, <1>0
<1>8. \A n \in 0 .. Degree : seen[n] \in S
  <2> DEFINE P == {n \in 0 .. Degree : seen[n] \in S}
  <2>1. 0 \in P
    BY <1>0, <1>7
  <2>2. ASSUME NEW n \in 0 + 1 .. Degree, n - 1 \in P PROVE n \in P
    BY <1>0, <1>2, <1>7, <2>2
  <2>3. \A n \in 0 .. Degree : n \in P
    <3> HIDE DEF P
    <3> QED BY <1>0, <2>1, <2>2, Along
  <2> QED BY <2>3
<1> QED
  BY <1>1, <1>7, <1>8

\* The orbit of a point is where products of strong generators take it: as many
\* rounds as there are points find all of it.
LEMMA OrbitIs ==
  ASSUME IsStrong(strong), NEW point \in Points, NEW negative \in BOOLEAN
  PROVE  Orbit(point) = {e.image[point] : e \in Products(Known(strong, negative))}
<1> DEFINE K == Known(strong, negative)
           G == Products(K)
           T == {e.image[point] : e \in G}
<1>0. /\ Degree \in Nat /\ 0 \in Nat /\ 0 \in 0 .. Degree /\ Degree \in 0 .. Degree
      /\ \A n \in 0 + 1 .. Degree : n - 1 \in 0 .. Degree /\ n \in 0 .. Degree
  BY DegreeAssumption
<1>1. K \in SUBSET SignedPermutations /\ Entries(strong) \subseteq K
  BY KnownAre DEF IsStrong, Known
<1>2. G \subseteq SignedPermutations /\ Absorbs(G, K)
  <2> HIDE DEF K
  <2> QED BY <1>1, ProductsAre
<1>3. PICK seen : /\ seen[0] = {point}
                  /\ \A n \in 0 .. Degree : seen[n] \in SUBSET Points
                  /\ \A n \in 0 + 1 .. Degree : seen[n] = Spread(seen[n - 1])
                  /\ Orbit(point) = seen[Degree]
  BY OrbitRuns
<1>4. seen[Degree] \subseteq T
  <2> DEFINE P == {n \in 0 .. Degree : seen[n] \subseteq T}
  <2>1. 0 \in P
    <3>1. Unit \in G /\ Unit.image[point] = point
      BY <1>2, UnitsAre DEF Absorbs
    <3> HIDE DEF G
    <3> QED BY <1>0, <1>3, <3>1
  <2>2. ASSUME NEW n \in 0 + 1 .. Degree, n - 1 \in P PROVE n \in P
    <3>1. seen[n - 1] \in SUBSET Points /\ seen[n - 1] \subseteq T
      BY <1>0, <1>3, <2>2
    <3>2. ASSUME NEW q \in Spread(seen[n - 1]) PROVE q \in T
      <4>1. CASE q \in seen[n - 1]
        BY <3>1, <4>1
      <4>2. CASE \E g \in Entries(strong), p \in seen[n - 1] : q = g.image[p]
        <5>1. PICK g \in Entries(strong), p \in seen[n - 1] : q = g.image[p]
          BY <4>2
        <5>2. PICK e \in G : p = e.image[point]
          BY <3>1
        <5>3. Follow(g, e) \in G /\ g \in SignedPermutations /\ e \in SignedPermutations
          <6> HIDE DEF G, K
          <6> QED BY <1>1, <1>2 DEF Absorbs
        <5>4. Follow(g, e).image[point] = q
          BY <5>1, <5>2, <5>3, FollowIs
        <5> HIDE DEF G
        <5> QED BY <5>3, <5>4
      <4> QED BY <3>1, <4>1, <4>2, SpreadIs
    <3>3. seen[n] = Spread(seen[n - 1])
      BY <1>3
    <3> HIDE DEF T
    <3> QED BY <1>0, <3>2, <3>3
  <2>3. Degree \in P
    <3> HIDE DEF P
    <3> QED BY <1>0, <2>1, <2>2, Along
  <2> QED BY <2>3
<1>5. Spread(seen[Degree]) = seen[Degree]
  <2> DEFINE P == {n \in 0 .. Degree : Spread(seen[n]) = seen[n] \/ Cardinality(seen[n]) >= n + 1}
  <2>0. ASSUME NEW s \in SUBSET Points PROVE IsFiniteSet(s) /\ Cardinality(s) \in Nat /\ Cardinality(s) <= Degree
    BY PointsAre, FS_Subset, FS_CardinalityType
  <2>1. 0 \in P
    <3>1. Cardinality(seen[0]) = 1
      BY <1>3, FS_Singleton
    <3> QED BY <1>0, <3>1
  <2>2. ASSUME NEW n \in 0 + 1 .. Degree, n - 1 \in P PROVE n \in P
    <3> DEFINE s == seen[n - 1]
    <3>1. s \in SUBSET Points /\ seen[n] = Spread(s) /\ (Spread(s) = s \/ Cardinality(s) >= (n - 1) + 1)
      BY <1>0, <1>3, <2>2
    <3>2. CASE Spread(s) = s
      BY <1>0, <3>1, <3>2
    <3>3. CASE Spread(s) # s
      <4>1. s \subseteq Spread(s) /\ Spread(s) \in SUBSET Points
        <5> HIDE DEF s
        <5> QED BY <3>1, SpreadIs
      <4>2. Cardinality(s) \in Nat /\ Cardinality(Spread(s)) \in Nat /\ IsFiniteSet(Spread(s))
        <5> HIDE DEF s
        <5> QED BY <2>0, <3>1, <4>1
      <4>3. Cardinality(s) <= Cardinality(Spread(s)) /\ Cardinality(s) # Cardinality(Spread(s))
        <5> HIDE DEF s
        <5> QED BY <3>3, <4>1, <4>2, FS_Subset
      <4>4. Cardinality(seen[n]) >= n + 1
        <5> HIDE DEF s
        <5> QED BY <3>1, <3>3, <4>2, <4>3
      <4> QED BY <1>0, <4>4
    <3> QED BY <3>2, <3>3
  <2>3. Degree \in P
    <3> HIDE DEF P
    <3> QED BY <1>0, <2>1, <2>2, Along
  <2>4. Cardinality(seen[Degree]) \in Nat /\ Cardinality(seen[Degree]) <= Degree
    BY <1>0, <1>3, <2>0
  <2> QED BY <2>3, <2>4, <1>0
<1>6. T \subseteq seen[Degree]
  <2> DEFINE H == {e \in SignedPermutations : e.image[point] \in seen[Degree]}
  <2>1. point \in seen[Degree]
    <3> DEFINE P == {n \in 0 .. Degree : point \in seen[n]}
    <3>1. 0 \in P
      BY <1>0, <1>3
    <3>2. ASSUME NEW n \in 0 + 1 .. Degree, n - 1 \in P PROVE n \in P
      <4>1. seen[n - 1] \in SUBSET Points /\ seen[n] = Spread(seen[n - 1]) /\ point \in seen[n - 1]
        BY <1>0, <1>3, <3>2
      <4>2. seen[n - 1] \subseteq Spread(seen[n - 1])
        BY <4>1, SpreadIs
      <4> QED BY <1>0, <4>1, <4>2
    <3>3. Degree \in P
      <4> HIDE DEF P
      <4> QED BY <1>0, <3>1, <3>2, Along
    <3> QED BY <3>3
  <2>2. Unit \in H /\ (\A e \in H : Follow(MinusUnit, e) \in H)
    <3>1. Unit \in H
      BY <2>1, UnitsAre
    <3>2. ASSUME NEW e \in H PROVE Follow(MinusUnit, e) \in H
      <4>1. e.image[point] \in Points
        BY SignedIs DEF Valid
      <4>2. Follow(MinusUnit, e) \in SignedPermutations /\ Follow(MinusUnit, e).image[point] = e.image[point]
        BY <4>1, FollowIs, UnitsAre
      <4> QED BY <4>2
    <3> QED BY <3>1, <3>2
  <2>3. ASSUME NEW g \in Entries(strong), NEW e \in H PROVE Follow(g, e) \in H
    <3>1. g \in SignedPermutations
      BY <1>1
    <3>2. Follow(g, e) \in SignedPermutations /\ Follow(g, e).image[point] = g.image[e.image[point]]
      BY <3>1, FollowIs
    <3>3. g.image[e.image[point]] \in Spread(seen[Degree])
      <4>1. seen[Degree] \in SUBSET Points /\ e.image[point] \in seen[Degree]
        BY <1>0, <1>3
      <4> QED BY <4>1, SpreadIs
    <3> QED BY <1>5, <3>2, <3>3
  <2>4. Absorbs(H, K)
    <3>1. \A g \in K : g \in Entries(strong) \/ g = MinusUnit
      BY DEF Known
    <3> HIDE DEF H, K
    <3> QED BY <2>2, <2>3, <3>1 DEF Absorbs
  <2>5. G \subseteq H
    <3> H \in SUBSET SignedPermutations
      OBVIOUS
    <3> HIDE DEF H, K
    <3> QED BY <1>1, <2>4, ProductsAre
  <2> HIDE DEF G
  <2> QED BY <2>5
<1> QED
  BY <1>3, <1>4, <1>6

-----------------------------------------------------------------------------
(* Rounds of a pass *)

\* Quotient and remainder, and that there is one of each.
LEMMA DivIs ==
  ASSUME NEW a \in Int, NEW b \in Nat \ {0}
  PROVE  /\ a \div b \in Int /\ a % b \in 0 .. b - 1
         /\ a = b * (a \div b) + (a % b)
<1>1. a \div b \in Int /\ a % b \in 0 .. b - 1
  OBVIOUS
<1>2. a = b * (a \div b) + (a % b)
  OBVIOUS
<1> QED
  BY <1>1, <1>2

\* A quotient and a remainder below the divisor are determined by the number.
LEMMA OneQuotient ==
  ASSUME NEW b \in Nat \ {0}, NEW q \in Int, NEW p \in Int, NEW r \in 0 .. b - 1, NEW s \in 0 .. b - 1,
         b * q + r = b * p + s
  PROVE  q = p /\ r = s
<1>1. b * (q - p) = s - r
  OBVIOUS
<1>2. q - p \in Int
  OBVIOUS
<1>3. CASE q - p >= 1
  <2>1. b * (q - p) >= b
    BY <1>2, <1>3
  <2> QED BY <1>1, <2>1
<1>4. CASE q - p <= -1
  <2>1. b * (q - p) <= -b
    BY <1>2, <1>4
  <2> QED BY <1>1, <2>1
<1>5. CASE q - p = 0
  <2>1. q = p
    BY <1>5
  <2> QED BY <2>1
<1> QED
  BY <1>2, <1>3, <1>4, <1>5

\* A quotient and a remainder below the divisor are what div and mod return.
LEMMA DivisionTells ==
  ASSUME NEW b \in Nat \ {0}, NEW q \in Int, NEW r \in 0 .. b - 1
  PROVE  (b * q + r) \div b = q /\ (b * q + r) % b = r
<1> DEFINE a == b * q + r
<1>1. a \in Int
  OBVIOUS
<1>2. a \div b \in Int /\ a % b \in 0 .. b - 1 /\ a = b * (a \div b) + (a % b)
  <2> HIDE DEF a
  <2> QED BY <1>1, DivIs
<1> DEFINE p == a \div b
           s == a % b
<1>3. p \in Int /\ s \in 0 .. b - 1 /\ b * q + r = b * p + s
  BY <1>2
<1> HIDE DEF p, s, a
<1>4. q = p /\ r = s
  BY <1>3, OneQuotient
<1> QED
  BY <1>4 DEF p, s, a

\* The three loops of a pass visit every level, point and generator.
LEMMA RoundsAre ==
  ASSUME NEW gens \in Seq(SignedPermutations)
  PROVE  /\ Rounds(gens) \in Nat
         /\ \A n \in 1 .. Rounds(gens) : /\ LevelOf(gens, n) \in Points
                                         /\ GeneratorOf(gens, n) \in Entries(gens)
         /\ \A level \in Points, p \in Points, g \in Entries(gens) :
              \E n \in 1 .. Rounds(gens) :
                LevelOf(gens, n) = level /\ PointOf(gens, n) = p /\ GeneratorOf(gens, n) = g
<1> DEFINE c == Len(gens)
           D == Degree
<1>1. c \in Nat /\ D \in Nat \ {0} /\ DOMAIN gens = 1 .. c
  BY DegreeAssumption
<1>2. Points = 0 .. D - 1
  BY DEF Points
<1>3. Rounds(gens) = D * D * c /\ D * D * c \in Nat /\ D * c \in Nat /\ D * D * c = D * (D * c)
  BY <1>1 DEF Rounds
<1>4. ASSUME NEW n \in 1 .. Rounds(gens)
      PROVE  LevelOf(gens, n) \in Points /\ GeneratorOf(gens, n) \in Entries(gens)
  <2>1. c # 0
    <3> HIDE DEF c, D
    <3>1. n \in 1 .. D * D * c
      BY <1>3
    <3>2. c = 0 => D * D * c = 0
      BY <1>1
    <3> QED BY <3>1, <3>2
  <2>2. D * c \in Nat \ {0}
    <3> HIDE DEF c, D
    <3>1. D * c # 0
      BY <1>1, <2>1
    <3> QED BY <1>3, <3>1
  <2> DEFINE w == D * c
             a == n - 1
             q == a \div w
             r == a % w
  <2>3. a \in Int /\ a >= 0 /\ a < D * w
    <3> HIDE DEF c, D
    <3> QED BY <1>3
  <2>4. q \in Int /\ r \in 0 .. w - 1 /\ a = w * q + r
    <3> HIDE DEF w, a
    <3> QED BY <2>2, <2>3, DivIs DEF w
  <2> HIDE DEF q, r
  <2>5. q \in 0 .. D - 1
    <3>0. w \in Nat \ {0}
      BY <2>2
    <3> HIDE DEF w, a, D, c
    <3>1. CASE q <= -1
      <4>1. w * q <= w * (-1)
        BY <2>4, <3>0, <3>1
      <4> QED BY <2>3, <2>4, <3>0, <4>1
    <3>2. CASE q >= D
      <4>1. w * q >= w * D
        BY <1>1, <2>4, <3>0, <3>2
      <4>2. w * D = D * w
        BY <1>1, <3>0
      <4> QED BY <1>1, <2>3, <2>4, <3>0, <4>1, <4>2
    <3> QED BY <1>1, <2>4, <3>1, <3>2
  <2>6. LevelOf(gens, n) = q
    BY DEF LevelOf, q
  <2>7. a % c \in 0 .. c - 1
    <3> HIDE DEF a, c
    <3> QED BY <1>1, <2>1, <2>3, DivIs
  <2>8. GeneratorOf(gens, n) = gens[1 + (a % c)]
    BY DEF GeneratorOf
  <2>9. 1 + (a % c) \in DOMAIN gens
    <3> DEFINE m == a % c
    <3>1. m \in 0 .. c - 1
      BY <2>7
    <3> HIDE DEF m, c
    <3>2. 1 + m \in 1 .. c
      BY <1>1, <3>1
    <3> QED BY <1>1, <3>2 DEF m
  <2> HIDE DEF a, c, D
  <2> QED BY <1>2, <2>5, <2>6, <2>8, <2>9 DEF Entries
<1>5. ASSUME NEW level \in Points, NEW p \in Points, NEW k \in DOMAIN gens
      PROVE  \E n \in 1 .. Rounds(gens) :
               LevelOf(gens, n) = level /\ PointOf(gens, n) = p /\ GeneratorOf(gens, n) = gens[k]
  <2>1. c \in Nat \ {0} /\ level \in 0 .. D - 1 /\ p \in 0 .. D - 1 /\ k - 1 \in 0 .. c - 1 /\ k \in Nat
    BY <1>1, <1>2
  <2> HIDE DEF c, D
  <2> DEFINE w == D * c
             b == D * level + p
             r == c * p + (k - 1)
             a == c * b + (k - 1)
  <2>2. w \in Nat \ {0}
    BY <1>1, <2>1
  <2>3. r \in 0 .. w - 1
    <3>1. c * p <= c * (D - 1) /\ c * p \in Nat
      BY <1>1, <2>1
    <3>2. c * (D - 1) = D * c - c
      BY <1>1, <2>1
    <3> DEFINE y == c * p
               z == D * c
    <3>3. y \in Nat /\ z \in Nat /\ y <= z - c /\ k - 1 \in 0 .. c - 1 /\ c \in Nat
      BY <1>1, <1>3, <2>1, <3>1, <3>2
    <3> HIDE DEF y, z
    <3>4. y + (k - 1) \in 0 .. z - 1
      BY <2>1, <3>3
    <3> QED BY <3>4 DEF y, z
  <2>4. a = w * level + r
    <3>1. c * (D * level + p) = c * (D * level) + c * p
      BY <1>1, <2>1
    <3>2. c * (D * level) = D * c * level
      BY <1>1, <2>1
    <3> QED BY <1>1, <2>1, <3>1, <3>2
  <2>5. b \in Int /\ level \in Int /\ p \in Int
    BY <1>1, <2>1
  <2>6. a \div w = level
    <3> HIDE DEF a, w, r
    <3>1. (w * level + r) \div w = level
      BY <2>2, <2>3, <2>5, DivisionTells
    <3> QED BY <2>4, <3>1
  <2>7. a \div c = b /\ a % c = k - 1
    <3> HIDE DEF b
    <3> QED BY <2>1, <2>5, DivisionTells
  <2>8. b % D = p
    BY <1>1, <2>1, <2>5, DivisionTells
  <2>9. a \in Int /\ 0 <= a /\ a < D * D * c
    <3>1. w * level <= w * (D - 1) /\ w * level \in Nat
      <4> HIDE DEF w
      <4> QED BY <1>1, <2>1, <2>2
    <3>2. w * (D - 1) = D * w - w
      <4> HIDE DEF w
      <4> QED BY <1>1, <2>2
    <3>3. D * w = D * D * c
      BY <1>1, <2>1
    <3> HIDE DEF w, r, a
    <3> QED BY <1>1, <2>1, <2>2, <2>3, <2>4, <3>1, <3>2, <3>3
  <2> DEFINE n == a + 1
  <2>10. n \in 1 .. Rounds(gens) /\ n - 1 = a
    <3> HIDE DEF a
    <3> QED BY <1>3, <2>9
  <2>11. LevelOf(gens, n) = level
    <3> HIDE DEF n, a
    <3> QED BY <2>6, <2>10 DEF LevelOf, c, D
  <2>12. PointOf(gens, n) = p
    <3> HIDE DEF n, a, b
    <3> QED BY <2>7, <2>8, <2>10 DEF PointOf, c, D
  <2>13. GeneratorOf(gens, n) = gens[k]
    <3>1. GeneratorOf(gens, n) = gens[1 + (k - 1)]
      <4> HIDE DEF n, a
      <4> QED BY <2>7, <2>10 DEF GeneratorOf, c
    <3>2. 1 + (k - 1) = k
      BY <2>1
    <3> QED BY <3>1, <3>2
  <2> HIDE DEF n
  <2> QED BY <2>10, <2>11, <2>12, <2>13
<1>6. \A level \in Points, p \in Points, g \in Entries(gens) :
        \E n \in 1 .. Rounds(gens) :
          LevelOf(gens, n) = level /\ PointOf(gens, n) = p /\ GeneratorOf(gens, n) = g
  BY <1>5 DEF Entries
<1> QED
  BY <1>3, <1>4, <1>6

-----------------------------------------------------------------------------
(* The lists a build makes *)

\* A list that knows more makes all that was made.
LEMMA KnowingMore ==
  ASSUME NEW a \in Lists, NEW b \in Lists,
         Known(a.strong, a.negative) \subseteq Known(b.strong, b.negative)
  PROVE  /\ Known(a.strong, a.negative) \in SUBSET SignedPermutations
         /\ Known(b.strong, b.negative) \in SUBSET SignedPermutations
         /\ Products(Known(a.strong, a.negative)) \subseteq Products(Known(b.strong, b.negative))
<1> DEFINE A == Known(a.strong, a.negative)
           B == Known(b.strong, b.negative)
<1>1. A \in SUBSET SignedPermutations /\ B \in SUBSET SignedPermutations
  BY KnownAre DEF Lists
<1>2. A \subseteq B
  OBVIOUS
<1> HIDE DEF A, B
<1>3. B \subseteq Products(B)
  BY <1>1, ProductsAre
<1>4. Products(A) \subseteq Products(B)
  BY <1>1, <1>2, <1>3, ProductsWithin
<1> QED
  BY <1>1, <1>4 DEF A, B

\* initialize_strong_generators: the list makes what the caller's generators
\* make, and no more even when it runs full.
LEMMA InitializeIs ==
  ASSUME Made \subseteq SignedPermutations, generators \in Seq(SignedImages)
  PROVE  LET a == InitializeStrongGenerators IN
         /\ a \in Lists
         /\ Known(a.strong, a.negative) \subseteq Products(Made)
         /\ ~a.failed => Made \subseteq Products(Known(a.strong, a.negative))
<1> DEFINE zero == Listed(<<>>, FALSE)
           N == Len(generators)
           Step(f) == [n \in 0 .. N |->
                         IF n = 0 THEN Listed(<<>>, FALSE)
                         ELSE Offer(f[n - 1], generators[n].image, generators[n].sign)]
           after == CHOOSE f : f = Step(f)
           F == [p \in Lists \X (0 + 1 .. N) |-> Offer(p[1], generators[p[2]].image, generators[p[2]].sign)]
<1>0. /\ N \in Nat /\ 0 <= N /\ 0 \in 0 .. N /\ N \in 0 .. N /\ 0 \in Nat
      /\ \A n \in 0 + 1 .. N : n # 0 /\ n - 1 \in 0 .. N /\ n \in 0 .. N /\ n \in DOMAIN generators
      /\ \A n \in 0 .. N : n # 0 => n \in 0 + 1 .. N
      /\ DOMAIN generators = 1 .. N
  OBVIOUS
<1>1. \A n \in 0 + 1 .. N : generators[n] \in SignedPermutations /\ generators[n] \in Made
  BY <1>0 DEF Made
<1>2. InitializeStrongGenerators = after[N]
  BY DEF InitializeStrongGenerators
<1>3. zero \in Lists /\ Known(zero.strong, zero.negative) = {}
  <2>1. zero.strong = <<>> /\ zero.negative = FALSE
    BY DEF Listed
  <2>2. IsStrong(<<>>)
    BY LimitAssumption DEF IsStrong
  <2>3. zero \in Lists
    BY <2>2 DEF Lists, Listed
  <2>4. Known(<<>>, FALSE) = {}
    BY DEF Known, Entries
  <2> HIDE DEF zero
  <2> QED BY <2>1, <2>3, <2>4
<1> DEFINE OfferAt(acc, n) == Offer(acc, generators[n].image, generators[n].sign)
<1>4. ASSUME NEW acc \in Lists, NEW n \in 0 + 1 .. N
      PROVE  LET a == OfferAt(acc, n) IN
             /\ a \in Lists
             /\ Known(acc.strong, acc.negative) \subseteq Known(a.strong, a.negative)
             /\ acc.failed => a.failed
             /\ ~a.failed => generators[n] \in Products(Known(a.strong, a.negative))
             /\ \A gens \in SUBSET SignedPermutations :
                  Known(acc.strong, acc.negative) \subseteq Products(gens) /\ generators[n] \in Products(gens) =>
                  Known(a.strong, a.negative) \subseteq Products(gens)
  <2> DEFINE x == generators[n]
             a == Offer(acc, x.image, x.sign)
  <2>1. x \in SignedPermutations
    BY <1>1
  <2> HIDE DEF x
  <2>2. /\ a \in Lists
        /\ Known(acc.strong, acc.negative) \subseteq Known(a.strong, a.negative)
        /\ acc.failed => a.failed
        /\ ~a.failed => x \in Products(Known(a.strong, a.negative))
        /\ \A gens \in SUBSET SignedPermutations :
             Known(acc.strong, acc.negative) \subseteq Products(gens) /\ x \in Products(gens) =>
             Known(a.strong, a.negative) \subseteq Products(gens)
    BY <2>1, OfferIs
  <2> QED BY <2>2 DEF x
<1>5. F \in [Lists \X (0 + 1 .. N) -> Lists]
  <2>1. \A acc \in Lists, n \in 0 + 1 .. N : OfferAt(acc, n) \in Lists
    BY <1>4
  <2> HIDE DEF N
  <2> QED BY <2>1
<1>6. \E h \in [0 .. N -> Lists] : Iterates(h, zero, F, 0, N)
  <2> HIDE DEF F, zero, N
  <2> QED BY <1>0, <1>3, <1>5, IteratesExist
<1>7. \E h : h = Step(h)
  <2>1. PICK h \in [0 .. N -> Lists] : Iterates(h, zero, F, 0, N)
    BY <1>6
  <2>2. h = [n \in 0 .. N |-> IF n = 0 THEN zero ELSE F[<<h[n - 1], n>>]]
    BY <2>1 DEF Iterates
  <2>3. ASSUME NEW n \in 0 .. N, n # 0 PROVE F[<<h[n - 1], n>>] = OfferAt(h[n - 1], n)
    <3>1. n \in 0 + 1 .. N /\ h[n - 1] \in Lists
      BY <1>0, <2>3
    <3> HIDE DEF N
    <3> QED BY <3>1
  <2> HIDE DEF F, N
  <2>4. h = Step(h)
    BY <2>2, <2>3
  <2> HIDE DEF Step
  <2> QED BY <2>4
<1>8. after = Step(after)
  <2> HIDE DEF Step
  <2> QED BY <1>7
<1> HIDE DEF after
<1>9. after[0] = zero /\ \A n \in 0 + 1 .. N : after[n] = OfferAt(after[n - 1], n)
  <2>1. \A n \in 0 .. N : after[n] = IF n = 0 THEN zero ELSE OfferAt(after[n - 1], n)
    BY <1>8
  <2> HIDE DEF zero, N, OfferAt
  <2> QED BY <2>1, <1>0
<1> DEFINE K(n) == Known(after[n].strong, after[n].negative)
           Fine(n) == /\ after[n] \in Lists
                      /\ K(n) \subseteq Products(Made)
                      /\ ~after[n].failed => \A k \in 1 .. n : generators[k] \in Products(K(n))
           P == {n \in 0 .. N : Fine(n)}
<1>10. 0 \in P
  <2>1. Fine(0)
    <3>1. after[0] = zero
      BY <1>9
    <3> HIDE DEF zero
    <3> QED BY <1>3, <3>1
  <2> HIDE DEF Fine
  <2> QED BY <1>0, <2>1
<1>11. ASSUME NEW n \in 0 + 1 .. N, n - 1 \in P PROVE n \in P
  <2> DEFINE acc == after[n - 1]
             a == after[n]
             b == OfferAt(acc, n)
  <2>1. /\ acc \in Lists /\ K(n - 1) \subseteq Products(Made)
        /\ ~acc.failed => \A k \in 1 .. n - 1 : generators[k] \in Products(K(n - 1))
    BY <1>11
  <2>2. /\ a \in Lists
        /\ Known(acc.strong, acc.negative) \subseteq Known(a.strong, a.negative)
        /\ acc.failed => a.failed
        /\ ~a.failed => generators[n] \in Products(Known(a.strong, a.negative))
        /\ \A gens \in SUBSET SignedPermutations :
             Known(acc.strong, acc.negative) \subseteq Products(gens) /\ generators[n] \in Products(gens) =>
             Known(a.strong, a.negative) \subseteq Products(gens)
    <3>1. a = b
      BY <1>9
    <3>2. /\ b \in Lists
          /\ Known(acc.strong, acc.negative) \subseteq Known(b.strong, b.negative)
          /\ acc.failed => b.failed
          /\ ~b.failed => generators[n] \in Products(Known(b.strong, b.negative))
          /\ \A gens \in SUBSET SignedPermutations :
               Known(acc.strong, acc.negative) \subseteq Products(gens) /\ generators[n] \in Products(gens) =>
               Known(b.strong, b.negative) \subseteq Products(gens)
      <4> HIDE DEF OfferAt, acc
      <4> QED BY <1>4, <2>1
    <3> HIDE DEF a, b
    <3> QED BY <3>1, <3>2
  <2>3. K(n) \subseteq Products(Made)
    <3>1. generators[n] \in Products(Made)
      BY <1>1, ProductsAre
    <3> QED BY <2>1, <2>2, <3>1
  <2>4. Products(K(n - 1)) \subseteq Products(K(n))
    <3> HIDE DEF acc, a
    <3>1. Products(Known(acc.strong, acc.negative)) \subseteq Products(Known(a.strong, a.negative))
      BY <2>1, <2>2, KnowingMore
    <3> QED BY <3>1 DEF acc, a
  <2>5. ASSUME ~a.failed, NEW k \in 1 .. n PROVE generators[k] \in Products(K(n))
    <3>1. CASE k = n
      BY <2>2, <2>5, <3>1
    <3>2. CASE k # n
      <4>1. k \in 1 .. n - 1
        BY <3>2
      <4>2. ~acc.failed
        BY <2>2, <2>5
      <4>3. generators[k] \in Products(K(n - 1))
        BY <2>1, <4>1, <4>2
      <4> QED BY <2>4, <4>3
    <3> QED BY <3>1, <3>2
  <2>6. Fine(n)
    BY <2>2, <2>3, <2>5
  <2> HIDE DEF Fine
  <2> QED BY <1>0, <2>6
<1>12. N \in P
  <2> HIDE DEF P, N
  <2> QED BY <1>0, <1>10, <1>11, Along
<1>13. /\ after[N] \in Lists /\ K(N) \subseteq Products(Made)
       /\ ~after[N].failed => \A k \in 1 .. N : generators[k] \in Products(K(N))
  BY <1>12
<1>14. ~after[N].failed => Made \subseteq Products(K(N))
  BY <1>0, <1>13 DEF Made
<1> DEFINE last == after[N]
<1> HIDE DEF last
<1>15. /\ last \in Lists /\ Known(last.strong, last.negative) \subseteq Products(Made)
       /\ ~last.failed => Made \subseteq Products(Known(last.strong, last.negative))
  BY <1>13, <1>14 DEF last
<1>16. InitializeStrongGenerators = last
  BY <1>2 DEF last
<1> QED
  BY <1>15, <1>16

\* A round that does not apply, and one that offers a remainder.
Applies(ch, gens, n) == LET level == LevelOf(gens, n) IN
    PointOf(gens, n) \in DOMAIN ch[level] /\ ~(Level(GeneratorOf(gens, n).image) < level)
Offered(ch, gens, n) ==
    Sift(ch, Schreier(ch, LevelOf(gens, n), PointOf(gens, n), GeneratorOf(gens, n)), LevelOf(gens, n) + 1)

\* What a round offers is from the group, and no strong generator.
LEMMA OfferedIs ==
  ASSUME NEW gens, IsStrong(gens), NEW ch, Chained(gens, ch), NEW negative \in BOOLEAN,
         NEW n \in 1 .. Rounds(gens), Applies(ch, gens, n)
  PROVE  LET r == Offered(ch, gens, n) IN
         /\ r \in SignedPermutations
         /\ r \in Products(Known(gens, negative))
         /\ \A k \in DOMAIN gens : r.image # gens[k].image
<1> DEFINE level == LevelOf(gens, n)
           p == PointOf(gens, n)
           g == GeneratorOf(gens, n)
           s == Schreier(ch, level, p, g)
           K == Known(gens, negative)
           r == Sift(ch, s, level + 1)
<1>1. gens \in Seq(SignedPermutations)
  BY DEF IsStrong
<1>2. level \in Points /\ g \in Entries(gens) /\ p \in DOMAIN ch[level] /\ ~(Level(g.image) < level)
  BY <1>1, RoundsAre DEF Applies
<1> HIDE DEF level, p, g
<1>3. /\ level \in 0 .. Degree /\ level + 1 \in 0 .. Degree /\ level \in Nat /\ level + 1 \in Nat
      /\ level <= level + 1 /\ 0 <= level /\ 0 \in Nat /\ 0 <= level + 1
  BY <1>2, PointsAre, DegreeAssumption
<1>4. g \in Used(gens, level)
  <2>1. g \in SignedPermutations
    BY <1>1, <1>2 DEF Entries
  <2>2. Fixes(g, level)
    BY <1>2, <1>3, <2>1, LevelIs
  <2> QED BY <1>2, <2>2 DEF Used
<1>5. s \in SignedPermutations /\ s \in Products(Used(gens, level)) /\ Fixes(s, level + 1)
  BY <1>1, <1>2, <1>4, SchreierIs
<1>6. K \in SUBSET SignedPermutations /\ K \subseteq Products(K)
  <2>1. K \in SUBSET SignedPermutations
    BY <1>1, KnownAre
  <2> HIDE DEF K
  <2> QED BY <2>1, ProductsAre
<1>7. /\ Used(gens, level) \in SUBSET SignedPermutations
      /\ Used(gens, level) \subseteq Products(K) /\ Used(gens, level + 1) \subseteq Products(K)
  <2>1. Used(gens, level) \subseteq K /\ Used(gens, level + 1) \subseteq K
    BY DEF Used, Known
  <2> HIDE DEF K
  <2> QED BY <1>6, <2>1
<1>8. s \in Products(K)
  <2> HIDE DEF s, K
  <2> QED BY <1>5, <1>6, <1>7, ProductsWithin
<1>9. /\ r \in SignedPermutations
      /\ \A k \in DOMAIN gens : r.image # gens[k].image
      /\ r \in Products(K) <=> s \in Products(K)
  <2> HIDE DEF s, K
  <2> QED BY <1>3, <1>5, <1>6, <1>7, SiftIs
<1>10. Offered(ch, gens, n) = r
  BY DEF Offered, level, p, g
<1> HIDE DEF r
<1> QED
  BY <1>8, <1>9, <1>10

\* add_schreier_generators: what a pass adds comes from the group, also when it
\* is cut short, and a whole pass that changes nothing has found that every
\* Schreier generator sifts through.
LEMMA PassIs ==
  ASSUME NEW gens, IsStrong(gens), NEW ch, Chained(gens, ch), negativeIdentity \in BOOLEAN,
         NEW rounds \in 0 .. Rounds(gens)
  PROVE  LET a == AddSchreierGenerators(ch, gens, rounds)
             K == Known(gens, negativeIdentity)
         IN  /\ a \in Lists
             /\ K \subseteq Known(a.strong, a.negative)
             /\ Known(a.strong, a.negative) \subseteq Products(K)
             /\ ~a.changed => a.strong = gens /\ a.negative = negativeIdentity
             /\ rounds = Rounds(gens) /\ ~a.changed /\ ~a.failed => Closed(gens, ch, negativeIdentity)
<1> DEFINE zero == Listed(gens, negativeIdentity)
           N == rounds
           K == Known(gens, negativeIdentity)
           Step(f) == [n \in 0 .. N |->
                         IF n = 0 THEN Listed(gens, negativeIdentity) ELSE Evaluated(Round(ch, gens, f[n - 1], n))]
           after == CHOOSE f : f = Step(f)
           F == [p \in Lists \X (0 + 1 .. N) |-> Round(ch, gens, p[1], p[2])]
<1>0. /\ N \in Nat /\ 0 <= N /\ 0 \in 0 .. N /\ N \in 0 .. N /\ 0 \in Nat
      /\ \A n \in 0 + 1 .. N : n # 0 /\ n - 1 \in 0 .. N /\ n \in 0 .. N /\ n \in 1 .. Rounds(gens)
      /\ \A n \in 0 .. N : n # 0 => n \in 0 + 1 .. N
      /\ gens \in Seq(SignedPermutations)
  <2>1. gens \in Seq(SignedPermutations)
    BY DEF IsStrong
  <2>2. Rounds(gens) \in Nat
    BY <2>1, RoundsAre
  <2> QED BY <2>1, <2>2
<1>1. AddSchreierGenerators(ch, gens, rounds) = after[N]
  BY DEF AddSchreierGenerators
<1>2. /\ zero \in Lists /\ zero.strong = gens /\ zero.negative = negativeIdentity /\ ~zero.changed
      /\ K \in SUBSET SignedPermutations /\ K \subseteq Products(K)
  <2>1. zero \in Lists
    BY <1>0 DEF Lists, Listed
  <2>2. zero.strong = gens /\ zero.negative = negativeIdentity /\ ~zero.changed
    BY DEF Listed
  <2>3. K \in SUBSET SignedPermutations
    BY <1>0, KnownAre
  <2>4. K \subseteq Products(K)
    <3> HIDE DEF K
    <3> QED BY <2>3, ProductsAre
  <2> HIDE DEF zero, K
  <2> QED BY <2>1, <2>2, <2>3, <2>4
<1> DEFINE Sound(n) == Applies(ch, gens, n) =>
               LET r == Offered(ch, gens, n) IN r.image = Identity /\ (r.sign = 1 \/ negativeIdentity)
<1>3. ASSUME NEW acc \in Lists, NEW n \in 0 + 1 .. N
      PROVE  LET a == Round(ch, gens, acc, n) IN
             /\ a \in Lists
             /\ Known(acc.strong, acc.negative) \subseteq Known(a.strong, a.negative)
             /\ Known(acc.strong, acc.negative) \subseteq Products(K) => Known(a.strong, a.negative) \subseteq Products(K)
             /\ acc.failed => a.failed
             /\ ~a.changed => ~acc.changed /\ a.strong = acc.strong /\ a.negative = acc.negative
             /\ acc.strong = gens /\ acc.negative = negativeIdentity /\ ~a.changed /\ ~a.failed => Sound(n)
  <2> DEFINE r == Offered(ch, gens, n)
             a == Round(ch, gens, acc, n)
             b == Offer(acc, r.image, r.sign)
  <2>1. a = IF ~Applies(ch, gens, n) THEN acc ELSE b
    BY DEF Round, Applies, Offered
  <2>2. CASE ~Applies(ch, gens, n)
    <3>1. a = acc
      BY <2>1, <2>2
    <3> HIDE DEF a, K
    <3> QED BY <2>2, <3>1 DEF a
  <2>3. CASE Applies(ch, gens, n)
    <3>1. /\ r \in SignedPermutations /\ r \in Products(K)
          /\ \A k \in DOMAIN gens : r.image # gens[k].image
      BY <1>0, <2>3, OfferedIs
    <3> HIDE DEF r, K
    <3>2. /\ b \in Lists
          /\ Known(acc.strong, acc.negative) \subseteq Known(b.strong, b.negative)
          /\ acc.failed => b.failed
          /\ ~b.changed => ~acc.changed /\ b.strong = acc.strong /\ b.negative = acc.negative
          /\ ~b.changed /\ ~b.failed =>
               \/ r.image = Identity /\ (r.sign = 1 \/ acc.negative)
               \/ \E k \in DOMAIN acc.strong : acc.strong[k].image = r.image
          /\ Known(acc.strong, acc.negative) \subseteq Products(K) => Known(b.strong, b.negative) \subseteq Products(K)
      BY <1>2, <3>1, OfferIs
    <3>3. acc.strong = gens /\ acc.negative = negativeIdentity /\ ~b.changed /\ ~b.failed => Sound(n)
      <4> HIDE DEF b
      <4> QED BY <3>1, <3>2 DEF r
    <3>4. a = b
      BY <2>1, <2>3
    <3> HIDE DEF a, b, Sound
    <3>5. /\ a \in Lists
          /\ Known(acc.strong, acc.negative) \subseteq Known(a.strong, a.negative)
          /\ Known(acc.strong, acc.negative) \subseteq Products(K) => Known(a.strong, a.negative) \subseteq Products(K)
          /\ acc.failed => a.failed
          /\ ~a.changed => ~acc.changed /\ a.strong = acc.strong /\ a.negative = acc.negative
          /\ acc.strong = gens /\ acc.negative = negativeIdentity /\ ~a.changed /\ ~a.failed => Sound(n)
      BY <3>2, <3>3, <3>4
    <3> QED BY <3>5 DEF a
  <2> QED BY <2>2, <2>3
<1>4. F \in [Lists \X (0 + 1 .. N) -> Lists]
  <2>1. \A acc \in Lists, n \in 0 + 1 .. N : Round(ch, gens, acc, n) \in Lists
    BY <1>3
  <2> HIDE DEF N
  <2> QED BY <2>1
<1>5. \E h \in [0 .. N -> Lists] : Iterates(h, zero, F, 0, N)
  <2> HIDE DEF F, zero, N
  <2> QED BY <1>0, <1>2, <1>4, IteratesExist
<1>6. \E h : h = Step(h)
  <2>1. PICK h \in [0 .. N -> Lists] : Iterates(h, zero, F, 0, N)
    BY <1>5
  <2>2. h = [n \in 0 .. N |-> IF n = 0 THEN zero ELSE F[<<h[n - 1], n>>]]
    BY <2>1 DEF Iterates
  <2>3. ASSUME NEW n \in 0 .. N, n # 0 PROVE F[<<h[n - 1], n>>] = Evaluated(Round(ch, gens, h[n - 1], n))
    <3>1. n \in 0 + 1 .. N /\ h[n - 1] \in Lists
      BY <1>0, <2>3
    <3> HIDE DEF N
    <3> QED BY <3>1, EvaluatedIs
  <2> HIDE DEF F, N
  <2>4. h = Step(h)
    BY <2>2, <2>3
  <2> HIDE DEF Step
  <2> QED BY <2>4
<1>7. after = Step(after)
  <2> HIDE DEF Step
  <2> QED BY <1>6
<1> HIDE DEF after
<1>8. after[0] = zero /\ \A n \in 0 + 1 .. N : after[n] = Round(ch, gens, after[n - 1], n)
  <2>1. \A n \in 0 .. N : after[n] = IF n = 0 THEN zero ELSE Evaluated(Round(ch, gens, after[n - 1], n))
    BY <1>7
  <2> HIDE DEF zero, N
  <2> QED BY <2>1, <1>0, EvaluatedIs
<1> DEFINE Good(a, n) == /\ a \in Lists
                         /\ K \subseteq Known(a.strong, a.negative)
                         /\ Known(a.strong, a.negative) \subseteq Products(K)
                         /\ ~a.changed => a.strong = gens /\ a.negative = negativeIdentity
                         /\ ~a.changed /\ ~a.failed => \A m \in 1 .. n : Sound(m)
           P == {n \in 0 .. N : Good(after[n], n)}
<1>9. 0 \in P
  <2>1. Good(zero, 0)
    <3> HIDE DEF zero, Sound
    <3> QED BY <1>2
  <2> HIDE DEF Good, zero
  <2> QED BY <1>0, <1>8, <2>1
<1>10. ASSUME NEW n \in 0 + 1 .. N, n - 1 \in P PROVE n \in P
  <2> DEFINE acc == after[n - 1]
             b == Round(ch, gens, acc, n)
  <2>1. Good(acc, n - 1)
    BY <1>10
  <2>2. /\ b \in Lists
        /\ Known(acc.strong, acc.negative) \subseteq Known(b.strong, b.negative)
        /\ Known(acc.strong, acc.negative) \subseteq Products(K) => Known(b.strong, b.negative) \subseteq Products(K)
        /\ acc.failed => b.failed
        /\ ~b.changed => ~acc.changed /\ b.strong = acc.strong /\ b.negative = acc.negative
        /\ acc.strong = gens /\ acc.negative = negativeIdentity /\ ~b.changed /\ ~b.failed => Sound(n)
    <3>1. acc \in Lists
      BY <2>1
    <3> HIDE DEF acc, Sound, K
    <3> QED BY <3>1, <1>3
  <2>3. Good(b, n)
    <3> HIDE DEF acc, b, Sound, K
    <3>1. ASSUME ~b.changed, ~b.failed, NEW m \in 1 .. n PROVE Sound(m)
      <4>1. CASE m = n
        BY <2>1, <2>2, <3>1, <4>1
      <4>2. CASE m # n
        <5>1. m \in 1 .. n - 1
          BY <4>2
        <5> QED BY <2>1, <2>2, <3>1, <5>1
      <4> QED BY <4>1, <4>2
    <3> QED BY <2>1, <2>2, <3>1
  <2>4. after[n] = b
    BY <1>8
  <2> HIDE DEF Good, b
  <2> QED BY <1>0, <2>3, <2>4
<1>11. Good(after[N], N)
  <2>1. N \in P
    <3> HIDE DEF P, N
    <3> QED BY <1>0, <1>9, <1>10, Along
  <2> HIDE DEF Good
  <2> QED BY <2>1
<1>12. ASSUME rounds = Rounds(gens), \A m \in 1 .. N : Sound(m) PROVE Closed(gens, ch, negativeIdentity)
  <2>1. ASSUME NEW level \in Points, NEW p \in DOMAIN ch[level], NEW g \in Used(gens, level)
        PROVE  Passes(ch, Schreier(ch, level, p, g), level + 1, negativeIdentity)
    <3>1. p \in Points /\ g \in Entries(gens) /\ Fixes(g, level) /\ level \in 0 .. Degree
      BY PointsAre, DegreeAssumption DEF Chained, Used
    <3>2. PICK n \in 1 .. Rounds(gens) :
             LevelOf(gens, n) = level /\ PointOf(gens, n) = p /\ GeneratorOf(gens, n) = g
      BY <1>0, <3>1, RoundsAre
    <3>3. ~(Level(g.image) < level)
      <4>1. g \in SignedPermutations
        BY <1>0, <3>1 DEF Entries
      <4> QED BY <3>1, <4>1, LevelIs
    <3>4. Applies(ch, gens, n)
      BY <3>2, <3>3 DEF Applies
    <3>5. Sound(n)
      BY <1>12
    <3>6. Offered(ch, gens, n) = Sift(ch, Schreier(ch, level, p, g), level + 1)
      BY <3>2 DEF Offered
    <3> QED BY <3>4, <3>5, <3>6 DEF Passes
  <2> QED BY <2>1 DEF Closed
<1> DEFINE last == after[N]
<1>13. /\ last \in Lists
       /\ K \subseteq Known(last.strong, last.negative)
       /\ Known(last.strong, last.negative) \subseteq Products(K)
       /\ ~last.changed => last.strong = gens /\ last.negative = negativeIdentity
       /\ rounds = Rounds(gens) /\ ~last.changed /\ ~last.failed => Closed(gens, ch, negativeIdentity)
  <2> HIDE DEF last, Sound, K
  <2> QED BY <1>11, <1>12 DEF last
<1> HIDE DEF last, K
<1> QED
  BY <1>1, <1>13 DEF last, K

-----------------------------------------------------------------------------
(* Every state of a group *)

\* The inductive invariant.  The lists hold what they may; what the strong
\* generators know is made of the caller's; from the start of a build on they
\* make all of it; what is filed in a chain is from the group and takes its
\* base point there; while passes run the chain is that of the strong
\* generators; once a pass changed nothing, and for as long as the group is
\* built, the Schreier generators sift through; and the order was read then.
Typed ==
    /\ generators \in Seq(SignedImages) /\ Len(generators) <= MaxGenerators
    /\ IsStrong(strong)
    /\ negativeIdentity \in BOOLEAN /\ built \in BOOLEAN /\ order \in Nat
    /\ phase \in {"idle", "chain", "schreier", "order"}

\* What is known of the group is inside it.
Inside == Known(strong, negativeIdentity) \subseteq Products(Made)

\* From the start of a build on, the list produces every caller's generator.
Covered == built \/ phase # "idle" => Made \subseteq Products(Known(strong, negativeIdentity))

\* A representative is in the group, takes the base point of its level where it
\* is filed and fixes the base points before.
Filed == \A level \in DOMAIN chain : \A p \in DOMAIN chain[level] :
            /\ level \in Points
            /\ chain[level][p] \in Products(Made)
            /\ chain[level][p].image[level] = p
            /\ Fixes(chain[level][p], level)

\* A pass runs on the chain of the very list it extends.
Current == phase \in {"schreier", "order"} => chain = ChainBuild(strong)

\* Where a build has ended, no round of a pass would find anything.
Finished == built \/ phase = "order" => Closed(strong, ChainBuild(strong), negativeIdentity)

\* The order of a built group is that of the chain of its list.
Counted == built => phase = "idle" /\ order = OrderOf(ChainBuild(strong), negativeIdentity)

GroupInv == Typed /\ Inside /\ Covered /\ Filed /\ Current /\ Finished /\ Counted

\* What the callers offer are signed permutations.
LEMMA OffersAre ==
  ASSUME NEW list \in Seq(SignedImages)
  PROVE  Entries(list) \in SUBSET SignedPermutations
<1>1. \A x \in SignedImages : x \in SignedPermutations
  BY ImagesAssumption, SignedIs DEF SignedImages, SignedPermutations, Signs, Valid
<1>2. \A k \in DOMAIN list : list[k] \in SignedImages
  OBVIOUS
<1> QED
  BY <1>1, <1>2 DEF Entries

\* What the generators make is made of the entries of their list.
LEMMA MadeAre == Made = Entries(generators)
  BY DEF Made, Entries

\* A chain of the strong generators is filed with elements of the group.
LEMMA ChainsFile ==
  ASSUME Typed, Inside
  PROVE  \A level \in Points : \A p \in DOMAIN ChainBuild(strong)[level] :
            /\ ChainBuild(strong)[level][p] \in Products(Made)
            /\ ChainBuild(strong)[level][p].image[level] = p
            /\ Fixes(ChainBuild(strong)[level][p], level)
<1>1. strong \in Seq(SignedPermutations) /\ Made \in SUBSET SignedPermutations
  BY MadeAre, OffersAre DEF Typed, IsStrong
<1>2. Chained(strong, ChainBuild(strong))
  BY <1>1, ChainIs
<1> SUFFICES ASSUME NEW level \in Points, NEW p \in DOMAIN ChainBuild(strong)[level]
             PROVE  /\ ChainBuild(strong)[level][p] \in Products(Made)
                    /\ ChainBuild(strong)[level][p].image[level] = p
                    /\ Fixes(ChainBuild(strong)[level][p], level)
  OBVIOUS
<1> DEFINE t == ChainBuild(strong)[level][p]
           Q == Used(strong, level)
<1>3. t \in Products(Q) /\ t.image[level] = p
  BY <1>2 DEF Chained
<1>4. level \in 0 .. Degree
  BY PointsAre, DegreeAssumption
<1>5. Q \in SUBSET SignedPermutations /\ Fixes(t, level)
  BY <1>1, <1>3, <1>4, UsedFix
<1>6. Q \subseteq Products(Made)
  BY DEF Used, Inside, Known
<1> HIDE DEF t, Q
<1>7. t \in Products(Made)
  BY <1>1, <1>3, <1>5, <1>6, ProductsWithin
<1> QED
  BY <1>3, <1>5, <1>7 DEF t

\* A new group knows nothing.
LEMMA GroupInvInit == Init => GroupInv
<1> SUFFICES ASSUME Init PROVE GroupInv
  OBVIOUS
<1>1. Typed
  <2>1. IsStrong(<<>>)
    BY LimitAssumption DEF IsStrong
  <2>2. <<>> \in Seq(SignedImages) /\ Len(<<>>) <= MaxGenerators /\ 0 \in Nat
    BY LimitAssumption
  <2> QED BY <2>1, <2>2 DEF Init, Typed
<1>2. Known(strong, negativeIdentity) = {}
  BY DEF Init, Known, Entries
<1>3. Filed
  BY DEF Init, Filed
<1> QED
  BY <1>1, <1>2, <1>3 DEF GroupInv, Inside, Covered, Current, Finished, Counted, Init

\* phy_perm_group_add_generator: more is made, and nothing is answered.
LEMMA GroupInvAdd ==
  ASSUME GroupInv, NEW image \in Images, NEW sign \in Signs, AddGenerator(image, sign)
  PROVE  GroupInv'
<1> DEFINE x == [image |-> image, sign |-> sign]
<1>1. /\ generators \in Seq(SignedImages) /\ x \in SignedImages /\ generators' = Append(generators, x)
      /\ Len(generators) < MaxGenerators /\ phase = "idle" /\ built' = FALSE /\ order' = 0
      /\ UNCHANGED <<strong, negativeIdentity, chain, phase>>
  BY DEF GroupInv, Typed, AddGenerator, SignedImages
<1>2. generators' \in Seq(SignedImages) /\ Len(generators') <= MaxGenerators
  <2>1. Len(generators) \in Nat /\ Len(Append(generators, x)) = Len(generators) + 1
        /\ Append(generators, x) \in Seq(SignedImages)
    <3> HIDE DEF x
    <3> QED BY <1>1
  <2> QED BY <1>1, <2>1, LimitAssumption
<1>3. Typed'
  BY <1>1, <1>2 DEF GroupInv, Typed
<1>4. Entries(generators) \subseteq Entries(generators')
  <2> DEFINE more == Append(generators, x)
  <2>1. \A k \in DOMAIN generators : k \in DOMAIN more /\ more[k] = generators[k]
    <3> HIDE DEF x
    <3> QED BY <1>1
  <2>2. generators' = more
    BY <1>1
  <2> HIDE DEF more
  <2> QED BY <2>1, <2>2 DEF Entries
<1>5. Entries(generators) \in SUBSET SignedPermutations /\ Entries(generators') \in SUBSET SignedPermutations
  BY <1>1, <1>2, OffersAre
<1>6. Products(Made) \subseteq Products(Made')
  <2> DEFINE A == Entries(generators)
             B == Entries(generators')
  <2>1. A \in SUBSET SignedPermutations /\ B \in SUBSET SignedPermutations /\ A \subseteq B
    BY <1>4, <1>5
  <2> HIDE DEF A, B
  <2>2. Products(A) \subseteq Products(B)
    BY <2>1, ProductsAre, ProductsWithin
  <2>3. Made = A /\ Made' = B
    BY DEF Made, Entries, A, B
  <2> QED BY <2>2, <2>3
<1>7. Inside'
  BY <1>1, <1>6 DEF GroupInv, Inside
<1>8. Filed'
  BY <1>1, <1>6 DEF GroupInv, Filed
<1> QED
  BY <1>1, <1>3, <1>7, <1>8 DEF GroupInv, Covered, Current, Finished, Counted

\* phy_perm_group_build_bsgs: the list is made anew from the generators.
LEMMA GroupInvStart ==
  ASSUME GroupInv, StartBuild
  PROVE  GroupInv'
<1> DEFINE a == InitializeStrongGenerators
<1>1. /\ generators \in Seq(SignedImages) /\ UNCHANGED generators /\ Len(generators) <= MaxGenerators
      /\ built' = FALSE /\ order' = 0 /\ strong' = a.strong /\ negativeIdentity' = a.negative
      /\ phase' = (IF a.failed THEN "idle" ELSE "chain") /\ chain' = <<>>
  BY DEF GroupInv, Typed, StartBuild
<1>2. Made \in SUBSET SignedPermutations
  BY <1>1, MadeAre, OffersAre
<1>3. /\ a \in Lists
      /\ Known(a.strong, a.negative) \subseteq Products(Made)
      /\ ~a.failed => Made \subseteq Products(Known(a.strong, a.negative))
  BY <1>1, <1>2, InitializeIs
<1> HIDE DEF a
<1>4. Made' = Made
  BY <1>1 DEF Made
<1>5. IsStrong(a.strong) /\ a.negative \in BOOLEAN /\ a.failed \in BOOLEAN
  BY <1>3 DEF Lists
<1>6. Typed'
  BY <1>1, <1>5 DEF Typed
<1>7. Inside'
  BY <1>1, <1>3, <1>4 DEF Inside
<1>8. Covered'
  BY <1>1, <1>3, <1>4, <1>5 DEF Covered
<1>9. Filed'
  BY <1>1 DEF Filed
<1>10. Current' /\ Finished' /\ Counted'
  BY <1>1 DEF Current, Finished, Counted
<1> QED
  BY <1>6, <1>7, <1>8, <1>9, <1>10 DEF GroupInv

\* phy_perm_chain_build inside the loop.
LEMMA GroupInvChain ==
  ASSUME GroupInv, BuildChain
  PROVE  GroupInv'
<1>1. /\ phase = "chain" /\ chain' = ChainBuild(strong) /\ phase' = "schreier"
      /\ UNCHANGED <<generators, strong, negativeIdentity, built, order>>
  BY DEF BuildChain
<1>2. ~built
  BY <1>1 DEF GroupInv, Counted
<1>3. Made' = Made
  BY <1>1 DEF Made
<1>4. Typed'
  BY <1>1 DEF GroupInv, Typed
<1>5. Inside' /\ Covered'
  BY <1>1, <1>3 DEF GroupInv, Inside, Covered
<1>6. Filed'
  <2>1. DOMAIN ChainBuild(strong) = Points
    BY DEF ChainBuild
  <2>2. \A level \in Points : \A p \in DOMAIN ChainBuild(strong)[level] :
            /\ ChainBuild(strong)[level][p] \in Products(Made)
            /\ ChainBuild(strong)[level][p].image[level] = p
            /\ Fixes(ChainBuild(strong)[level][p], level)
    BY ChainsFile DEF GroupInv
  <2> QED BY <1>1, <1>3, <2>1, <2>2 DEF Filed
<1>7. Current' /\ Finished' /\ Counted'
  BY <1>1, <1>2 DEF Current, Finished, Counted
<1> QED
  BY <1>4, <1>5, <1>6, <1>7 DEF GroupInv

\* What a pass leaves, whole or not, makes the same group.
LEMMA PassesKeep ==
  ASSUME GroupInv, phase = "schreier", NEW rounds \in 0 .. Rounds(strong)
  PROVE  LET a == AddSchreierGenerators(chain, strong, rounds) IN
         /\ IsStrong(a.strong) /\ a.negative \in BOOLEAN /\ a.changed \in BOOLEAN /\ a.failed \in BOOLEAN
         /\ Known(a.strong, a.negative) \subseteq Products(Made)
         /\ Made \subseteq Products(Known(a.strong, a.negative))
         /\ ~a.changed => a.strong = strong /\ a.negative = negativeIdentity
         /\ rounds = Rounds(strong) /\ ~a.changed /\ ~a.failed =>
              Closed(strong, ChainBuild(strong), negativeIdentity)
<1> DEFINE a == AddSchreierGenerators(chain, strong, rounds)
           K == Known(strong, negativeIdentity)
           L == Known(a.strong, a.negative)
<1>1. /\ IsStrong(strong) /\ strong \in Seq(SignedPermutations) /\ negativeIdentity \in BOOLEAN
      /\ generators \in Seq(SignedImages)
      /\ K \subseteq Products(Made) /\ Made \subseteq Products(K)
      /\ chain = ChainBuild(strong)
  BY DEF GroupInv, Typed, IsStrong, Inside, Covered, Current
<1>2. Chained(strong, chain)
  BY <1>1, ChainIs
<1>3. /\ a \in Lists
      /\ K \subseteq L
      /\ L \subseteq Products(K)
      /\ ~a.changed => a.strong = strong /\ a.negative = negativeIdentity
      /\ rounds = Rounds(strong) /\ ~a.changed /\ ~a.failed => Closed(strong, chain, negativeIdentity)
  BY <1>1, <1>2, PassIs
<1> HIDE DEF a
<1>4. IsStrong(a.strong) /\ a.negative \in BOOLEAN /\ a.changed \in BOOLEAN /\ a.failed \in BOOLEAN
  BY <1>3 DEF Lists
<1>5. K \in SUBSET SignedPermutations /\ L \in SUBSET SignedPermutations /\ Made \in SUBSET SignedPermutations
  BY <1>1, <1>4, KnownAre, MadeAre, OffersAre DEF IsStrong
<1>6. L \subseteq Products(Made)
  <2>1. Products(K) \subseteq Products(Made)
    <3> HIDE DEF K, L
    <3> QED BY <1>1, <1>5, ProductsWithin
  <2> QED BY <1>3, <2>1
<1>7. Made \subseteq Products(L)
  <2>1. Products(K) \subseteq Products(L)
    <3> HIDE DEF K, L
    <3> QED BY <1>3, <1>5, ProductsAre, ProductsWithin
  <2> QED BY <1>1, <2>1
<1> HIDE DEF K, L
<1> QED
  BY <1>1, <1>3, <1>4, <1>6, <1>7 DEF a, L

\* One whole pass: without a change the Schreier generators sift through.
LEMMA GroupInvPass ==
  ASSUME GroupInv, SchreierPass
  PROVE  GroupInv'
<1> DEFINE a == AddSchreierGenerators(chain, strong, Rounds(strong))
<1>1. /\ phase = "schreier" /\ strong' = a.strong /\ negativeIdentity' = a.negative
      /\ phase' = (IF a.failed THEN "idle" ELSE IF a.changed THEN "chain" ELSE "order")
      /\ chain' = (IF a.failed THEN <<>> ELSE chain)
      /\ UNCHANGED <<generators, built, order>>
  BY DEF SchreierPass
<1>2. /\ IsStrong(a.strong) /\ a.negative \in BOOLEAN /\ a.changed \in BOOLEAN /\ a.failed \in BOOLEAN
      /\ Known(a.strong, a.negative) \subseteq Products(Made)
      /\ Made \subseteq Products(Known(a.strong, a.negative))
      /\ ~a.changed => a.strong = strong /\ a.negative = negativeIdentity
      /\ ~a.changed /\ ~a.failed => Closed(strong, ChainBuild(strong), negativeIdentity)
  <2>1. Rounds(strong) \in 0 .. Rounds(strong)
    <3>1. Rounds(strong) \in Nat
      BY RoundsAre DEF GroupInv, Typed, IsStrong
    <3> QED BY <3>1
  <2> QED BY <1>1, <2>1, PassesKeep
<1> HIDE DEF a
<1>3. ~built /\ chain = ChainBuild(strong)
  BY <1>1 DEF GroupInv, Counted, Current
<1>4. Made' = Made
  BY <1>1 DEF Made
<1>5. Typed'
  BY <1>1, <1>2 DEF GroupInv, Typed
<1>6. Inside' /\ Covered'
  BY <1>1, <1>2, <1>4 DEF Inside, Covered
<1>7. Filed'
  <2>1. CASE a.failed
    <3>1. chain' = <<>>
      BY <1>1, <2>1
    <3> QED BY <3>1 DEF Filed
  <2>2. CASE ~a.failed
    BY <1>1, <1>4, <2>2 DEF GroupInv, Filed
  <2> QED BY <2>1, <2>2
<1>8. phase' = "order" => ~a.failed /\ ~a.changed
  BY <1>1
<1>9. Current' /\ Finished' /\ Counted'
  <2>1. Current'
    <3>1. phase' # "schreier"
      BY <1>1
    <3>2. phase' = "order" => chain' = chain /\ strong' = strong
      BY <1>1, <1>2, <1>8
    <3> QED BY <1>3, <3>1, <3>2 DEF Current
  <2>2. Finished'
    BY <1>1, <1>2, <1>3, <1>8 DEF Finished
  <2>3. Counted'
    BY <1>1, <1>3 DEF Counted
  <2> QED BY <2>1, <2>2, <2>3
<1> QED
  BY <1>5, <1>6, <1>7, <1>9 DEF GroupInv

\* The end of a build: the order is read.
LEMMA GroupInvFinish ==
  ASSUME GroupInv, FinishBuild
  PROVE  GroupInv'
<1>1. /\ phase = "order" /\ order' = OrderOf(ChainBuild(strong), negativeIdentity)
      /\ built' = TRUE /\ phase' = "idle" /\ chain' = <<>>
      /\ UNCHANGED <<generators, strong, negativeIdentity>>
  BY DEF FinishBuild
<1>2. Made' = Made
  BY <1>1 DEF Made
<1>3. order' \in Nat
  <2>1. IsStrong(strong) /\ negativeIdentity \in BOOLEAN /\ Chained(strong, ChainBuild(strong))
    BY ChainIs DEF GroupInv, Typed, IsStrong
  <2>2. PICK u : /\ \A level \in 0 .. Degree : u[level] \in Nat
                 /\ OrderOf(ChainBuild(strong), negativeIdentity) = u[Degree]
    BY <2>1, OrderRuns
  <2>3. Degree \in 0 .. Degree
    BY DegreeAssumption
  <2> QED BY <1>1, <2>2, <2>3
<1>4. Typed'
  BY <1>1, <1>3 DEF GroupInv, Typed
<1>5. Inside' /\ Covered'
  BY <1>1, <1>2 DEF GroupInv, Inside, Covered
<1>6. Filed' /\ Current' /\ Counted'
  BY <1>1 DEF Filed, Current, Counted
<1>7. Finished'
  BY <1>1 DEF GroupInv, Finished
<1> QED
  BY <1>4, <1>5, <1>6, <1>7 DEF GroupInv

\* A build that ends early leaves what its last pass had added.
LEMMA GroupInvAbandon ==
  ASSUME GroupInv, Abandon
  PROVE  GroupInv'
<1>1. /\ phase # "idle" /\ phase' = "idle" /\ chain' = <<>>
      /\ UNCHANGED <<generators, built, order>>
  BY DEF Abandon
<1>2. ~built
  BY <1>1 DEF GroupInv, Counted
<1>3. Made' = Made
  BY <1>1 DEF Made
<1>4. IsStrong(strong') /\ negativeIdentity' \in BOOLEAN /\ Known(strong', negativeIdentity') \subseteq Products(Made)
  <2>1. CASE phase = "schreier"
    <3>1. PICK n \in 0 .. Rounds(strong) :
             /\ strong' = AddSchreierGenerators(chain, strong, n).strong
             /\ negativeIdentity' = AddSchreierGenerators(chain, strong, n).negative
      BY <2>1 DEF Abandon
    <3> DEFINE a == AddSchreierGenerators(chain, strong, n)
    <3>2. IsStrong(a.strong) /\ a.negative \in BOOLEAN /\ Known(a.strong, a.negative) \subseteq Products(Made)
      BY <2>1, PassesKeep
    <3> HIDE DEF a
    <3>3. strong' = a.strong /\ negativeIdentity' = a.negative
      BY <3>1 DEF a
    <3> QED BY <3>2, <3>3
  <2>2. CASE phase # "schreier"
    BY <2>2 DEF Abandon, GroupInv, Typed, Inside
  <2> QED BY <2>1, <2>2
<1>5. Typed'
  BY <1>1, <1>4 DEF GroupInv, Typed
<1>6. Inside'
  BY <1>3, <1>4 DEF Inside
<1>7. Covered' /\ Filed' /\ Current' /\ Finished' /\ Counted'
  BY <1>1, <1>2 DEF Covered, Filed, Current, Finished, Counted
<1> QED
  BY <1>5, <1>6, <1>7 DEF GroupInv

\* Every step.
LEMMA GroupInvStep == GroupInv /\ [Next]_vars => GroupInv'
<1> SUFFICES ASSUME GroupInv, [Next]_vars PROVE GroupInv'
  OBVIOUS
<1>1. CASE \E image \in Images, sign \in Signs : AddGenerator(image, sign)
  BY <1>1, GroupInvAdd
<1>2. CASE StartBuild
  BY <1>2, GroupInvStart
<1>3. CASE BuildChain
  BY <1>3, GroupInvChain
<1>4. CASE SchreierPass
  BY <1>4, GroupInvPass
<1>5. CASE FinishBuild
  BY <1>5, GroupInvFinish
<1>6. CASE Abandon
  BY <1>6, GroupInvAbandon
<1>7. CASE UNCHANGED vars
  <2>1. UNCHANGED <<generators, strong, negativeIdentity, built, order, chain, phase>>
    BY <1>7 DEF vars
  <2>2. Made' = Made
    BY <2>1 DEF Made
  <2> QED BY <2>1, <2>2 DEF GroupInv, Typed, Inside, Covered, Filed, Current, Finished, Counted
<1> QED
  BY <1>1, <1>2, <1>3, <1>4, <1>5, <1>6, <1>7 DEF Next

-----------------------------------------------------------------------------
(* What the invariant says of the answers *)

\* In every reachable state the invariant holds.
LEMMA GroupInvHolds == Spec => []GroupInv
<1> QED
  BY GroupInvInit, GroupInvStep, PTL DEF Spec

\* The group the generators span is made of their products.
LEMMA GroupIs ==
  ASSUME GroupInv
  PROVE  Generated = Products(Made) /\ Made \in SUBSET SignedPermutations
<1>1. Made \in SUBSET SignedPermutations
  BY MadeAre, OffersAre DEF GroupInv, Typed
<1> QED
  BY <1>1, GeneratedIs

\* What is listed and filed is from the group.
LEMMA InvStaysInside == GroupInv => StaysInsideTheGroup
<1> SUFFICES ASSUME GroupInv PROVE StaysInsideTheGroup
  OBVIOUS
<1>1. Generated = Products(Made)
  BY GroupIs
<1>2. \A i \in DOMAIN strong : strong[i] \in Products(Made)
  BY DEF GroupInv, Inside, Known, Entries
<1>3. negativeIdentity => MinusUnit \in Products(Made)
  BY DEF GroupInv, Inside, Known
<1>4. \A level \in DOMAIN chain : \A p \in DOMAIN chain[level] :
        /\ chain[level][p] \in Products(Made)
        /\ chain[level][p].image[level] = p
        /\ \A i \in 0 .. (level - 1) : chain[level][p].image[i] = i
  BY DEF GroupInv, Filed, Fixes
<1> QED
  BY <1>1, <1>2, <1>3, <1>4 DEF StaysInsideTheGroup

\* A built group answers for the products of its generators.
LEMMA InvBuiltIsGenerated == GroupInv => BuiltGroupIsGenerated
<1> SUFFICES ASSUME GroupInv, built PROVE BuiltGroupIsGenerated
  BY DEF BuiltGroupIsGenerated
<1> DEFINE ch == ChainBuild(strong)
           K == Known(strong, negativeIdentity)
<1>1. /\ IsStrong(strong) /\ strong \in Seq(SignedPermutations) /\ negativeIdentity \in BOOLEAN
      /\ Closed(strong, ch, negativeIdentity) /\ order = OrderOf(ch, negativeIdentity)
      /\ K \subseteq Products(Made) /\ Made \subseteq Products(K)
  BY DEF GroupInv, Typed, IsStrong, Inside, Covered, Finished, Counted
<1>2. Chained(strong, ch)
  BY <1>1, ChainIs
<1>3. Generated = Products(K)
  <2>1. Generated = Products(Made) /\ Made \in SUBSET SignedPermutations
    BY GroupIs
  <2>2. K \in SUBSET SignedPermutations
    BY <1>1, KnownAre
  <2> HIDE DEF K
  <2>3. Products(K) \subseteq Products(Made) /\ Products(Made) \subseteq Products(K)
    BY <1>1, <2>1, <2>2, ProductsWithin
  <2> QED BY <2>1, <2>3
<1>4. ASSUME NEW e \in SignedPermutations PROVE IsMember(e.image, e.sign) <=> e \in Products(K)
  <2>1. [image |-> e.image, sign |-> e.sign] = e
    BY DEF SignedPermutations
  <2>2. IsMember(e.image, e.sign) <=> Passes(ch, e, 0, negativeIdentity)
    BY <2>1 DEF IsMember, Passes
  <2>3. Passes(ch, e, 0, negativeIdentity) <=> e \in Products(K)
    <3> HIDE DEF ch
    <3> QED BY <1>1, <1>2, MembersAre
  <2> QED BY <2>2, <2>3
<1>5. order = Cardinality(Products(K))
  <2> HIDE DEF ch
  <2> QED BY <1>1, <1>2, OrderIs
<1>6. \A p \in Points : Orbit(p) = {e.image[p] : e \in Products(K)}
  BY <1>1, OrbitIs
<1> HIDE DEF K, ch
<1> QED
  BY <1>3, <1>4, <1>5, <1>6 DEF BuiltGroupIsGenerated

\* What may be listed at all, in every state.
THEOREM GroupStaysTyped == Spec => []TypeOK
<1>1. GroupInv => TypeOK
  <2> SUFFICES ASSUME GroupInv PROVE TypeOK
    OBVIOUS
  <2>1. \A i \in DOMAIN strong : strong[i] \in SignedPermutations
    BY DEF GroupInv, Typed, IsStrong
  <2>2. \A i \in DOMAIN strong : Valid(strong[i].image) /\ strong[i].sign \in Signs
    BY <2>1, SignedIs DEF Signs
  <2> QED BY <2>2 DEF GroupInv, Typed, TypeOK, IsStrong
<1> QED
  BY <1>1, GroupInvHolds, PTL

\* Through every build, pass and abandoned pass, whatever the degree, the
\* generators and the limits, the strong generators and the transversals are
\* elements of the group the caller's generators span, signs included.
THEOREM StrongGeneratorsStayInside == Spec => []StaysInsideTheGroup
  BY GroupInvHolds, InvStaysInside, PTL

\* phy_perm_group_build_bsgs is right: while a group is built, membership,
\* order and orbits are those of the products of its generators.
THEOREM BuiltGroupsAnswer == Spec => []BuiltGroupIsGenerated
  BY GroupInvHolds, InvBuiltIsGenerated, PTL

\* Both at once, as the runs check it.
THEOREM GroupsStayGenerated == Spec => []GroupsAreGenerated
<1>1. GroupInv => GroupsAreGenerated
  BY InvStaysInside, InvBuiltIsGenerated DEF GroupsAreGenerated
<1> QED
  BY <1>1, GroupInvHolds, PTL
=============================================================================
