--------------------------- MODULE IROrderProofs ---------------------------
(***************************************************************************)
(* That phy_ir_compare is a total order on the nodes of a context, that    *)
(* phy_ir_sort_refs sorts by it, and that the operands a commutative node  *)
(* stores stay sorted whatever is interned or declared after it: what      *)
(* NodesAreCanonical says, for every workload and every limit.             *)
(*                                                                         *)
(* A comparison is a number, and its laws are laws of numbers: two         *)
(* comparisons of one pair are opposite, three of a triple make a chain.   *)
(* They hold of each kind's own comparison, they pass from children to     *)
(* their parents, and a ref is above its children.                         *)
(***************************************************************************)
EXTENDS IRInternProofs

-----------------------------------------------------------------------------
(* Comparisons *)

\* What a comparison returns
Tells(x) == x \in {-1, 0, 1}

\* x compares this with that, y that with this.
Opposite(x, y) == Tells(x) /\ Tells(y) /\ x + y = 0

\* x compares a first thing with a second, y the second with a third, z the
\* first with the third.
Chain(x, y, z) == x <= 0 /\ y <= 0 => IF x = 0 /\ y = 0 THEN z = 0 ELSE z < 0

\* What tells first.
First(x, y) == IF x # 0 THEN x ELSE y

\* Numbers compare as numbers.
LEMMA ComparedIs ==
  ASSUME NEW m \in Int, NEW n \in Int
  PROVE  /\ Opposite(Compared(m, n), Compared(n, m))
         /\ Compared(m, n) <= 0 <=> m <= n
         /\ Compared(m, n) = 0 <=> m = n
  BY DEF Opposite, Tells, Compared

\* Three numbers of a row make a chain.
LEMMA ComparedChain ==
  ASSUME NEW l \in Int, NEW m \in Int, NEW n \in Int
  PROVE  Chain(Compared(l, m), Compared(m, n), Compared(l, n))
  BY DEF Chain, Compared

\* Whatever is compared.
LEMMA ComparedTells == \A m, n : Tells(Compared(m, n))
  BY DEF Tells, Compared

\* One comparison after another keeps the laws of both.
LEMMA FirstOpposite ==
  ASSUME NEW x, NEW y, NEW u, NEW v, Opposite(x, y), x = 0 => Opposite(u, v)
  PROVE  Opposite(First(x, u), First(y, v))
<1>1. x = 0 <=> y = 0
  BY DEF Opposite, Tells
<1> QED
  BY <1>1 DEF First

\* Chains in a row are one: so orders are refined.
LEMMA FirstChain ==
  ASSUME NEW x, NEW y, NEW z, NEW u, NEW v, NEW w, Tells(x), Tells(y), Tells(z),
         Chain(x, y, z), x = 0 /\ y = 0 => Chain(u, v, w)
  PROVE  Chain(First(x, u), First(y, v), First(z, w))
  BY DEF Tells, Chain, First

-----------------------------------------------------------------------------
(* The first of several comparisons *)

\* It is the one before which none tells.
LEMMA LexicographicIs ==
  ASSUME NEW n \in Nat, NEW results, DOMAIN results = 1 .. n
  PROVE  \/ /\ \A i \in 1 .. n : results[i] = 0
            /\ Lexicographic(results) = 0
         \/ \E k \in 1 .. n : /\ results[k] # 0 /\ \A i \in 1 .. n : i < k => results[i] = 0
                              /\ Lexicographic(results) = results[k]
<1> DEFINE tell == {i \in DOMAIN results : results[i] # 0}
<1>1. CASE tell = {}
  <2>1. Lexicographic(results) = 0
    BY <1>1 DEF Lexicographic
  <2> QED BY <1>1, <2>1
<1>2. CASE tell # {}
  <2>1. tell \subseteq Nat
    OBVIOUS
  <2>2. \E i \in tell : \A j \in tell : i <= j
    <3> HIDE DEF tell
    <3> QED BY <1>2, <2>1, Least
  <2> DEFINE k == CHOOSE i \in tell : \A j \in tell : i <= j
  <2>3. k \in tell /\ \A j \in tell : k <= j
    <3> HIDE DEF tell
    <3> QED BY <2>2
  <2>4. Lexicographic(results) = results[k]
    BY <1>2 DEF Lexicographic
  <2> HIDE DEF k
  <2>5. k \in 1 .. n /\ results[k] # 0 /\ \A i \in 1 .. n : i < k => results[i] = 0
    BY <2>3
  <2> QED BY <2>4, <2>5
<1> QED
  BY <1>1, <1>2

\* Two and three comparisons, written out
LEMMA OfTwo ==
  ASSUME NEW x, NEW y
  PROVE  Lexicographic(<<x, y>>) = First(x, y)
<1> DEFINE s == <<x, y>>
<1>1. DOMAIN s = 1 .. 2 /\ s[1] = x /\ s[2] = y /\ 2 \in Nat
  OBVIOUS
<1> HIDE DEF s
<1>2. PICK n \in Nat : n = 2
  BY <1>1
<1>3. \/ (\A i \in 1 .. n : s[i] = 0) /\ Lexicographic(s) = 0
      \/ \E k \in 1 .. n : /\ s[k] # 0 /\ \A i \in 1 .. n : i < k => s[i] = 0
                           /\ Lexicographic(s) = s[k]
  BY <1>1, <1>2, LexicographicIs
<1>4. Lexicographic(s) = First(x, y)
  BY <1>1, <1>2, <1>3 DEF First
<1> QED
  BY <1>4 DEF s

\* and of three
LEMMA OfThree ==
  ASSUME NEW x, NEW y, NEW z
  PROVE  Lexicographic(<<x, y, z>>) = First(x, First(y, z))
<1> DEFINE s == <<x, y, z>>
<1>1. DOMAIN s = 1 .. 3 /\ s[1] = x /\ s[2] = y /\ s[3] = z /\ 3 \in Nat
  OBVIOUS
<1> HIDE DEF s
<1>2. PICK n \in Nat : n = 3
  BY <1>1
<1>3. \/ (\A i \in 1 .. n : s[i] = 0) /\ Lexicographic(s) = 0
      \/ \E k \in 1 .. n : /\ s[k] # 0 /\ \A i \in 1 .. n : i < k => s[i] = 0
                           /\ Lexicographic(s) = s[k]
  BY <1>1, <1>2, LexicographicIs
<1>4. Lexicographic(s) = First(x, First(y, z))
  BY <1>1, <1>2, <1>3 DEF First
<1> QED
  BY <1>4 DEF s

\* Lists of comparisons, one with another and three in a chain
LEMMA LexicographicTells ==
  ASSUME NEW n \in Nat, NEW X, DOMAIN X = 1 .. n, \A i \in 1 .. n : Tells(X[i])
  PROVE  Tells(Lexicographic(X)) /\ (Lexicographic(X) = 0 => \A i \in 1 .. n : X[i] = 0)
  BY LexicographicIs DEF Tells

\* Lists of opposites have opposite first tellers.
LEMMA LexicographicOpposite ==
  ASSUME NEW n \in Nat, NEW X, NEW Y, DOMAIN X = 1 .. n, DOMAIN Y = 1 .. n,
         \A i \in 1 .. n : Opposite(X[i], Y[i])
  PROVE  Opposite(Lexicographic(X), Lexicographic(Y))
<1>1. \A i \in 1 .. n : Tells(X[i]) /\ Tells(Y[i]) /\ X[i] + Y[i] = 0
  BY DEF Opposite
<1>2. \A i \in 1 .. n : X[i] = 0 <=> Y[i] = 0
  BY <1>1 DEF Tells
<1>3. \/ (\A i \in 1 .. n : X[i] = 0) /\ Lexicographic(X) = 0
      \/ \E k \in 1 .. n : /\ X[k] # 0 /\ \A i \in 1 .. n : i < k => X[i] = 0
                           /\ Lexicographic(X) = X[k]
  BY LexicographicIs
<1>4. \/ (\A i \in 1 .. n : Y[i] = 0) /\ Lexicographic(Y) = 0
      \/ \E k \in 1 .. n : /\ Y[k] # 0 /\ \A i \in 1 .. n : i < k => Y[i] = 0
                           /\ Lexicographic(Y) = Y[k]
  BY LexicographicIs
<1>5. CASE \A i \in 1 .. n : X[i] = 0
  <2>1. Lexicographic(X) = 0 /\ Lexicographic(Y) = 0
    BY <1>2, <1>3, <1>4, <1>5
  <2>2. \A k \in Int : k = 0 => Opposite(k, k)
    BY DEF Opposite, Tells
  <2> QED BY <2>1, <2>2
<1>6. CASE ~\A i \in 1 .. n : X[i] = 0
  <2>1. PICK k \in 1 .. n : /\ X[k] # 0 /\ \A i \in 1 .. n : i < k => X[i] = 0
                            /\ Lexicographic(X) = X[k]
    BY <1>3, <1>6
  <2>2. PICK l \in 1 .. n : /\ Y[l] # 0 /\ \A i \in 1 .. n : i < l => Y[i] = 0
                            /\ Lexicographic(Y) = Y[l]
    BY <1>2, <1>4, <1>6
  <2>3. k = l
    BY <1>2, <2>1, <2>2
  <2> QED BY <1>1, <2>1, <2>2, <2>3 DEF Opposite
<1> QED
  BY <1>5, <1>6

\* Lists of chains make a chain.
LEMMA LexicographicChain ==
  ASSUME NEW n \in Nat, NEW X, NEW Y, NEW Z, DOMAIN X = 1 .. n, DOMAIN Y = 1 .. n, DOMAIN Z = 1 .. n,
         \A i \in 1 .. n : Tells(X[i]) /\ Tells(Y[i]) /\ Tells(Z[i]) /\ Chain(X[i], Y[i], Z[i])
  PROVE  Chain(Lexicographic(X), Lexicographic(Y), Lexicographic(Z))
<1> DEFINE tell == {i \in 1 .. n : X[i] # 0 \/ Y[i] # 0}
<1>1. \/ (\A i \in 1 .. n : X[i] = 0) /\ Lexicographic(X) = 0
      \/ \E k \in 1 .. n : /\ X[k] # 0 /\ \A i \in 1 .. n : i < k => X[i] = 0
                           /\ Lexicographic(X) = X[k]
  BY LexicographicIs
<1>2. \/ (\A i \in 1 .. n : Y[i] = 0) /\ Lexicographic(Y) = 0
      \/ \E k \in 1 .. n : /\ Y[k] # 0 /\ \A i \in 1 .. n : i < k => Y[i] = 0
                           /\ Lexicographic(Y) = Y[k]
  BY LexicographicIs
<1>3. \/ (\A i \in 1 .. n : Z[i] = 0) /\ Lexicographic(Z) = 0
      \/ \E k \in 1 .. n : /\ Z[k] # 0 /\ \A i \in 1 .. n : i < k => Z[i] = 0
                           /\ Lexicographic(Z) = Z[k]
  BY LexicographicIs
<1>4. \A i \in 1 .. n : X[i] = 0 /\ Y[i] = 0 => Z[i] = 0
  BY DEF Chain
<1>5. CASE tell = {}
  <2>1. \A i \in 1 .. n : X[i] = 0 /\ Y[i] = 0 /\ Z[i] = 0
    BY <1>4, <1>5
  <2>2. Lexicographic(X) = 0 /\ Lexicographic(Y) = 0 /\ Lexicographic(Z) = 0
    BY <1>1, <1>2, <1>3, <2>1
  <2> QED BY <2>2 DEF Chain
<1>6. CASE tell # {}
  <2>1. tell \subseteq Nat
    OBVIOUS
  <2>2. PICK k \in tell : \A j \in tell : k <= j
    <3> HIDE DEF tell
    <3> QED BY <1>6, <2>1, Least
  <2>3. k \in 1 .. n /\ (X[k] # 0 \/ Y[k] # 0)
        /\ \A i \in 1 .. n : i < k => X[i] = 0 /\ Y[i] = 0 /\ Z[i] = 0
    BY <1>4, <2>2
  <2>4. SUFFICES ASSUME Lexicographic(X) <= 0, Lexicographic(Y) <= 0
                 PROVE  Lexicographic(Z) < 0 /\ ~(Lexicographic(X) = 0 /\ Lexicographic(Y) = 0)
    BY DEF Chain
  <2>5. X[k] # 0 => Lexicographic(X) = X[k]
    BY <1>1, <2>3
  <2>6. Y[k] # 0 => Lexicographic(Y) = Y[k]
    BY <1>2, <2>3
  <2>7. X[k] <= 0 /\ Y[k] <= 0
    BY <2>3, <2>4, <2>5, <2>6 DEF Tells
  <2>8. Z[k] < 0
    BY <2>3, <2>7 DEF Chain
  <2>9. Lexicographic(Z) = Z[k]
    BY <1>3, <2>3, <2>8
  <2> QED BY <2>3, <2>5, <2>6, <2>8, <2>9
<1> QED
  BY <1>5, <1>6

-----------------------------------------------------------------------------
(* phy_ir_compare calls itself on children *)

\* What it says of two nodes, given what it says of their children.
Verdict(a, b, results) ==
    IF Rank[a.kind] # Rank[b.kind] THEN Compared(Rank[a.kind], Rank[b.kind])
    ELSE IF a.kind \in Exact THEN CompareNumbers(a, b)
    ELSE IF a.kind = "REAL" THEN Compared(a.number[1], b.number[1])
    ELSE IF a.kind = "SYMBOL" THEN CompareNames(a.head, b.head)
    ELSE IF a.kind = "INDEX" THEN CompareIndices(a, b)
    ELSE IF a.kind = "ERROR" THEN Compared(AuxOrder[a.aux], AuxOrder[b.aux])
    ELSE IF CompareNames(a.head, b.head) # 0 THEN CompareNames(a.head, b.head)
    ELSE IF Len(a.children) # Len(b.children) THEN Compared(Len(a.children), Len(b.children))
    ELSE Lexicographic(results)

\* What f says of their children, pair by pair
ResultsOf(f, a, b) == [i \in DOMAIN a.children |-> f[<<a.children[i], b.children[i]>>]]

\* What phy_ir_compare says of two refs, if f says what it says of children
Told(f, r, s) == IF r = s THEN 0 ELSE Verdict(nodes[r], nodes[s], ResultsOf(f, nodes[r], nodes[s]))

\* Numbers are told apart one way or another.
LEMMA NumbersTell == \A a, b : Tells(CompareNumbers(a, b))
<1> SUFFICES ASSUME NEW a, NEW b PROVE Tells(CompareNumbers(a, b))
  OBVIOUS
<1>1. \A k, l, m, n : Tells(Lexicographic(<<Compared(k, l), Compared(m, n)>>))
  BY ComparedTells, OfTwo DEF First
<1>2. \A x, negative : Tells(x) => Tells(Reversed(negative, x))
  BY DEF Tells, Reversed
<1>3. Tells(1) /\ Tells(-1)
  BY DEF Tells
<1> QED
  BY <1>1, <1>2, <1>3, ComparedTells DEF CompareNumbers

\* So are nodes.
LEMMA VerdictTells ==
  ASSUME NEW a, NEW b, IsList(a.children), IsList(b.children), NEW results,
         Len(a.children) = Len(b.children) =>
           /\ DOMAIN results = DOMAIN a.children
           /\ \A i \in DOMAIN a.children : Tells(results[i])
  PROVE  Tells(Verdict(a, b, results))
<1>1. Len(a.children) = Len(b.children) => Tells(Lexicographic(results))
  BY ListIs, LexicographicTells
<1>2. Tells(CompareNumbers(a, b))
  BY NumbersTell
<1>3. \A s, t : Tells(CompareNames(s, t))
  BY ComparedTells DEF CompareNames
<1>4. Tells(CompareIndices(a, b))
  BY <1>3, ComparedTells, OfThree DEF CompareIndices, First
<1> QED
  BY <1>1, <1>2, <1>3, <1>4, ComparedTells DEF Verdict

\* What is below a ref
LEMMA ChildrenBelow ==
  ASSUME IInv, NEW r \in Refs
  PROVE  /\ IsList(nodes[r].children)
         /\ \A i \in DOMAIN nodes[r].children : nodes[r].children[i] \in 1 .. r - 1
  BY DEF IInv, NodesInOrder, NodeOK, Over

\* Refs are positions, and what is below one is one.
LEMMA RefsAre ==
  ASSUME IInv
  PROVE  Len(nodes) \in Nat /\ \A r \in Refs : r \in 1 .. Len(nodes) /\ 1 .. r \subseteq Refs
<1>1. Len(nodes) \in Nat
  BY ListIs DEF IInv, NodesInOrder
<1> QED
  BY <1>1 DEF Refs

\* What is said of two refs rests on what is said of refs below.
LEMMA ToldBelow ==
  ASSUME IInv, NEW r \in Refs, NEW s \in Refs, NEW f, NEW g,
         \A c \in 1 .. r - 1, d \in 1 .. s - 1 : f[<<c, d>>] = g[<<c, d>>]
  PROVE  Told(f, r, s) = Told(g, r, s)
<1> DEFINE a == nodes[r]
           b == nodes[s]
<1>1. /\ IsList(a.children) /\ \A i \in DOMAIN a.children : a.children[i] \in 1 .. r - 1
      /\ IsList(b.children) /\ \A i \in DOMAIN b.children : b.children[i] \in 1 .. s - 1
  BY ChildrenBelow
<1> HIDE DEF a, b
<1>2. Len(a.children) = Len(b.children) => ResultsOf(f, a, b) = ResultsOf(g, a, b)
  <2>1. ASSUME Len(a.children) = Len(b.children) PROVE DOMAIN a.children = DOMAIN b.children
    BY <1>1, <2>1, ListIs
  <2> QED BY <1>1, <2>1 DEF ResultsOf
<1>3. Verdict(a, b, ResultsOf(f, a, b)) = Verdict(a, b, ResultsOf(g, a, b))
  <2>1. CASE Len(a.children) = Len(b.children)
    BY <1>2, <2>1
  <2>2. CASE Len(a.children) # Len(b.children)
    BY <2>2 DEF Verdict
  <2> QED BY <2>1, <2>2
<1> QED
  BY <1>3 DEF Told, a, b

\* Comparing again and again, children first, comes to an end: the recursion of
\* phy_ir_compare is one function.
LEMMA OrderExists ==
  ASSUME IInv
  PROVE  \E f : f = [p \in Refs \X Refs |-> Told(f, p[1], p[2])]
<1> DEFINE V == {-1, 0, 1}
           n == Len(nodes)
           S == [Refs \X Refs -> V]
           Step(f) == [p \in Refs \X Refs |-> Told(f, p[1], p[2])]
           zero == [p \in Refs \X Refs |-> 0]
           F == [q \in S \X (1 .. n) |-> Step(q[1])]
<1>1. n \in Nat /\ zero \in S
  BY RefsAre
<1>2. ASSUME NEW f \in S PROVE Step(f) \in S
  <2>1. ASSUME NEW r \in Refs, NEW s \in Refs PROVE Told(f, r, s) \in V
    <3> DEFINE a == nodes[r]
               b == nodes[s]
    <3>1. /\ IsList(a.children) /\ \A i \in DOMAIN a.children : a.children[i] \in Refs
          /\ IsList(b.children) /\ \A i \in DOMAIN b.children : b.children[i] \in Refs
      <4>1. \A c \in 1 .. r - 1 : c \in Refs
        BY RefsAre
      <4>2. \A c \in 1 .. s - 1 : c \in Refs
        BY RefsAre
      <4> QED BY <4>1, <4>2, ChildrenBelow
    <3> HIDE DEF a, b
    <3>2. ASSUME Len(a.children) = Len(b.children)
          PROVE  /\ DOMAIN ResultsOf(f, a, b) = DOMAIN a.children
                 /\ \A i \in DOMAIN a.children : Tells(ResultsOf(f, a, b)[i])
      <4>1. DOMAIN a.children = DOMAIN b.children
        BY <3>1, <3>2, ListIs
      <4>2. \A i \in DOMAIN a.children : f[<<a.children[i], b.children[i]>>] \in V
        BY <3>1, <4>1
      <4> QED BY <4>2 DEF ResultsOf, Tells
    <3>3. Tells(Verdict(a, b, ResultsOf(f, a, b)))
      BY <3>1, <3>2, VerdictTells
    <3>4. Tells(0)
      BY DEF Tells
    <3> QED BY <3>3, <3>4 DEF Told, Tells, a, b
  <2> HIDE DEF V
  <2> QED BY <2>1
<1> HIDE DEF zero, S
<1>3. F \in [S \X (1 .. n) -> S] /\ \A f \in S, i \in 1 .. n : F[<<f, i>>] = Step(f)
  BY <1>2
<1> HIDE DEF F
<1>4. PICK s \in [0 .. n -> S] : Iterates(s, zero, F, n)
  <2> HIDE DEF n
  <2> QED BY <1>1, <1>3, IteratesExist
<1>5. ASSUME NEW i \in 1 .. n PROVE s[i] = Step(s[i - 1]) /\ i - 1 \in 0 .. n /\ i \in 0 .. n
  <2>1. i \in 0 .. n /\ i # 0 /\ i - 1 \in 0 .. n
    BY <1>1
  <2>2. s = [j \in 0 .. n |-> IF j = 0 THEN zero ELSE F[<<s[j - 1], j>>]]
    BY <1>4 DEF Iterates
  <2>3. s[i] = F[<<s[i - 1], i>>]
    BY <2>1, <2>2
  <2> HIDE DEF Step
  <2> QED BY <1>3, <1>4, <2>1, <2>3
<1> DEFINE Settled(k) == \A r \in 1 .. k, t \in Refs : s[k][<<r, t>>] = Told(s[k], r, t)
           P == {k \in 0 .. n : Settled(k)}
<1>6. 0 \in P
  BY <1>1
<1>7. ASSUME NEW k \in 1 .. n, k - 1 \in P PROVE k \in P
  <2> DEFINE f == s[k - 1]
             g == s[k]
  <2>1. g = Step(f)
    BY <1>5
  <2>2. \A r, t \in Refs : g[<<r, t>>] = Told(f, r, t)
    <3> HIDE DEF f, g
    <3> QED BY <2>1
  <2>3. \A r \in 1 .. k : r \in Refs
    BY <1>1 DEF Refs
  <2>4. \A r \in 1 .. k - 1, t \in Refs : f[<<r, t>>] = Told(f, r, t)
    BY <1>7
  <2> HIDE DEF f, g
  <2>5. \A r \in 1 .. k - 1, t \in Refs : f[<<r, t>>] = g[<<r, t>>]
    <3>1. \A r \in 1 .. k - 1 : r \in 1 .. k
      BY <1>1
    <3> QED BY <2>2, <2>3, <2>4, <3>1
  <2>6. ASSUME NEW r \in 1 .. k, NEW t \in Refs PROVE g[<<r, t>>] = Told(g, r, t)
    <3>1. \A c \in 1 .. r - 1 : c \in 1 .. k - 1
      BY <1>1
    <3>2. \A d \in 1 .. t - 1 : d \in Refs
      BY RefsAre
    <3>3. \A c \in 1 .. r - 1, d \in 1 .. t - 1 : f[<<c, d>>] = g[<<c, d>>]
      BY <2>5, <3>1, <3>2
    <3>4. Told(f, r, t) = Told(g, r, t)
      BY <2>3, <3>3, ToldBelow
    <3> QED BY <2>2, <2>3, <3>4
  <2>7. Settled(k)
    BY <2>6 DEF g
  <2> QED BY <1>5, <2>7
<1>8. Settled(n)
  <2>1. \A i \in 0 .. n : i \in P
    <3> HIDE DEF P, n
    <3> QED BY <1>1, <1>6, <1>7, Along
  <2>2. n \in 0 .. n
    BY <1>1
  <2> QED BY <2>1, <2>2
<1>9. s[n] \in S
  <2>1. n \in 0 .. n
    BY <1>1
  <2> QED BY <2>1
<1>10. PICK f \in S : \A r, t \in Refs : f[<<r, t>>] = Told(f, r, t)
  <2>1. \A r \in Refs : r \in 1 .. n
    BY RefsAre
  <2> QED BY <1>8, <1>9, <2>1
<1>11. f = [p \in Refs \X Refs |-> f[p]]
  BY DEF S
<1>12. [p \in Refs \X Refs |-> f[p]] = [p \in Refs \X Refs |-> Told(f, p[1], p[2])]
  BY <1>10
<1> QED
  BY <1>11, <1>12

\* What phy_ir_compare says
LEMMA CompareIs ==
  ASSUME IInv, NEW r \in Refs, NEW s \in Refs
  PROVE  Compare(r, s) = Told(Order, r, s)
<1> DEFINE f == CHOOSE f : f = [p \in Refs \X Refs |-> Told(f, p[1], p[2])]
<1>1. f = [p \in Refs \X Refs |-> Told(f, p[1], p[2])]
  BY OrderExists
<1>2. Order = f
  BY ZenonT(40) DEF Order, Told, Verdict, ResultsOf, f
<1> HIDE DEF f
<1>3. f[<<r, s>>] = Told(f, r, s)
  BY <1>1
<1> QED
  BY <1>2, <1>3 DEF Compare

-----------------------------------------------------------------------------
(* Exact numbers *)

\* A fraction, and where its kind of fraction lies.
IsFraction(a) == a.number[1] \in Int /\ a.number[2] \in Nat \ {0}
Zone(a) ==
    IF a.number[1] < 0 THEN IF IsBig(a) THEN 0 ELSE 1 ELSE IF IsBig(a) THEN 3 ELSE 2

\* Two of one zone
Apart(a, b) ==
    IF IsBig(a)
    THEN First(Compared(a.number[1], b.number[1]),
               IF a.number[1] < 0 THEN Compared(a.number[2], b.number[2])
               ELSE Compared(b.number[2], a.number[2]))
    ELSE Compared(a.number[1] * b.number[2], b.number[1] * a.number[2])

\* A product has its factors' sign.
LEMMA SignOfProduct ==
  ASSUME NEW k \in Int, NEW m \in Nat \ {0}
  PROVE  /\ k * m \in Int
         /\ k < 0 => k * m < 0
         /\ k >= 0 => k * m >= 0
         /\ k > 0 => k * m > 0
  OBVIOUS

\* phy_ir_compare puts promoted numbers beyond the inline ones of their sign.
LEMMA NumbersAre ==
  ASSUME NEW a, NEW b, IsFraction(a), IsFraction(b)
  PROVE  CompareNumbers(a, b) = First(Compared(Zone(a), Zone(b)), Apart(a, b))
<1>1. PICK p \in Int, q \in Nat \ {0} : a.number[1] = p /\ a.number[2] = q
  BY DEF IsFraction
<1>2. PICK u \in Int, v \in Nat \ {0} : b.number[1] = u /\ b.number[2] = v
  BY DEF IsFraction
<1>3. PICK x \in Int, y \in Int : x = p * v /\ y = u * q
  BY <1>1, <1>2
<1>4. (p < 0 /\ u >= 0 => x < y) /\ (p >= 0 /\ u < 0 => y < x)
  BY <1>3, SignOfProduct
<1> DEFINE lex == Lexicographic(<<Compared(Magnitude(p), Magnitude(u)), Compared(v, q)>>)
<1>5. CompareNumbers(a, b) =
        IF ~IsBig(a) /\ ~IsBig(b) THEN Compared(x, y)
        ELSE IF (p < 0) # (u < 0) THEN IF p < 0 THEN -1 ELSE 1
        ELSE Reversed(p < 0, IF IsBig(a) # IsBig(b) THEN IF IsBig(a) THEN 1 ELSE -1 ELSE lex)
  BY <1>1, <1>2, <1>3 DEF CompareNumbers
<1>6. lex = First(Compared(Magnitude(p), Magnitude(u)), Compared(v, q))
  BY OfTwo
<1> HIDE DEF lex
<1>7. /\ Zone(a) = IF p < 0 THEN IF IsBig(a) THEN 0 ELSE 1 ELSE IF IsBig(a) THEN 3 ELSE 2
      /\ Zone(b) = IF u < 0 THEN IF IsBig(b) THEN 0 ELSE 1 ELSE IF IsBig(b) THEN 3 ELSE 2
  BY <1>1, <1>2 DEF Zone
<1>8. Apart(a, b) = IF IsBig(a) THEN First(Compared(p, u), IF p < 0 THEN Compared(q, v) ELSE Compared(v, q))
                    ELSE Compared(x, y)
  BY <1>1, <1>2, <1>3 DEF Apart
<1>9. CASE ~IsBig(a) /\ ~IsBig(b)
  <2>1. CompareNumbers(a, b) = Compared(x, y) /\ Apart(a, b) = Compared(x, y)
    BY <1>5, <1>8, <1>9
  <2>2. CASE (p < 0) = (u < 0)
    <3>1. Compared(Zone(a), Zone(b)) = 0
      BY <1>7, <1>9, <2>2 DEF Compared
    <3> QED BY <2>1, <3>1 DEF First
  <2>3. CASE p < 0 /\ u >= 0
    <3>1. Compared(Zone(a), Zone(b)) = -1 /\ Compared(x, y) = -1
      BY <1>4, <1>7, <1>9, <2>3 DEF Compared
    <3> QED BY <2>1, <3>1 DEF First
  <2>4. CASE p >= 0 /\ u < 0
    <3>1. Compared(Zone(a), Zone(b)) = 1 /\ Compared(x, y) = 1
      BY <1>4, <1>7, <1>9, <2>4 DEF Compared
    <3> QED BY <2>1, <3>1 DEF First
  <2> QED BY <2>2, <2>3, <2>4
<1>10. CASE IsBig(a) /\ IsBig(b) /\ (p < 0) = (u < 0)
  <2>1. Compared(Zone(a), Zone(b)) = 0
    BY <1>7, <1>10 DEF Compared
  <2>2. CASE p < 0
    <3>1. CompareNumbers(a, b) = -First(Compared(-p, -u), Compared(v, q))
      BY <1>5, <1>6, <1>10, <2>2 DEF Reversed, Magnitude
    <3>2. Apart(a, b) = First(Compared(p, u), Compared(q, v))
      BY <1>8, <1>10, <2>2
    <3>3. -First(Compared(-p, -u), Compared(v, q)) = First(Compared(p, u), Compared(q, v))
      BY DEF First, Compared
    <3> QED BY <2>1, <3>1, <3>2, <3>3 DEF First
  <2>3. CASE p >= 0
    <3>1. CompareNumbers(a, b) = First(Compared(p, u), Compared(v, q))
      BY <1>5, <1>6, <1>10, <2>3 DEF Reversed, Magnitude
    <3>2. Apart(a, b) = First(Compared(p, u), Compared(v, q))
      BY <1>8, <1>10, <2>3
    <3> QED BY <2>1, <3>1, <3>2 DEF First
  <2> QED BY <2>2, <2>3
<1>11. CASE (IsBig(a) \/ IsBig(b)) /\ (p < 0) # (u < 0)
  <2>1. CompareNumbers(a, b) = IF p < 0 THEN -1 ELSE 1
    BY <1>5, <1>11
  <2>2. Compared(Zone(a), Zone(b)) = IF p < 0 THEN -1 ELSE 1
    BY <1>7, <1>11 DEF Compared
  <2> QED BY <2>1, <2>2 DEF First
<1>12. IsBig(a) # IsBig(b) <=> ~(IsBig(a) <=> IsBig(b))
  BY DEF IsBig
<1>13. CASE (p < 0) = (u < 0) /\ ~(IsBig(a) <=> IsBig(b))
  <2>1. CompareNumbers(a, b) = Reversed(p < 0, IF IsBig(a) THEN 1 ELSE -1)
    BY <1>5, <1>13, <1>12
  <2>2. CASE p < 0 /\ IsBig(a)
    <3>1. CompareNumbers(a, b) = -1 /\ Compared(Zone(a), Zone(b)) = -1
      BY <1>7, <1>13, <2>1, <2>2 DEF Reversed, Compared
    <3> QED BY <3>1 DEF First
  <2>3. CASE p < 0 /\ ~IsBig(a)
    <3>1. PICK m \in Int : m = -1
      OBVIOUS
    <3>2. m + 1 = 0
      BY <3>1
    <3>3. CompareNumbers(a, b) = -m
      BY <2>1, <2>3, <3>1 DEF Reversed
    <3>4. -m = 1
      BY ONLY m \in Int, <3>2
    <3>5. Compared(Zone(a), Zone(b)) = 1
      BY <1>7, <1>13, <2>3 DEF Compared
    <3> QED BY <3>3, <3>4, <3>5 DEF First
  <2>4. CASE p >= 0 /\ IsBig(a)
    <3>1. CompareNumbers(a, b) = 1 /\ Compared(Zone(a), Zone(b)) = 1
      BY <1>7, <1>13, <2>1, <2>4 DEF Reversed, Compared
    <3> QED BY <3>1 DEF First
  <2>5. CASE p >= 0 /\ ~IsBig(a)
    <3>1. CompareNumbers(a, b) = -1 /\ Compared(Zone(a), Zone(b)) = -1
      BY <1>7, <1>13, <2>1, <2>5 DEF Reversed, Compared
    <3> QED BY <3>1 DEF First
  <2> QED BY <2>2, <2>3, <2>4, <2>5
<1> QED
  BY <1>9, <1>10, <1>11, <1>13

\* Numbers of one zone are both promoted or both inline, and of one sign.
LEMMA ZoneIs ==
  ASSUME NEW a, NEW b, Zone(a) = Zone(b)
  PROVE  (IsBig(a) <=> IsBig(b)) /\ (a.number[1] < 0 <=> b.number[1] < 0)
  BY DEF Zone

\* Fractions are ordered by their cross products.
LEMMA CrossChain ==
  ASSUME NEW p \in Int, NEW q \in Nat \ {0}, NEW u \in Int, NEW v \in Nat \ {0},
         NEW x \in Int, NEW y \in Nat \ {0}
  PROVE  Chain(Compared(p * v, u * q), Compared(u * y, x * v), Compared(p * y, x * q))
<1>1. PICK k \in Int, l \in Int : k = u * q - p * v /\ l = x * v - u * y
  OBVIOUS
<1>2. PICK m \in Int : m = x * q - p * y
  OBVIOUS
<1>3. m * v = k * y + l * q
  <2>1. (x * q - p * y) * v = (u * q - p * v) * y + (x * v - u * y) * q
    OBVIOUS
  <2> QED BY <1>1, <1>2, <2>1
<1>4. PICK ky \in Int, lq \in Int, mv \in Int : ky = k * y /\ lq = l * q /\ mv = m * v /\ mv = ky + lq
  BY <1>3
<1>5. mv = ky + lq
  BY <1>4
<1>6. /\ (k > 0 => ky > 0) /\ (k = 0 => ky = 0)
      /\ (l > 0 => lq > 0) /\ (l = 0 => lq = 0)
      /\ (m < 0 => mv < 0) /\ (m = 0 => mv = 0) /\ (m > 0 => mv > 0)
  BY <1>4, SignOfProduct
<1>7. PICK c \in Int, d \in Int, e \in Int, f \in Int, g \in Int, h \in Int :
         c = p * v /\ d = u * q /\ e = u * y /\ f = x * v /\ g = p * y /\ h = x * q
  OBVIOUS
<1>8. k = d - c /\ l = f - e /\ m = h - g
  BY <1>1, <1>2, <1>7
<1>9. Chain(Compared(c, d), Compared(e, f), Compared(g, h))
  BY ONLY k \in Int, l \in Int, m \in Int, ky \in Int, lq \in Int, mv \in Int, <1>5, <1>6, <1>8,
          c \in Int, d \in Int, e \in Int, f \in Int, g \in Int, h \in Int
     DEF Chain, Compared
<1> QED
  BY <1>7, <1>9

\* The numbers of a zone are in order, and two that compare equal are one.
LEMMA ApartOpposite ==
  ASSUME NEW a, NEW b, IsFraction(a), IsFraction(b), Zone(a) = Zone(b)
  PROVE  /\ Opposite(Apart(a, b), Apart(b, a))
         /\ Apart(a, b) = 0 => a.number[1] * b.number[2] = b.number[1] * a.number[2]
<1>1. PICK p \in Int, q \in Nat \ {0} : a.number[1] = p /\ a.number[2] = q
  BY DEF IsFraction
<1>2. PICK u \in Int, v \in Nat \ {0} : b.number[1] = u /\ b.number[2] = v
  BY DEF IsFraction
<1>3. (IsBig(a) <=> IsBig(b)) /\ (p < 0 <=> u < 0)
  BY <1>1, <1>2, ZoneIs
<1>4. CASE IsBig(a)
  <2>1. /\ Apart(a, b) = First(Compared(p, u), IF p < 0 THEN Compared(q, v) ELSE Compared(v, q))
        /\ Apart(b, a) = First(Compared(u, p), IF p < 0 THEN Compared(v, q) ELSE Compared(q, v))
    BY <1>1, <1>2, <1>3, <1>4 DEF Apart
  <2>2. Opposite(Apart(a, b), Apart(b, a))
    BY <2>1, ComparedIs, FirstOpposite
  <2>3. Apart(a, b) = 0 => p = u /\ q = v
    BY <2>1, ComparedIs DEF First
  <2> QED BY <1>1, <1>2, <2>2, <2>3
<1>5. CASE ~IsBig(a)
  <2>1. PICK x \in Int, y \in Int : x = p * v /\ y = u * q
    OBVIOUS
  <2>2. Apart(a, b) = Compared(x, y) /\ Apart(b, a) = Compared(y, x)
    BY <1>1, <1>2, <1>3, <1>5, <2>1 DEF Apart
  <2> QED BY <1>1, <1>2, <2>1, <2>2, ComparedIs
<1> QED
  BY <1>4, <1>5

\* Three of one zone make a chain.
LEMMA ApartChain ==
  ASSUME NEW a, NEW b, NEW c, IsFraction(a), IsFraction(b), IsFraction(c), Zone(a) = Zone(b), Zone(b) = Zone(c)
  PROVE  Chain(Apart(a, b), Apart(b, c), Apart(a, c))
<1>1. PICK p \in Int, q \in Nat \ {0} : a.number[1] = p /\ a.number[2] = q
  BY DEF IsFraction
<1>2. PICK u \in Int, v \in Nat \ {0} : b.number[1] = u /\ b.number[2] = v
  BY DEF IsFraction
<1>3. PICK x \in Int, y \in Nat \ {0} : c.number[1] = x /\ c.number[2] = y
  BY DEF IsFraction
<1>4. (IsBig(a) <=> IsBig(b)) /\ (p < 0 <=> u < 0) /\ (IsBig(b) <=> IsBig(c)) /\ (u < 0 <=> x < 0)
  BY <1>1, <1>2, <1>3, ZoneIs
<1>5. CASE IsBig(a)
  <2> DEFINE Under(m, n) == IF p < 0 THEN Compared(m, n) ELSE Compared(n, m)
  <2>1. /\ Apart(a, b) = First(Compared(p, u), Under(q, v))
        /\ Apart(b, c) = First(Compared(u, x), Under(v, y))
        /\ Apart(a, c) = First(Compared(p, x), Under(q, y))
    BY <1>1, <1>2, <1>3, <1>4, <1>5 DEF Apart
  <2>2. Chain(Under(q, v), Under(v, y), Under(q, y))
    BY DEF Chain, Compared
  <2> HIDE DEF Under
  <2>3. Chain(Compared(p, u), Compared(u, x), Compared(p, x))
    BY ComparedChain
  <2>4. Chain(First(Compared(p, u), Under(q, v)), First(Compared(u, x), Under(v, y)),
              First(Compared(p, x), Under(q, y)))
    BY <2>2, <2>3, ComparedTells, FirstChain
  <2> QED BY <2>1, <2>4
<1>6. CASE ~IsBig(a)
  <2>1. /\ Apart(a, b) = Compared(p * v, u * q) /\ Apart(b, c) = Compared(u * y, x * v)
        /\ Apart(a, c) = Compared(p * y, x * q)
    BY <1>1, <1>2, <1>3, <1>4, <1>6 DEF Apart
  <2> QED BY <2>1, CrossChain, ZenonT(40)
<1> QED
  BY <1>5, <1>6

\* So exact numbers are in order.
LEMMA NumbersOpposite ==
  ASSUME NEW a, NEW b, IsFraction(a), IsFraction(b)
  PROVE  /\ Opposite(CompareNumbers(a, b), CompareNumbers(b, a))
         /\ CompareNumbers(a, b) = 0 => a.number[1] * b.number[2] = b.number[1] * a.number[2]
<1>1. /\ CompareNumbers(a, b) = First(Compared(Zone(a), Zone(b)), Apart(a, b))
      /\ CompareNumbers(b, a) = First(Compared(Zone(b), Zone(a)), Apart(b, a))
  BY NumbersAre
<1>2. Zone(a) \in Int /\ Zone(b) \in Int
  BY DEF Zone
<1>3. /\ Opposite(Compared(Zone(a), Zone(b)), Compared(Zone(b), Zone(a)))
      /\ Compared(Zone(a), Zone(b)) = 0 => Zone(a) = Zone(b)
  BY <1>2, ComparedIs
<1>4. Opposite(CompareNumbers(a, b), CompareNumbers(b, a))
  BY <1>1, <1>3, ApartOpposite, FirstOpposite
<1>5. CompareNumbers(a, b) = 0 => Zone(a) = Zone(b) /\ Apart(a, b) = 0
  BY <1>1, <1>3 DEF First
<1> QED
  BY <1>4, <1>5, ApartOpposite

\* compare_exact has no cycle.
LEMMA NumbersChain ==
  ASSUME NEW a, NEW b, NEW c, IsFraction(a), IsFraction(b), IsFraction(c)
  PROVE  Chain(CompareNumbers(a, b), CompareNumbers(b, c), CompareNumbers(a, c))
<1>1. /\ CompareNumbers(a, b) = First(Compared(Zone(a), Zone(b)), Apart(a, b))
      /\ CompareNumbers(b, c) = First(Compared(Zone(b), Zone(c)), Apart(b, c))
      /\ CompareNumbers(a, c) = First(Compared(Zone(a), Zone(c)), Apart(a, c))
  BY NumbersAre
<1>2. Zone(a) \in Int /\ Zone(b) \in Int /\ Zone(c) \in Int
  BY DEF Zone
<1>3. Chain(Compared(Zone(a), Zone(b)), Compared(Zone(b), Zone(c)), Compared(Zone(a), Zone(c)))
  BY <1>2, ComparedChain
<1>4. Compared(Zone(a), Zone(b)) = 0 /\ Compared(Zone(b), Zone(c)) = 0
        => Chain(Apart(a, b), Apart(b, c), Apart(a, c))
  BY <1>2, ComparedIs, ApartChain
<1> QED
  BY <1>1, <1>3, <1>4, ComparedTells, FirstChain

-----------------------------------------------------------------------------
(* What the builders make *)

\* The record make_compound interns
Compound(kind, head, children, depth) ==
    [kind |-> kind, head |-> head, aux |-> "", space |-> Null, number |-> NoNumber,
     children |-> children, depth |-> depth]

\* Kinds without children
Atoms == Exact \cup {"REAL", "SYMBOL", "INDEX", "ERROR"}

\* A node is one above its deepest child.
Topmost(n) ==
    IF DOMAIN n.children = {} THEN n.depth = 1
    ELSE \E i \in DOMAIN n.children : n.depth = nodes[n.children[i]].depth + 1

\* Each kind has fields of its own; the others are as they are for all.
Shaped(n) ==
    /\ n.kind = "REAL" => n = Atom("REAL", Null, "", Null, <<n.number[1], 1>>)
    /\ n.kind = "SYMBOL" => n = Atom("SYMBOL", n.head, "", Null, NoNumber)
    /\ n.kind = "INDEX" => /\ n = Atom("INDEX", n.head, n.aux, n.space, NoNumber)
                           /\ n.aux \in {"lower", "upper"}
    /\ n.kind = "ERROR" => /\ n = Atom("ERROR", Null, n.aux, Null, NoNumber)
                           /\ n.aux \in {"PHY_ERR_DOMAIN", "PHY_ERR_TYPE"}
    /\ n.kind \notin Atoms => n = Compound(n.kind, n.head, n.children, n.depth) /\ Topmost(n)

\* So is every node of a context.
AllShaped == \A r \in Refs : Shaped(nodes[r])
Fit(n) == NodeOK(n) /\ Shaped(n)

\* kKindInfo gives no two kinds one rank, the exact ones excepted.
LEMMA RanksAre ==
  /\ \A k \in DOMAIN Rank : Rank[k] \in Nat
  /\ \A k, l \in DOMAIN Rank : Rank[k] = Rank[l] => k = l \/ (k \in Exact /\ l \in Exact)
<1> DEFINE List == <<"INTEGER", "REAL", "SYMBOL", "INDEX", "ERROR", "ADD", "MUL", "NCMUL", "POW",
                     "EQUATION", "FUNCTION", "TENSOR", "OPERATOR", "DERIVATIVE", "WEDGE">>
<1>1. \A k \in DOMAIN Rank : Rank[k] \in 1 .. 15 /\ (k = List[Rank[k]] \/ k \in Exact)
  BY DEF Rank, Exact
<1>2. \A k \in Exact : Rank[k] = 1
  BY DEF Rank, Exact
<1>3. List[1] \in Exact
  BY DEF Exact
<1> HIDE DEF List
<1>4. \A k, l \in DOMAIN Rank : Rank[k] = Rank[l] => k = l \/ (k \in Exact /\ l \in Exact)
  BY <1>1, <1>2, <1>3
<1> QED
  BY <1>1, <1>4

\* Names are numbers here; no two symbols share one and no symbol has none.
LEMMA NamesAre ==
  ASSUME IInv
  PROVE  \A s, t \in SomeSymbol : /\ NameOf(s) \in Nat
                                  /\ NameOf(s) = NameOf(t) => s = t
<1>1. \A s \in SymbolIds : symbols[s].name \in Nat \ {0}
  BY DataAssumption DEF IInv, SymbolsInOrder, SymbolOK
<1>2. \A s, t \in SymbolIds : symbols[s].name = symbols[t].name => s = t
  BY DEF IInv, NamesDiffer
<1> QED
  BY <1>1, <1>2 DEF SomeSymbol, NameOf, Null

\* Symbols compare one way round, and as their names do.
LEMMA NamesOrdered ==
  ASSUME IInv, NEW s \in SomeSymbol, NEW t \in SomeSymbol
  PROVE  /\ Opposite(CompareNames(s, t), CompareNames(t, s))
         /\ CompareNames(s, t) = 0 => s = t
         /\ CompareNames(s, t) <= 0 => NameOf(s) <= NameOf(t)
<1>1. PICK k \in Nat, l \in Nat : k = NameOf(s) /\ l = NameOf(t) /\ (k = l => s = t)
  BY NamesAre
<1> QED
  BY <1>1, ComparedIs DEF CompareNames

\* Symbols have no cycle.
LEMMA NamesChain ==
  ASSUME IInv, NEW s \in SomeSymbol, NEW t \in SomeSymbol, NEW u \in SomeSymbol
  PROVE  Chain(CompareNames(s, t), CompareNames(t, u), CompareNames(s, u))
<1>1. PICK k \in Nat, l \in Nat, m \in Nat : k = NameOf(s) /\ l = NameOf(t) /\ m = NameOf(u)
  BY NamesAre
<1> QED
  BY <1>1, ComparedChain DEF CompareNames

\* What index and error nodes carry
Marks == {"lower", "upper", "PHY_ERR_DOMAIN", "PHY_ERR_TYPE"}

\* AuxOrder gives no two of them one place.
LEMMA MarksAre == \A x, y \in Marks : AuxOrder[x] \in Int /\ (AuxOrder[x] = AuxOrder[y] => x = y)
<1>1. /\ AuxOrder["lower"] = 0 /\ AuxOrder["upper"] = 1
      /\ AuxOrder["PHY_ERR_DOMAIN"] = 2 /\ AuxOrder["PHY_ERR_TYPE"] = 3
  BY DEF AuxOrder
<1> QED
  BY <1>1 DEF Marks

\* An exact number is written in lowest terms; how, its value tells.
LEMMA ExactIs ==
  ASSUME NEW n, NodeOK(n), n.kind \in Exact
  PROVE  /\ IsFraction(n) /\ IsLowest(n.number)
         /\ n = NumberNode(n.number, IF FitsInline(n.number) THEN "" ELSE "big")
<1>1. PICK q : IsLowest(q) /\ n = NumberNode(q, IF FitsInline(q) THEN "" ELSE "big")
  BY DEF NodeOK, NumberOK
<1>2. \A aux : NumberNode(q, aux).number = q
  BY DEF NumberNode, Atom
<1>3. n.number = q
  BY <1>1, <1>2
<1> QED
  BY <1>1, <1>3 DEF IsFraction, IsLowest

-----------------------------------------------------------------------------
(* The laws of a verdict *)

\* What is said of two of one rank
Kindred(a, b, results) ==
    IF a.kind \in Exact THEN CompareNumbers(a, b)
    ELSE IF a.kind = "REAL" THEN Compared(a.number[1], b.number[1])
    ELSE IF a.kind = "SYMBOL" THEN CompareNames(a.head, b.head)
    ELSE IF a.kind = "INDEX"
         THEN First(CompareNames(a.head, b.head),
                    First(Compared(AuxOrder[a.aux], AuxOrder[b.aux]), CompareNames(a.space, b.space)))
    ELSE IF a.kind = "ERROR" THEN Compared(AuxOrder[a.aux], AuxOrder[b.aux])
    ELSE First(CompareNames(a.head, b.head),
               First(Compared(Len(a.children), Len(b.children)), Lexicographic(results)))

\* phy_ir_compare looks at the rank, then at what that kind has.
LEMMA VerdictIs ==
  ASSUME NEW a, NEW b, Fit(a), Fit(b), NEW results
  PROVE  Verdict(a, b, results) = First(Compared(Rank[a.kind], Rank[b.kind]), Kindred(a, b, results))
<1>1. PICK k \in Nat, l \in Nat : k = Rank[a.kind] /\ l = Rank[b.kind]
  BY RanksAre DEF Fit, NodeOK
<1>2. PICK m \in Nat, n \in Nat : m = Len(a.children) /\ n = Len(b.children)
  BY ListIs DEF Fit, NodeOK
<1>3. (Compared(k, l) = 0 <=> k = l) /\ (Compared(m, n) = 0 <=> m = n)
  BY ComparedIs
<1>4. CASE k # l
  BY <1>1, <1>3, <1>4 DEF Verdict, First
<1>5. CASE k = l
  <2>1. Verdict(a, b, results) = Kindred(a, b, results)
    BY <1>1, <1>2, <1>3, <1>5, OfThree DEF Verdict, Kindred, CompareIndices, First
  <2> QED BY <1>1, <1>3, <1>5, <2>1 DEF First
<1> QED
  BY <1>4, <1>5

\* Two of one rank are of one kind, or both exact numbers.
LEMMA OneRank ==
  ASSUME NEW a, NEW b, Fit(a), Fit(b), Rank[a.kind] = Rank[b.kind]
  PROVE  \/ a.kind \in Exact /\ b.kind \in Exact
         \/ a.kind \notin Exact /\ a.kind = b.kind
  BY RanksAre DEF Fit, NodeOK

\* What a node's fields are
LEMMA FieldsAre ==
  ASSUME NEW n, Fit(n)
  PROVE  /\ n.head \in SomeSymbol /\ n.space \in SomeSymbol
         /\ n.number[1] \in Int /\ Len(n.children) \in Nat /\ DOMAIN n.children = 1 .. Len(n.children)
         /\ n.kind \in Exact => IsFraction(n)
         /\ n.kind \in {"INDEX", "ERROR"} => n.aux \in Marks
<1>1. n.kind \in {"INDEX", "ERROR"} => n.aux \in Marks
  BY DEF Fit, Shaped, Marks
<1> QED
  BY <1>1, ExactIs, ListIs DEF Fit, NodeOK

\* It is the opposite the other way round
LEMMA KindredOpposite ==
  ASSUME IInv, NEW a, NEW b, Fit(a), Fit(b), Rank[a.kind] = Rank[b.kind], NEW there, NEW back,
         Len(a.children) = Len(b.children) =>
           /\ DOMAIN there = 1 .. Len(a.children) /\ DOMAIN back = 1 .. Len(a.children)
           /\ \A i \in 1 .. Len(a.children) : Opposite(there[i], back[i])
  PROVE  Opposite(Kindred(a, b, there), Kindred(b, a, back))
<1>1. \/ a.kind \in Exact /\ b.kind \in Exact
      \/ a.kind \notin Exact /\ a.kind = b.kind
  BY OneRank
<1>2. Opposite(CompareNames(a.head, b.head), CompareNames(b.head, a.head))
  BY FieldsAre, NamesOrdered
<1>3. CASE a.kind \in Exact
  <2>1. Opposite(CompareNumbers(a, b), CompareNumbers(b, a))
    BY <1>1, <1>3, FieldsAre, NumbersOpposite
  <2> QED BY <1>1, <1>3, <2>1 DEF Kindred
<1>4. CASE a.kind \notin Exact /\ a.kind = "REAL"
  <2>1. Opposite(Compared(a.number[1], b.number[1]), Compared(b.number[1], a.number[1]))
    BY FieldsAre, ComparedIs
  <2> QED BY <1>1, <1>4, <2>1 DEF Kindred
<1>5. CASE a.kind \notin Exact /\ a.kind = "SYMBOL"
  BY <1>1, <1>2, <1>5 DEF Kindred
<1>6. CASE a.kind \notin Exact /\ a.kind \in {"INDEX", "ERROR"}
  <2>1. AuxOrder[a.aux] \in Int /\ AuxOrder[b.aux] \in Int
    BY <1>1, <1>6, FieldsAre, MarksAre
  <2>2. Opposite(Compared(AuxOrder[a.aux], AuxOrder[b.aux]), Compared(AuxOrder[b.aux], AuxOrder[a.aux]))
    BY <2>1, ComparedIs
  <2>3. Opposite(CompareNames(a.space, b.space), CompareNames(b.space, a.space))
    BY FieldsAre, NamesOrdered
  <2>4. Opposite(First(Compared(AuxOrder[a.aux], AuxOrder[b.aux]), CompareNames(a.space, b.space)),
                 First(Compared(AuxOrder[b.aux], AuxOrder[a.aux]), CompareNames(b.space, a.space)))
    BY <2>2, <2>3, FirstOpposite
  <2>5. Opposite(First(CompareNames(a.head, b.head),
                       First(Compared(AuxOrder[a.aux], AuxOrder[b.aux]), CompareNames(a.space, b.space))),
                 First(CompareNames(b.head, a.head),
                       First(Compared(AuxOrder[b.aux], AuxOrder[a.aux]), CompareNames(b.space, a.space))))
    BY <1>2, <2>4, FirstOpposite
  <2> QED BY <1>1, <1>6, <2>2, <2>5 DEF Kindred
<1>7. CASE a.kind \notin Atoms
  <2>1. PICK m \in Nat, n \in Nat : m = Len(a.children) /\ n = Len(b.children)
    BY FieldsAre
  <2>2. Opposite(Compared(m, n), Compared(n, m)) /\ (Compared(m, n) = 0 => m = n)
    BY ComparedIs
  <2>3. m = n => Opposite(Lexicographic(there), Lexicographic(back))
    BY <2>1, LexicographicOpposite
  <2>4. Opposite(First(Compared(m, n), Lexicographic(there)), First(Compared(n, m), Lexicographic(back)))
    BY <2>2, <2>3, FirstOpposite
  <2>5. Opposite(First(CompareNames(a.head, b.head), First(Compared(m, n), Lexicographic(there))),
                 First(CompareNames(b.head, a.head), First(Compared(n, m), Lexicographic(back))))
    BY <1>2, <2>4, FirstOpposite
  <2>6. /\ Kindred(a, b, there)
             = First(CompareNames(a.head, b.head), First(Compared(m, n), Lexicographic(there)))
        /\ Kindred(b, a, back)
             = First(CompareNames(b.head, a.head), First(Compared(n, m), Lexicographic(back)))
    BY <1>1, <1>7, <2>1 DEF Kindred, Atoms
  <2> QED BY <2>5, <2>6
<1> QED
  BY <1>3, <1>4, <1>5, <1>6, <1>7 DEF Atoms

\* So is the verdict, whatever the ranks.
LEMMA VerdictOpposite ==
  ASSUME IInv, NEW a, NEW b, Fit(a), Fit(b), NEW there, NEW back,
         Len(a.children) = Len(b.children) =>
           /\ DOMAIN there = 1 .. Len(a.children) /\ DOMAIN back = 1 .. Len(a.children)
           /\ \A i \in 1 .. Len(a.children) : Opposite(there[i], back[i])
  PROVE  Opposite(Verdict(a, b, there), Verdict(b, a, back))
<1>1. PICK k \in Nat, l \in Nat : k = Rank[a.kind] /\ l = Rank[b.kind]
  BY RanksAre DEF Fit, NodeOK
<1>2. Opposite(Compared(k, l), Compared(l, k)) /\ (Compared(k, l) = 0 => k = l)
  BY ComparedIs
<1>3. k = l => Opposite(Kindred(a, b, there), Kindred(b, a, back))
  BY <1>1, KindredOpposite
<1>4. Opposite(First(Compared(k, l), Kindred(a, b, there)), First(Compared(l, k), Kindred(b, a, back)))
  BY <1>2, <1>3, FirstOpposite
<1> QED
  BY <1>1, <1>4, VerdictIs

\* Three verdicts make a chain, of one rank first.
LEMMA KindredChain ==
  ASSUME IInv, NEW a, NEW b, NEW c, Fit(a), Fit(b), Fit(c),
         Rank[a.kind] = Rank[b.kind], Rank[b.kind] = Rank[c.kind], NEW ab, NEW bc, NEW ac,
         Len(a.children) = Len(b.children) /\ Len(b.children) = Len(c.children) =>
           /\ DOMAIN ab = 1 .. Len(a.children) /\ DOMAIN bc = 1 .. Len(a.children)
           /\ DOMAIN ac = 1 .. Len(a.children)
           /\ \A i \in 1 .. Len(a.children) :
                Tells(ab[i]) /\ Tells(bc[i]) /\ Tells(ac[i]) /\ Chain(ab[i], bc[i], ac[i])
  PROVE  Chain(Kindred(a, b, ab), Kindred(b, c, bc), Kindred(a, c, ac))
<1>1. \/ a.kind \in Exact /\ b.kind \in Exact /\ c.kind \in Exact
      \/ a.kind \notin Exact /\ a.kind = b.kind /\ b.kind = c.kind
  BY OneRank
<1>2. Chain(CompareNames(a.head, b.head), CompareNames(b.head, c.head), CompareNames(a.head, c.head))
  BY FieldsAre, NamesChain
<1>3. \A s, t : Tells(CompareNames(s, t))
  BY ComparedTells DEF CompareNames
<1>4. CASE a.kind \in Exact
  <2>1. Chain(CompareNumbers(a, b), CompareNumbers(b, c), CompareNumbers(a, c))
    BY <1>1, <1>4, FieldsAre, NumbersChain
  <2> QED BY <1>1, <1>4, <2>1 DEF Kindred
<1>5. CASE a.kind \notin Exact /\ a.kind = "REAL"
  <2>1. Chain(Compared(a.number[1], b.number[1]), Compared(b.number[1], c.number[1]),
              Compared(a.number[1], c.number[1]))
    BY FieldsAre, ComparedChain
  <2> QED BY <1>1, <1>5, <2>1 DEF Kindred
<1>6. CASE a.kind \notin Exact /\ a.kind = "SYMBOL"
  BY <1>1, <1>2, <1>6 DEF Kindred
<1>7. CASE a.kind \notin Exact /\ a.kind \in {"INDEX", "ERROR"}
  <2> DEFINE Aux(x, y) == Compared(AuxOrder[x.aux], AuxOrder[y.aux])
             Last(x, y) == First(Aux(x, y), CompareNames(x.space, y.space))
  <2>1. AuxOrder[a.aux] \in Int /\ AuxOrder[b.aux] \in Int /\ AuxOrder[c.aux] \in Int
    BY <1>1, <1>7, FieldsAre, MarksAre
  <2>2. Chain(Aux(a, b), Aux(b, c), Aux(a, c))
    BY <2>1, ComparedChain
  <2>3. Chain(CompareNames(a.space, b.space), CompareNames(b.space, c.space),
              CompareNames(a.space, c.space))
    BY FieldsAre, NamesChain
  <2>4. \A x, y : Tells(Aux(x, y))
    BY ComparedTells
  <2>5. Kindred(a, b, ab) = IF a.kind = "INDEX" THEN First(CompareNames(a.head, b.head), Last(a, b)) ELSE Aux(a, b)
    BY <1>7 DEF Kindred
  <2>6. Kindred(b, c, bc) = IF a.kind = "INDEX" THEN First(CompareNames(b.head, c.head), Last(b, c)) ELSE Aux(b, c)
    BY <1>1, <1>7 DEF Kindred
  <2>7. Kindred(a, c, ac) = IF a.kind = "INDEX" THEN First(CompareNames(a.head, c.head), Last(a, c)) ELSE Aux(a, c)
    BY <1>7 DEF Kindred
  <2> HIDE DEF Aux
  <2>8. Chain(Last(a, b), Last(b, c), Last(a, c))
    BY <2>2, <2>3, <2>4, FirstChain
  <2> HIDE DEF Last
  <2>9. Chain(First(CompareNames(a.head, b.head), Last(a, b)), First(CompareNames(b.head, c.head), Last(b, c)),
              First(CompareNames(a.head, c.head), Last(a, c)))
    BY <1>2, <1>3, <2>8, FirstChain
  <2> QED BY <2>2, <2>5, <2>6, <2>7, <2>9
<1>8. CASE a.kind \notin Atoms
  <2>1. PICK l \in Nat, m \in Nat, n \in Nat :
           l = Len(a.children) /\ m = Len(b.children) /\ n = Len(c.children)
    BY FieldsAre
  <2>2. /\ Chain(Compared(l, m), Compared(m, n), Compared(l, n))
        /\ Compared(l, m) = 0 /\ Compared(m, n) = 0 => l = m /\ m = n
    BY ComparedIs, ComparedChain
  <2>3. l = m /\ m = n => Chain(Lexicographic(ab), Lexicographic(bc), Lexicographic(ac))
    BY <2>1, LexicographicChain
  <2> DEFINE Last(x, y, results) == First(Compared(x, y), Lexicographic(results))
  <2>4. Chain(Last(l, m, ab), Last(m, n, bc), Last(l, n, ac))
    BY <2>2, <2>3, ComparedTells, FirstChain
  <2>5. /\ Kindred(a, b, ab) = First(CompareNames(a.head, b.head), Last(l, m, ab))
        /\ Kindred(b, c, bc) = First(CompareNames(b.head, c.head), Last(m, n, bc))
        /\ Kindred(a, c, ac) = First(CompareNames(a.head, c.head), Last(l, n, ac))
    BY <1>1, <1>8, <2>1 DEF Kindred, Atoms
  <2> HIDE DEF Last
  <2>6. Chain(First(CompareNames(a.head, b.head), Last(l, m, ab)),
              First(CompareNames(b.head, c.head), Last(m, n, bc)),
              First(CompareNames(a.head, c.head), Last(l, n, ac)))
    BY <1>2, <1>3, <2>4, FirstChain
  <2> QED BY <2>5, <2>6
<1> QED
  BY <1>4, <1>5, <1>6, <1>7, <1>8 DEF Atoms

\* Of any rank
LEMMA VerdictChain ==
  ASSUME IInv, NEW a, NEW b, NEW c, Fit(a), Fit(b), Fit(c), NEW ab, NEW bc, NEW ac,
         Len(a.children) = Len(b.children) /\ Len(b.children) = Len(c.children) =>
           /\ DOMAIN ab = 1 .. Len(a.children) /\ DOMAIN bc = 1 .. Len(a.children)
           /\ DOMAIN ac = 1 .. Len(a.children)
           /\ \A i \in 1 .. Len(a.children) :
                Tells(ab[i]) /\ Tells(bc[i]) /\ Tells(ac[i]) /\ Chain(ab[i], bc[i], ac[i])
  PROVE  Chain(Verdict(a, b, ab), Verdict(b, c, bc), Verdict(a, c, ac))
<1>1. PICK k \in Nat, l \in Nat, m \in Nat : k = Rank[a.kind] /\ l = Rank[b.kind] /\ m = Rank[c.kind]
  BY RanksAre DEF Fit, NodeOK
<1>2. /\ Chain(Compared(k, l), Compared(l, m), Compared(k, m))
      /\ Compared(k, l) = 0 /\ Compared(l, m) = 0 => k = l /\ l = m
  BY ComparedIs, ComparedChain
<1>3. k = l /\ l = m => Chain(Kindred(a, b, ab), Kindred(b, c, bc), Kindred(a, c, ac))
  BY <1>1, KindredChain
<1>4. Chain(First(Compared(k, l), Kindred(a, b, ab)), First(Compared(l, m), Kindred(b, c, bc)),
            First(Compared(k, m), Kindred(a, c, ac)))
  BY <1>2, <1>3, ComparedTells, FirstChain
<1> QED
  BY <1>1, <1>4, VerdictIs

\* A node of depth n over children less deep, one of them by one only
LEMMA OneDepth ==
  ASSUME IInv, AllShaped, NEW r \in Refs, NEW s \in Refs,
         nodes[r].kind \notin Atoms, nodes[s].kind \notin Atoms,
         nodes[r].children = nodes[s].children
  PROVE  nodes[r].depth = nodes[s].depth
<1> DEFINE c == nodes[r].children
<1>1. Topmost(nodes[r]) /\ Topmost(nodes[s])
  BY DEF AllShaped, Shaped
<1>2. CASE DOMAIN c = {}
  BY <1>1, <1>2 DEF Topmost
<1>3. CASE DOMAIN c # {}
  <2>1. \A t \in Refs : nodes[t].depth \in Nat
    BY DataAssumption DEF IInv, NodesInOrder, NodeOK
  <2>2. PICK m \in Nat, n \in Nat : m = nodes[r].depth /\ n = nodes[s].depth
    BY <2>1
  <2>3. \A i \in DOMAIN c : nodes[c[i]].depth < m /\ nodes[c[i]].depth < n
    BY <2>2 DEF IInv, NodesInOrder, Over
  <2>4. PICK i \in DOMAIN c : m = nodes[c[i]].depth + 1
    BY <1>1, <1>3, <2>2 DEF Topmost
  <2>5. PICK j \in DOMAIN c : n = nodes[c[j]].depth + 1
    BY <1>1, <1>3, <2>2 DEF Topmost
  <2>6. c[i] \in Refs /\ c[j] \in Refs
    BY RefsAre, ChildrenBelow
  <2>7. PICK x \in Nat, y \in Nat : x = nodes[c[i]].depth /\ y = nodes[c[j]].depth
    BY <2>1, <2>6
  <2>8. m = x + 1 /\ n = y + 1 /\ x < n /\ y < m
    BY <2>3, <2>4, <2>5, <2>7
  <2>9. m = n
    BY ONLY m \in Nat, n \in Nat, x \in Nat, y \in Nat, <2>8
  <2> QED BY <2>2, <2>9
<1> QED
  BY <1>2, <1>3

\* What is told apart by nothing is one node.
LEMMA VerdictOfEqual ==
  ASSUME IInv, AllShaped, NEW r \in Refs, NEW s \in Refs, NEW results,
         Len(nodes[r].children) = Len(nodes[s].children) =>
           /\ DOMAIN results = 1 .. Len(nodes[r].children)
           /\ \A i \in 1 .. Len(nodes[r].children) :
                /\ Tells(results[i])
                /\ results[i] = 0 => nodes[r].children[i] = nodes[s].children[i],
         Verdict(nodes[r], nodes[s], results) = 0
  PROVE  r = s
<1> DEFINE a == nodes[r]
           b == nodes[s]
<1>1. Fit(a) /\ Fit(b)
  BY DEF Fit, AllShaped, IInv, NodesInOrder
<1>2. PICK k \in Nat, l \in Nat : k = Rank[a.kind] /\ l = Rank[b.kind]
  BY <1>1, RanksAre DEF Fit, NodeOK
<1>3. Compared(k, l) = 0 /\ Kindred(a, b, results) = 0
  BY <1>1, <1>2, VerdictIs DEF First
<1>4. k = l
  BY <1>3, ComparedIs
<1> HIDE DEF a, b
<1>5. \/ a.kind \in Exact /\ b.kind \in Exact
      \/ a.kind \notin Exact /\ a.kind = b.kind
  BY <1>1, <1>2, <1>4, OneRank
<1>6. CompareNames(a.head, b.head) = 0 => a.head = b.head
  BY <1>1, FieldsAre, NamesOrdered
<1>7. CASE a.kind \in Exact
  <2>1. CompareNumbers(a, b) = 0
    BY <1>3, <1>7 DEF Kindred
  <2>2. a.number[1] * b.number[2] = b.number[1] * a.number[2]
    BY <1>1, <1>5, <1>7, <2>1, FieldsAre, NumbersOpposite
  <2>3. /\ IsLowest(a.number) /\ a = NumberNode(a.number, IF FitsInline(a.number) THEN "" ELSE "big")
        /\ IsLowest(b.number) /\ b = NumberNode(b.number, IF FitsInline(b.number) THEN "" ELSE "big")
    BY <1>1, <1>5, <1>7, ExactIs DEF Fit
  <2>4. a.number = b.number
    BY <2>2, <2>3, LowestIsUnique
  <2>5. a = b
    BY <2>3, <2>4
  <2> QED BY <2>5 DEF a, b, IInv, NodesDiffer
<1>8. CASE a.kind \notin Exact /\ a.kind = "REAL"
  <2>1. Compared(a.number[1], b.number[1]) = 0
    BY <1>3, <1>8 DEF Kindred
  <2>2. a.number[1] = b.number[1]
    BY <1>1, <2>1, FieldsAre, ComparedIs
  <2>3. a = Atom("REAL", Null, "", Null, <<a.number[1], 1>>) /\ b = Atom("REAL", Null, "", Null, <<b.number[1], 1>>)
    BY <1>1, <1>5, <1>8 DEF Fit, Shaped
  <2>4. a = b
    BY <2>2, <2>3
  <2> QED BY <2>4 DEF a, b, IInv, NodesDiffer
<1>9. CASE a.kind \notin Exact /\ a.kind = "SYMBOL"
  <2>1. a.head = b.head
    BY <1>3, <1>6, <1>9 DEF Kindred
  <2>2. a = Atom("SYMBOL", a.head, "", Null, NoNumber) /\ b = Atom("SYMBOL", b.head, "", Null, NoNumber)
    BY <1>1, <1>5, <1>9 DEF Fit, Shaped
  <2>3. a = b
    BY <2>1, <2>2
  <2> QED BY <2>3 DEF a, b, IInv, NodesDiffer
<1>10. CASE a.kind \notin Exact /\ a.kind = "INDEX"
  <2>1. /\ CompareNames(a.head, b.head) = 0 /\ Compared(AuxOrder[a.aux], AuxOrder[b.aux]) = 0
        /\ CompareNames(a.space, b.space) = 0
    BY <1>3, <1>10 DEF Kindred, First
  <2>2. a.aux \in Marks /\ b.aux \in Marks
    BY <1>1, <1>5, <1>10, FieldsAre
  <2>3. a.aux = b.aux
    BY <2>1, <2>2, MarksAre, ComparedIs
  <2>4. a.space = b.space
    BY <1>1, <2>1, FieldsAre, NamesOrdered
  <2>5. /\ a = Atom("INDEX", a.head, a.aux, a.space, NoNumber)
        /\ b = Atom("INDEX", b.head, b.aux, b.space, NoNumber)
    BY <1>1, <1>5, <1>10 DEF Fit, Shaped
  <2>6. a = b
    BY <1>6, <2>1, <2>3, <2>4, <2>5
  <2> QED BY <2>6 DEF a, b, IInv, NodesDiffer
<1>11. CASE a.kind \notin Exact /\ a.kind = "ERROR"
  <2>1. Compared(AuxOrder[a.aux], AuxOrder[b.aux]) = 0
    BY <1>3, <1>11 DEF Kindred
  <2>2. a.aux \in Marks /\ b.aux \in Marks
    BY <1>1, <1>5, <1>11, FieldsAre
  <2>3. a.aux = b.aux
    BY <2>1, <2>2, MarksAre, ComparedIs
  <2>4. a = Atom("ERROR", Null, a.aux, Null, NoNumber) /\ b = Atom("ERROR", Null, b.aux, Null, NoNumber)
    BY <1>1, <1>5, <1>11 DEF Fit, Shaped
  <2>5. a = b
    BY <2>3, <2>4
  <2> QED BY <2>5 DEF a, b, IInv, NodesDiffer
<1>12. CASE a.kind \notin Atoms
  <2>1. PICK m \in Nat, n \in Nat : m = Len(a.children) /\ n = Len(b.children)
    BY <1>1, FieldsAre
  <2>2. /\ CompareNames(a.head, b.head) = 0 /\ Compared(m, n) = 0 /\ Lexicographic(results) = 0
    BY <1>3, <1>12, <2>1 DEF Kindred, First, Atoms
  <2>3. m = n
    BY <2>2, ComparedIs
  <2>4. \A i \in 1 .. m : results[i] = 0 /\ a.children[i] = b.children[i]
    BY <2>1, <2>2, <2>3, LexicographicTells DEF a, b
  <2>5. /\ IsList(a.children) /\ DOMAIN a.children = 1 .. m
        /\ IsList(b.children) /\ DOMAIN b.children = 1 .. m
    BY <1>1, <2>1, <2>3, FieldsAre DEF Fit, NodeOK
  <2>6. a.children = b.children
    BY <2>4, <2>5 DEF IsList
  <2>7. a.depth = b.depth
    BY <1>5, <1>12, <2>6, OneDepth DEF a, b, Atoms
  <2>8. a = Compound(a.kind, a.head, a.children, a.depth) /\ b = Compound(b.kind, b.head, b.children, b.depth)
    BY <1>1, <1>5, <1>12 DEF Fit, Shaped, Atoms
  <2>9. a = b
    BY <1>5, <1>6, <1>12, <2>2, <2>6, <2>7, <2>8 DEF Atoms
  <2> QED BY <2>9 DEF a, b, IInv, NodesDiffer
<1> QED
  BY <1>7, <1>8, <1>9, <1>10, <1>11, <1>12 DEF Atoms

-----------------------------------------------------------------------------
(* phy_ir_compare is a total order *)

\* The laws, as far as ref k.
OrderedUpTo(k) ==
    /\ \A r, s \in 1 .. k : Opposite(Compare(r, s), Compare(s, r)) /\ (Compare(r, s) = 0 => r = s)
    /\ \A r, s, t \in 1 .. k : Chain(Compare(r, s), Compare(s, t), Compare(r, t))

\* What is said of children, when it is lawful
LEMMA ResultsAre ==
  ASSUME IInv, NEW k \in Nat, k < Len(nodes), OrderedUpTo(k), NEW r \in 1 .. k + 1, NEW s \in 1 .. k + 1,
         Len(nodes[r].children) = Len(nodes[s].children)
  PROVE  LET there == ResultsOf(Order, nodes[r], nodes[s])
             back == ResultsOf(Order, nodes[s], nodes[r])
             n == Len(nodes[r].children)
         IN  /\ n \in Nat /\ DOMAIN there = 1 .. n /\ DOMAIN back = 1 .. n
             /\ \A i \in 1 .. n :
                  /\ there[i] = Compare(nodes[r].children[i], nodes[s].children[i])
                  /\ Tells(there[i]) /\ Opposite(there[i], back[i])
                  /\ there[i] = 0 => nodes[r].children[i] = nodes[s].children[i]
                  /\ nodes[r].children[i] \in 1 .. k /\ nodes[s].children[i] \in 1 .. k
<1>1. r \in Refs /\ s \in Refs
  BY RefsAre DEF Refs
<1>2. PICK c, d : c = nodes[r].children /\ d = nodes[s].children
  OBVIOUS
<1>3. /\ IsList(c) /\ \A i \in DOMAIN c : c[i] \in 1 .. r - 1
      /\ IsList(d) /\ \A i \in DOMAIN d : d[i] \in 1 .. s - 1
  BY <1>1, <1>2, ChildrenBelow
<1>4. PICK n \in Nat : n = Len(c) /\ n = Len(d) /\ DOMAIN c = 1 .. n /\ DOMAIN d = 1 .. n
  BY <1>2, <1>3, ListIs
<1>5. \A i \in 1 .. n : c[i] \in 1 .. k /\ d[i] \in 1 .. k
  <2>1. \A x : x \in 1 .. r - 1 \/ x \in 1 .. s - 1 => x \in 1 .. k
    OBVIOUS
  <2> QED BY <1>3, <1>4, <2>1
<1> DEFINE there == ResultsOf(Order, nodes[r], nodes[s])
           back == ResultsOf(Order, nodes[s], nodes[r])
<1>6. /\ DOMAIN there = 1 .. n /\ \A i \in 1 .. n : there[i] = Compare(c[i], d[i])
      /\ DOMAIN back = 1 .. n /\ \A i \in 1 .. n : back[i] = Compare(d[i], c[i])
  BY <1>2, <1>4 DEF ResultsOf, Compare
<1> HIDE DEF there, back
<1>7. \A i \in 1 .. n : /\ there[i] = Compare(c[i], d[i])
                        /\ Opposite(there[i], back[i]) /\ Tells(there[i])
                        /\ there[i] = 0 => c[i] = d[i]
  <2>1. \A x, y : Opposite(x, y) => Tells(x)
    BY DEF Opposite
  <2> QED BY <1>5, <1>6, <2>1 DEF OrderedUpTo
<1> QED
  BY <1>2, <1>4, <1>5, <1>6, <1>7 DEF there, back

\* One ref more
LEMMA OrderedOn ==
  ASSUME IInv, AllShaped, NEW k \in Nat, k < Len(nodes), OrderedUpTo(k)
  PROVE  OrderedUpTo(k + 1)
<1> DEFINE R(r, s) == ResultsOf(Order, nodes[r], nodes[s])
<1>1. \A r \in 1 .. k + 1 : r \in Refs
  BY RefsAre DEF Refs
<1>2. \A r \in 1 .. k + 1 : Fit(nodes[r])
  BY <1>1 DEF Fit, AllShaped, IInv, NodesInOrder
<1>3. ASSUME NEW r \in 1 .. k + 1, NEW s \in 1 .. k + 1
      PROVE  Compare(r, s) = IF r = s THEN 0 ELSE Verdict(nodes[r], nodes[s], R(r, s))
  BY <1>1, CompareIs DEF Told
<1>4. ASSUME NEW r \in 1 .. k + 1, NEW s \in 1 .. k + 1, Len(nodes[r].children) = Len(nodes[s].children)
      PROVE  /\ DOMAIN R(r, s) = 1 .. Len(nodes[r].children) /\ DOMAIN R(s, r) = 1 .. Len(nodes[r].children)
             /\ \A i \in 1 .. Len(nodes[r].children) :
                  /\ R(r, s)[i] = Compare(nodes[r].children[i], nodes[s].children[i])
                  /\ Tells(R(r, s)[i]) /\ Opposite(R(r, s)[i], R(s, r)[i])
                  /\ R(r, s)[i] = 0 => nodes[r].children[i] = nodes[s].children[i]
                  /\ nodes[r].children[i] \in 1 .. k /\ nodes[s].children[i] \in 1 .. k
  BY <1>4, ResultsAre
<1> HIDE DEF R
<1>5. ASSUME NEW r \in 1 .. k + 1, NEW s \in 1 .. k + 1
      PROVE  Opposite(Compare(r, s), Compare(s, r)) /\ (Compare(r, s) = 0 => r = s)
  <2>1. CASE r = s
    <3>1. Compare(r, s) = 0 /\ Compare(s, r) = 0
      BY <1>3, <2>1
    <3>2. \A x \in Int : x = 0 => Opposite(x, x)
      BY DEF Opposite, Tells
    <3> QED BY <2>1, <3>1, <3>2
  <2>2. CASE r # s
    <3>1. Compare(r, s) = Verdict(nodes[r], nodes[s], R(r, s)) /\ Compare(s, r) = Verdict(nodes[s], nodes[r], R(s, r))
      BY <1>3, <2>2
    <3>2. Opposite(Verdict(nodes[r], nodes[s], R(r, s)), Verdict(nodes[s], nodes[r], R(s, r)))
      BY <1>2, <1>4, VerdictOpposite
    <3>3. Verdict(nodes[r], nodes[s], R(r, s)) = 0 => r = s
      BY <1>1, <1>4, VerdictOfEqual
    <3> QED BY <3>1, <3>2, <3>3
  <2> QED BY <2>1, <2>2
<1>6. ASSUME NEW r \in 1 .. k + 1, NEW s \in 1 .. k + 1, NEW t \in 1 .. k + 1
      PROVE  Chain(Compare(r, s), Compare(s, t), Compare(r, t))
  <2>1. PICK x \in Int, y \in Int, z \in Int, u \in Int :
           x = Compare(r, s) /\ y = Compare(s, t) /\ z = Compare(r, t) /\ u = Compare(s, r)
    BY <1>5 DEF Opposite, Tells
  <2>2. CASE r = s
    <3>1. x = 0 /\ z = y
      BY <1>3, <2>1, <2>2
    <3>2. Chain(x, y, z)
      BY <3>1 DEF Chain
    <3> QED BY <2>1, <3>2
  <2>3. CASE s = t
    <3>1. y = 0 /\ z = x
      BY <1>3, <2>1, <2>3
    <3>2. Chain(x, y, z)
      BY <3>1 DEF Chain
    <3> QED BY <2>1, <3>2
  <2>4. CASE r = t
    <3>1. z = 0 /\ y = u /\ x + u = 0
      BY <1>3, <1>5, <2>1, <2>4 DEF Opposite
    <3>2. Chain(x, y, z)
      BY <3>1 DEF Chain
    <3> QED BY <2>1, <3>2
  <2>5. CASE r # s /\ s # t /\ r # t
    <3>1. /\ Compare(r, s) = Verdict(nodes[r], nodes[s], R(r, s))
          /\ Compare(s, t) = Verdict(nodes[s], nodes[t], R(s, t))
          /\ Compare(r, t) = Verdict(nodes[r], nodes[t], R(r, t))
      BY <1>3, <2>5
    <3>2. ASSUME Len(nodes[r].children) = Len(nodes[s].children), Len(nodes[s].children) = Len(nodes[t].children)
          PROVE  /\ DOMAIN R(r, s) = 1 .. Len(nodes[r].children) /\ DOMAIN R(s, t) = 1 .. Len(nodes[r].children)
                 /\ DOMAIN R(r, t) = 1 .. Len(nodes[r].children)
                 /\ \A i \in 1 .. Len(nodes[r].children) :
                      /\ Tells(R(r, s)[i]) /\ Tells(R(s, t)[i]) /\ Tells(R(r, t)[i])
                      /\ Chain(R(r, s)[i], R(s, t)[i], R(r, t)[i])
      <4> DEFINE Alike(n, a, b) ==
                   /\ DOMAIN R(a, b) = 1 .. n
                   /\ \A i \in 1 .. n : /\ R(a, b)[i] = Compare(nodes[a].children[i], nodes[b].children[i])
                                        /\ Tells(R(a, b)[i])
                                        /\ nodes[a].children[i] \in 1 .. k /\ nodes[b].children[i] \in 1 .. k
      <4>1. ASSUME NEW a \in 1 .. k + 1, NEW b \in 1 .. k + 1, Len(nodes[a].children) = Len(nodes[b].children)
            PROVE  Alike(Len(nodes[a].children), a, b)
        <5>1. /\ DOMAIN R(a, b) = 1 .. Len(nodes[a].children)
              /\ \A i \in 1 .. Len(nodes[a].children) :
                   /\ R(a, b)[i] = Compare(nodes[a].children[i], nodes[b].children[i])
                   /\ Tells(R(a, b)[i])
                   /\ nodes[a].children[i] \in 1 .. k /\ nodes[b].children[i] \in 1 .. k
          BY ONLY <1>4, <4>1, ZenonT(40)
        <5> QED BY ONLY <5>1
      <4> HIDE DEF Alike
      <4>2. PICK n : n = Len(nodes[r].children) /\ n = Len(nodes[s].children) /\ n = Len(nodes[t].children)
        BY <3>2
      <4>3. Alike(n, r, s) /\ Alike(n, s, t) /\ Alike(n, r, t)
        BY <4>1, <4>2
      <4>4. /\ DOMAIN R(r, s) = 1 .. n
            /\ \A i \in 1 .. n : /\ R(r, s)[i] = Compare(nodes[r].children[i], nodes[s].children[i])
                                 /\ Tells(R(r, s)[i])
                                 /\ nodes[r].children[i] \in 1 .. k /\ nodes[s].children[i] \in 1 .. k
        BY <4>3 DEF Alike
      <4>5. /\ DOMAIN R(s, t) = 1 .. n
            /\ \A i \in 1 .. n : /\ R(s, t)[i] = Compare(nodes[s].children[i], nodes[t].children[i])
                                 /\ Tells(R(s, t)[i])
                                 /\ nodes[t].children[i] \in 1 .. k
        BY <4>3 DEF Alike
      <4>6. /\ DOMAIN R(r, t) = 1 .. n
            /\ \A i \in 1 .. n : /\ R(r, t)[i] = Compare(nodes[r].children[i], nodes[t].children[i])
                                 /\ Tells(R(r, t)[i])
        BY <4>3 DEF Alike
      <4>7. \A c, d, e \in 1 .. k : Chain(Compare(c, d), Compare(d, e), Compare(c, e))
        BY DEF OrderedUpTo
      <4>8. \A i \in 1 .. n : Chain(R(r, s)[i], R(s, t)[i], R(r, t)[i])
        BY <4>4, <4>5, <4>6, <4>7
      <4> QED BY <4>2, <4>4, <4>5, <4>6, <4>8
    <3>3. Chain(Verdict(nodes[r], nodes[s], R(r, s)), Verdict(nodes[s], nodes[t], R(s, t)),
                Verdict(nodes[r], nodes[t], R(r, t)))
      BY <1>2, <3>2, VerdictChain
    <3> QED BY <3>1, <3>3
  <2> QED BY <2>2, <2>3, <2>4, <2>5
<1> QED
  BY <1>5, <1>6 DEF OrderedUpTo

\* Of all refs
LEMMA Ordered ==
  ASSUME IInv, AllShaped
  PROVE  OrderedUpTo(Len(nodes))
<1>1. PICK n \in Nat : n = Len(nodes)
  BY RefsAre
<1> DEFINE P == {k \in 0 .. n : OrderedUpTo(k)}
<1>2. 0 \in P
  <2>1. OrderedUpTo(0)
    BY DEF OrderedUpTo
  <2> QED BY <2>1
<1>3. ASSUME NEW k \in 1 .. n, k - 1 \in P PROVE k \in P
  <2>1. PICK j \in Nat : j = k - 1 /\ j < n /\ OrderedUpTo(j) /\ j + 1 = k
    BY <1>3
  <2>2. OrderedUpTo(j + 1)
    BY <1>1, <2>1, OrderedOn
  <2> QED BY <2>1, <2>2
<1>4. \A k \in 0 .. n : k \in P
  <2> HIDE DEF P
  <2> QED BY <1>2, <1>3, Along
<1>5. n \in 0 .. n
  OBVIOUS
<1> QED
  BY <1>1, <1>4, <1>5

\* What a caller relies on: one way round, and no cycle.
LEMMA CompareOrders ==
  ASSUME IInv, AllShaped
  PROVE  /\ \A r, s \in Refs : Tells(Compare(r, s)) /\ Compare(r, s) + Compare(s, r) = 0
                               /\ (Compare(r, s) = 0 => r = s)
         /\ \A r, s, t \in Refs : Chain(Compare(r, s), Compare(s, t), Compare(r, t))
  BY Ordered DEF OrderedUpTo, Opposite, Refs

-----------------------------------------------------------------------------
(* phy_ir_sort_refs *)

\* Refs in the order of phy_ir_compare
Ascending(u) == \A i, j \in DOMAIN u : i < j => Compare(u[i], u[j]) <= 0

\* What no element is missing before is a first part.
LEMMA FirstPart ==
  ASSUME NEW n \in Nat, NEW T, T \subseteq 1 .. n, \A i, j \in 1 .. n : i < j /\ j \in T => i \in T
  PROVE  \E k \in 0 .. n : k = Cardinality(T) /\ \A i \in 1 .. n : i \in T <=> i <= k
<1> DEFINE Others == (1 .. n) \ T
<1>1. CASE Others = {}
  <2>1. T = 1 .. n
    BY <1>1
  <2>2. Cardinality(1 .. n) = n
    BY CountingUp
  <2>3. PICK k \in 0 .. n : k = n
    OBVIOUS
  <2>4. \A i \in 1 .. n : i \in T /\ i <= k
    BY <2>1, <2>3
  <2> QED BY <2>1, <2>2, <2>3, <2>4
<1>2. CASE Others # {}
  <2>1. Others \subseteq Nat
    OBVIOUS
  <2>2. PICK m \in Others : \A y \in Others : m <= y
    <3> HIDE DEF Others
    <3> QED BY <1>2, <2>1, Least
  <2>3. m \in 1 .. n /\ m \notin T /\ \A i \in 1 .. n : i < m => i \in T
    BY <2>2
  <2>4. PICK k \in 0 .. n : k + 1 = m
    <3>1. m - 1 \in 0 .. n /\ (m - 1) + 1 = m
      BY <2>3
    <3> QED BY <3>1
  <2>5. ASSUME NEW i \in 1 .. n PROVE i \in T <=> i <= k
    <3>1. i < m <=> i <= k
      BY <2>4
    <3>2. i < m \/ i = m \/ m < i
      BY <2>3
    <3> QED BY <2>3, <3>1, <3>2
  <2>6. \A i \in T : i \in 1 .. n
    OBVIOUS
  <2>7. \A i : i \in 1 .. k <=> i \in 1 .. n /\ i <= k
    OBVIOUS
  <2>8. T = 1 .. k
    <3>1. \A i : i \in T <=> i \in 1 .. k
      BY <2>5, <2>6, <2>7
    <3> QED BY <3>1
  <2>9. Cardinality(1 .. k) = k
    <3>1. k \in Nat
      OBVIOUS
    <3> QED BY <3>1, CountingUp
  <2> QED BY <2>5, <2>8, <2>9
<1> QED
  BY <1>1, <1>2

\* list is u with e put in after the first k.
PutIn(u, k, e, list) == list = SubSeq(u, 1, k) \o <<e>> \o SubSeq(u, k + 1, Len(u))

\* A list with an element put in after the first k
LEMMA InsertedAt ==
  ASSUME NEW S, NEW u \in Seq(S), NEW k \in 0 .. Len(u), NEW e \in S,
         NEW list, PutIn(u, k, e, list)
  PROVE  /\ DOMAIN list = 1 .. Len(u) + 1
         /\ \A i \in 1 .. Len(u) + 1 : list[i] = IF i <= k THEN u[i] ELSE IF i = k + 1 THEN e ELSE u[i - 1]
<1> DEFINE a == SubSeq(u, 1, k)
           b == SubSeq(u, k + 1, Len(u))
           n == Len(u)
           w == a \o <<e>>
           v == w \o b
<1>1. n \in Nat /\ k \in Nat /\ k <= n
  OBVIOUS
<1>2. a \in Seq(S) /\ Len(a) = k /\ \A i \in 1 .. k : a[i] = u[i]
  OBVIOUS
<1>3. b \in Seq(S) /\ Len(b) = n - k
  OBVIOUS
<1>4. \A i \in 1 .. n - k : b[i] = u[i + k]
  OBVIOUS
<1>5. <<e>> \in Seq(S) /\ Len(<<e>>) = 1 /\ <<e>>[1] = e
  OBVIOUS
<1> HIDE DEF a, b, n
<1>6. \A p, q \in Seq(S) :
         /\ p \o q \in Seq(S) /\ Len(p \o q) = Len(p) + Len(q)
         /\ \A i \in 1 .. Len(p) + Len(q) : (p \o q)[i] = IF i <= Len(p) THEN p[i] ELSE q[i - Len(p)]
  OBVIOUS
<1> DEFINE one == <<e>>
<1>7. one \in Seq(S) /\ Len(one) = 1 /\ one[1] = e
  BY <1>5
<1> HIDE DEF one
<1>8. /\ a \o one \in Seq(S) /\ Len(a \o one) = Len(a) + Len(one)
       /\ \A i \in 1 .. Len(a) + Len(one) : (a \o one)[i] = IF i <= Len(a) THEN a[i] ELSE one[i - Len(a)]
  BY ONLY <1>2, <1>7, <1>6, Zenon
<1>9. w = a \o one
  BY DEF one
<1> HIDE DEF w
<1>10. /\ w \in Seq(S) /\ Len(w) = Len(a) + Len(one)
       /\ \A i \in 1 .. Len(a) + Len(one) : w[i] = IF i <= Len(a) THEN a[i] ELSE one[i - Len(a)]
  BY ONLY <1>8, <1>9
<1>11. Len(a) = k
  BY <1>2
<1>12. \A i \in 1 .. k : a[i] = u[i]
  BY <1>2
<1>13. w \in Seq(S) /\ Len(w) = k + 1 /\ \A i \in 1 .. k + 1 : w[i] = IF i <= k THEN u[i] ELSE e
  <2>1. w \in Seq(S) /\ Len(w) = k + 1 /\ \A i \in 1 .. k + 1 : w[i] = IF i <= k THEN a[i] ELSE one[i - k]
    BY ONLY <1>10, <1>11, <1>7
  <2>2. ASSUME NEW i \in 1 .. k + 1 PROVE w[i] = IF i <= k THEN u[i] ELSE e
    <3>1. CASE i <= k
      <4>1. i \in 1 .. k
        BY ONLY <1>1, <2>2, <3>1
      <4> QED BY ONLY <2>1, <2>2, <3>1, <4>1, <1>12
    <3>2. CASE i = k + 1
      <4>1. ~(i <= k) /\ i - k = 1
        BY ONLY <1>1, <3>2
      <4>2. w[i] = one[1]
        BY ONLY <2>1, <2>2, <4>1
      <4> QED BY ONLY <4>1, <4>2, <1>7
    <3>3. i <= k \/ i = k + 1
      BY ONLY <1>1, <2>2
    <3> QED BY <3>1, <3>2, <3>3
  <2> QED BY <2>1, <2>2
<1>14. v \in Seq(S) /\ Len(v) = Len(w) + Len(b)
      /\ \A i \in 1 .. Len(w) + Len(b) : v[i] = IF i <= Len(w) THEN w[i] ELSE b[i - Len(w)]
  BY <1>3, <1>13, <1>6, Zenon
<1>15. DOMAIN v = 1 .. Len(v)
  BY <1>14
<1> HIDE DEF v
<1>16. Len(w) + Len(b) = n + 1
  BY <1>1, <1>3, <1>13
<1>17. ASSUME NEW i \in 1 .. n + 1
       PROVE  v[i] = IF i <= k THEN u[i] ELSE IF i = k + 1 THEN e ELSE u[i - 1]
  <2>1. v[i] = IF i <= k + 1 THEN w[i] ELSE b[i - (k + 1)]
    BY <1>13, <1>14, <1>16
  <2>2. CASE i <= k
    <3>1. i \in 1 .. k + 1 /\ i <= k + 1
      BY <1>1, <2>2
    <3> QED BY <1>13, <2>1, <2>2, <3>1
  <2>3. CASE i = k + 1
    <3>1. i \in 1 .. k + 1 /\ i <= k + 1 /\ ~(i <= k)
      BY <1>1, <2>3
    <3> QED BY <1>13, <2>1, <2>3, <3>1
  <2>4. CASE i > k + 1
    <3>1. PICK j : j = i - (k + 1)
      OBVIOUS
    <3>2. j \in 1 .. n - k /\ j + k = i - 1
      BY <1>1, <2>4, <3>1
    <3>3. b[j] = u[i - 1]
      BY <1>4, <3>2
    <3>4. ~(i <= k) /\ ~(i = k + 1) /\ ~(i <= k + 1)
      BY <1>1, <2>4
    <3> QED BY <2>1, <3>1, <3>3, <3>4
  <2> QED BY <1>1, <2>2, <2>3, <2>4
<1> QED
  <2>1. list = v
    BY DEF v, w, a, b, n, PutIn
  <2> QED BY <1>14, <1>15, <1>16, <1>17, <2>1 DEF n

\* A ref put behind all that it does not precede
LEMMA InsertedAscends ==
  ASSUME IInv, AllShaped, NEW u \in Seq(Refs), Ascending(u), NEW ref \in Refs
  PROVE  Ascending(Inserted(u, ref))
<1> DEFINE front == {i \in DOMAIN u : Compare(u[i], ref) <= 0}
           n == Len(u)
<1>1. n \in Nat /\ DOMAIN u = 1 .. n /\ \A i \in 1 .. n : u[i] \in Refs
  OBVIOUS
<1>2. n \in Nat
  BY <1>1
<1> HIDE DEF n
<1>3. \A i \in 1 .. n : i \in front <=> Compare(u[i], ref) <= 0
  BY <1>1
<1>4. \A i, j \in 1 .. n : i < j /\ j \in front => i \in front
  <2>1. ASSUME NEW i \in 1 .. n, NEW j \in 1 .. n, i < j, j \in front PROVE i \in front
    <3>1. Compare(u[i], u[j]) <= 0 /\ Compare(u[j], ref) <= 0
      BY <1>1, <1>3, <2>1 DEF Ascending
    <3>2. Chain(Compare(u[i], u[j]), Compare(u[j], ref), Compare(u[i], ref))
      BY <1>1, CompareOrders
    <3>3. Tells(Compare(u[i], ref))
      BY <1>1, CompareOrders
    <3>4. Compare(u[i], ref) <= 0
      BY <3>1, <3>2, <3>3 DEF Chain, Tells
    <3> QED BY <1>3, <3>4
  <2> QED BY <2>1
<1>5. front \subseteq 1 .. n
  BY <1>1
<1> HIDE DEF front
<1>6. PICK k \in 0 .. n : k = Cardinality(front) /\ \A i \in 1 .. n : i \in front <=> i <= k
  BY <1>1, <1>4, <1>5, FirstPart
<1>7. Inserted(u, ref) = SubSeq(u, 1, k) \o <<ref>> \o SubSeq(u, k + 1, n)
  BY <1>6 DEF Inserted, front, n
<1>8. ASSUME NEW i \in 1 .. n
      PROVE  IF i <= k THEN Compare(u[i], ref) <= 0 ELSE Compare(ref, u[i]) <= 0
  <2>1. CASE i <= k
    BY <1>3, <1>6, <2>1
  <2>2. CASE ~(i <= k)
    <3>1. ~(Compare(u[i], ref) <= 0)
      BY <1>3, <1>6, <2>2
    <3>2. /\ Tells(Compare(u[i], ref)) /\ Tells(Compare(ref, u[i]))
          /\ Compare(u[i], ref) + Compare(ref, u[i]) = 0
      BY <1>1, CompareOrders
    <3> QED BY <2>2, <3>1, <3>2 DEF Tells
  <2> QED BY <2>1, <2>2
<1>9. PICK m : m = k
  OBVIOUS
<1>10. m \in 0 .. n
  BY <1>9
<1>11. ASSUME NEW i \in 1 .. n
       PROVE  IF i <= m THEN Compare(u[i], ref) <= 0 ELSE Compare(ref, u[i]) <= 0
  BY <1>8, <1>9
<1>12. PICK v : v = SubSeq(u, 1, m) \o <<ref>> \o SubSeq(u, m + 1, n)
  OBVIOUS
<1>13. /\ DOMAIN v = 1 .. n + 1
       /\ \A i \in 1 .. n + 1 : v[i] = IF i <= m THEN u[i] ELSE IF i = m + 1 THEN ref ELSE u[i - 1]
  <2>1. PICK S : S = Refs
    OBVIOUS
  <2>2. u \in Seq(S) /\ ref \in S
    BY <2>1
  <2>3. m \in 0 .. Len(u) /\ PutIn(u, m, ref, v)
    BY <1>10, <1>12 DEF n, PutIn
  <2>4. /\ DOMAIN v = 1 .. Len(u) + 1
        /\ \A i \in 1 .. Len(u) + 1 :
              v[i] = IF i <= m THEN u[i] ELSE IF i = m + 1 THEN ref ELSE u[i - 1]
    BY ONLY <2>2, <2>3, InsertedAt
  <2> QED BY <2>4 DEF n
<1>14. ASSUME NEW i \in 1 .. n + 1, NEW j \in 1 .. n + 1, i < j PROVE Compare(v[i], v[j]) <= 0
  <2>1. CASE i = m + 1
    <3>1. j - 1 \in 1 .. n /\ ~(j - 1 <= m) /\ ~(j <= m) /\ j # m + 1
      BY ONLY <1>2, <1>10, <1>14, <2>1
    <3>2. v[i] = ref /\ v[j] = u[j - 1]
      BY <1>10, <1>13, <2>1, <3>1
    <3> QED BY <1>11, <3>1, <3>2
  <2>2. CASE j = m + 1
    <3>1. i \in 1 .. n /\ i <= m
      BY ONLY <1>2, <1>10, <1>14, <2>2
    <3>2. v[j] = ref /\ v[i] = u[i]
      BY <1>10, <1>13, <2>2, <3>1
    <3> QED BY <1>11, <3>1, <3>2
  <2>3. CASE i # m + 1 /\ j # m + 1
    <3>1. PICK x : x = IF i <= m THEN i ELSE i - 1
      OBVIOUS
    <3>2. PICK y : y = IF j <= m THEN j ELSE j - 1
      OBVIOUS
    <3>3. x \in 1 .. n /\ y \in 1 .. n /\ x < y
      BY ONLY <1>2, <1>10, <1>14, <2>3, <3>1, <3>2
    <3>4. v[i] = u[x] /\ v[j] = u[y]
      BY <1>13, <2>3, <3>1, <3>2
    <3> QED BY <1>1, <3>3, <3>4 DEF Ascending
  <2> QED BY <2>1, <2>2, <2>3
<1>15. Ascending(v)
  BY <1>13, <1>14 DEF Ascending
<1> QED
  BY <1>7, <1>9, <1>12, <1>15

\* phy_ir_sort_refs sorts.
LEMMA SortedAscends ==
  ASSUME IInv, AllShaped, NEW refs \in Seq(Refs)
  PROVE  Ascending(Sorted(refs))
<1> DEFINE n == Len(refs)
           L == {u \in Seq(Refs) : Ascending(u)}
           F == [p \in L \X (1 .. n) |-> Inserted(p[1], refs[p[2]])]
           s == CHOOSE s : s = [i \in 0 .. n |-> IF i = 0 THEN <<>> ELSE Inserted(s[i - 1], refs[i])]
<1>1. n \in Nat /\ \A i \in 1 .. n : refs[i] \in Refs
  OBVIOUS
<1>2. <<>> \in L /\ \A u \in L, i \in 1 .. n : Inserted(u, refs[i]) \in L
  <2>1. \A u \in L, ref \in Refs : Inserted(u, ref) \in L
    <3>1. \A u \in Seq(Refs), ref \in Refs : Inserted(u, ref) \in Seq(Refs)
      BY InsertedIn
    <3>2. \A u \in Seq(Refs), ref \in Refs : Ascending(u) => Ascending(Inserted(u, ref))
      BY InsertedAscends
    <3> QED BY <3>1, <3>2
  <2>2. <<>> \in L
    BY DEF Ascending
  <2> HIDE DEF n, L
  <2> QED BY <1>1, <2>1, <2>2
<1> HIDE DEF n, L
<1>3. F \in [L \X (1 .. n) -> L] /\ \A u \in L, i \in 1 .. n : F[<<u, i>>] = Inserted(u, refs[i])
  BY <1>2
<1> HIDE DEF F
<1>4. PICK t \in [0 .. n -> L] : Iterates(t, <<>>, F, n)
  BY <1>1, <1>2, <1>3, IteratesExist
<1>5. t = [i \in 0 .. n |-> IF i = 0 THEN <<>> ELSE F[<<t[i - 1], i>>]]
  BY <1>4 DEF Iterates
<1>6. \A i \in 0 .. n : i # 0 => i \in 1 .. n /\ t[i - 1] \in L
  BY <1>1
<1>7. t = [i \in 0 .. n |-> IF i = 0 THEN <<>> ELSE Inserted(t[i - 1], refs[i])]
  <2>1. [i \in 0 .. n |-> IF i = 0 THEN <<>> ELSE F[<<t[i - 1], i>>]]
          = [i \in 0 .. n |-> IF i = 0 THEN <<>> ELSE Inserted(t[i - 1], refs[i])]
    BY <1>3, <1>6
  <2> QED BY <1>5, <2>1
<1>8. s = [i \in 0 .. n |-> IF i = 0 THEN <<>> ELSE Inserted(s[i - 1], refs[i])]
  BY ONLY <1>7
<1> HIDE DEF s
<1>9. \A i \in 0 .. n : s[i] \in L
  <2> DEFINE P == {i \in 0 .. n : s[i] \in L}
  <2>1. 0 \in P
    BY <1>1, <1>2, <1>8
  <2>2. ASSUME NEW i \in 1 .. n, i - 1 \in P PROVE i \in P
    <3>1. i \in 0 .. n /\ i # 0
      BY <1>1
    <3>2. s[i] = Inserted(s[i - 1], refs[i])
      BY <1>8, <3>1
    <3> QED BY <1>2, <2>2, <3>1, <3>2
  <2>3. \A i \in 0 .. n : i \in P
    <3> HIDE DEF P
    <3> QED BY <1>1, <2>1, <2>2, Along
  <2> QED BY <2>3
<1>10. s[n] \in L
  BY <1>1, <1>9
<1> QED
  BY <1>10 DEF Sorted, L, n, s

\* So does make_nary, what it stages for a sum or a product.
LEMMA StagedAscends ==
  ASSUME IInv, AllShaped, NEW kind \in Commutative, NEW operands, IsList(operands),
         \A i \in DOMAIN operands : operands[i] \in Refs
  PROVE  Ascending(Staged(kind, operands))
<1>1. \A i \in DOMAIN operands : CanStage(kind, Refs, operands[i])
  <2>1. ASSUME NEW r \in Refs PROVE nodes[r].children \in Seq(Refs)
    <3>1. PICK c : c = nodes[r].children
      OBVIOUS
    <3>2. IsList(c) /\ \A i \in DOMAIN c : c[i] \in Refs
      BY <3>1, RefsAre, ChildrenBelow
    <3>3. c \in Seq({c[i] : i \in DOMAIN c}) /\ DOMAIN c = 1 .. Len(c)
      BY <3>2, ListIs DEF IsList
    <3>4. c \in Seq(Refs)
      BY <3>2, <3>3
    <3> QED BY <3>1, <3>4
  <2> QED BY <2>1 DEF CanStage
<1>2. Flattened(kind, operands) \in Seq(Refs)
  BY <1>1, FlattenedIn
<1> QED
  BY <1>2, SortedAscends DEF Staged

-----------------------------------------------------------------------------
(* What the builders publish *)

\* A node as its builder makes it
Built(n) == Shaped(n) /\ (n.kind \in Commutative => Ascending(n.children))

\* A call publishes one, or none.
Publishes == nodes' = nodes \/ \E n : Built(n) /\ nodes' = Append(nodes, n)

\* intern_node publishes what it is given, if anything.
LEMMA InternPublishes ==
  ASSUME NEW mem, NEW n, Built(n), InternNode(mem, n)
  PROVE  Publishes
<1>1. \A m : Return(m) \/ Fail(m) \/ Unpublished(m, n) => nodes' = nodes
  BY DEF Return, Fail, Graph, Unpublished
<1>2. \A m : PublishNode(m, n) => nodes' = Append(nodes, n)
  BY DEF PublishNode
<1> QED
  BY <1>1, <1>2 DEF InternNode, Publishes

\* A failed call publishes nothing.
LEMMA FailPublishes == \A m : Return(m) \/ Fail(m) => Publishes
  BY DEF Return, Fail, Graph, Publishes

\* make_compound makes a node one above its deepest operand.
LEMMA CompoundPublishes ==
  ASSUME IInv, NEW mem, NEW kind, kind \notin Atoms, NEW head, NEW operands,
         kind \in Commutative => Ascending(operands), MakeCompound(mem, kind, head, operands)
  PROVE  Publishes
<1>1. CASE Fail(mem)
  BY <1>1, FailPublishes
<1>2. CASE ~Fail(mem)
  <2> DEFINE top == IF kind \in HeadedKinds THEN head ELSE Null
  <2>1. OperandsOk(operands)
    BY <1>2 DEF MakeCompound
  <2>2. \A i \in DOMAIN operands : operands[i] \in Refs
    BY <2>1 DEF OperandsOk
  <2>3. PICK d : /\ d = Deepest(operands)
                 /\ \A i \in DOMAIN operands : nodes[operands[i]].depth <= d
                 /\ d = 0 \/ \E i \in DOMAIN operands : nodes[operands[i]].depth = d
    BY <2>2, DeepestIs
  <2>4. \A i \in DOMAIN operands : nodes[operands[i]].depth \in Nat \ {0}
    BY <2>2, DataAssumption DEF IInv, NodesInOrder, NodeOK
  <2> HIDE DEF top
  <2>5. PICK n : n = Compound(kind, top, operands, d + 1)
    OBVIOUS
  <2>6. InternNode(mem, n)
    BY <1>2, <2>3, <2>5 DEF MakeCompound, Compound, top
  <2>7. n.kind = kind /\ n.head = top /\ n.children = operands /\ n.depth = d + 1
    BY <2>5 DEF Compound
  <2>8. Topmost(n)
    <3>1. CASE DOMAIN operands = {}
      <4>1. d = 0
        BY <2>3, <3>1
      <4> QED BY <2>7, <3>1, <4>1 DEF Topmost
    <3>2. CASE DOMAIN operands # {}
      <4>1. PICK i \in DOMAIN operands : nodes[operands[i]].depth = d
        <5>1. PICK j \in DOMAIN operands : TRUE
          BY <3>2
        <5>2. PICK e \in Nat \ {0} : e = nodes[operands[j]].depth /\ e <= d
          BY <2>3, <2>4
        <5>3. d # 0
          BY <5>2
        <5> QED BY <2>3, <5>3
      <4> QED BY <2>7, <3>2, <4>1 DEF Topmost
    <3> QED BY <3>1, <3>2
  <2>9. Built(n)
    <3>1. n = Compound(n.kind, n.head, n.children, n.depth)
      BY <2>5, <2>7
    <3>2. n.kind \notin {"REAL", "SYMBOL", "INDEX", "ERROR"}
      BY <2>7 DEF Atoms
    <3> QED BY <2>7, <2>8, <3>1, <3>2 DEF Built, Shaped
  <2> QED BY <2>6, <2>9, InternPublishes
<1> QED
  BY <1>1, <1>2

\* So do phy_ir_integer, phy_ir_rational, phy_ir_rational_text_n, phy_ir_real,
\* phy_ir_symbol, phy_ir_index and phy_ir_error make atoms.
LEMMA AtomPublishes ==
  ASSUME MakeAtom
  PROVE  Publishes
<1>1. ASSUME NEW q, NEW aux, InternNode(Memory, NumberNode(q, aux)) PROVE Publishes
  <2>1. PICK n : n = NumberNode(q, aux)
    OBVIOUS
  <2>2. n.kind \in Exact
    BY <2>1 DEF NumberNode, Atom, Exact
  <2>3. Built(n)
    BY <2>2 DEF Built, Shaped, Exact, Commutative, Atoms
  <2> QED BY <1>1, <2>1, <2>3, InternPublishes
<1>2. CASE \E k \in workload.integers : MakeInteger(k)
  BY <1>1, <1>2 DEF MakeInteger
<1>3. CASE \E q \in workload.fractions : MakeRational(q[1], q[2])
  BY <1>1, <1>3, FailPublishes DEF MakeRational
<1>4. CASE \E q \in workload.decimals : MakeFromText(q[1], q[2])
  <2>1. PICK q : MakeFromText(q[1], q[2])
    BY <1>4
  <2>2. PICK p : p = Reduced(q[1], q[2])
    OBVIOUS
  <2>3. Fail(Memory) \/ \E aux : InternNode(Memory, NumberNode(p, aux))
    BY <2>1, <2>2 DEF MakeFromText
  <2> QED BY <1>1, <2>3, FailPublishes
<1>5. ASSUME NEW kind \in {"REAL", "SYMBOL", "INDEX", "ERROR"}, NEW n, n.kind = kind, Shaped(n),
             InternNode(Memory, n)
      PROVE  Publishes
  <2>1. Built(n)
    BY <1>5 DEF Built, Commutative
  <2> QED BY <1>5, <2>1, InternPublishes
<1>6. CASE \E value \in {"zero", "minus zero", "one", "not finite"} : MakeReal(value)
  <2>1. PICK value : MakeReal(value)
    BY <1>6
  <2>2. CASE Fail(Memory)
    BY <2>2, FailPublishes
  <2>3. CASE ~Fail(Memory)
    <3>1. PICK number : /\ number = <<number[1], 1>>
                        /\ InternNode(Memory, Atom("REAL", Null, "", Null, number))
      BY <2>1, <2>3 DEF MakeReal, NoNumber
    <3>2. PICK n : n = Atom("REAL", Null, "", Null, number)
      OBVIOUS
    <3>3. n.kind = "REAL" /\ n.number = number
      BY <3>2 DEF Atom
    <3>4. Shaped(n)
      BY <3>1, <3>2, <3>3 DEF Shaped, Atoms
    <3> QED BY <1>5, <3>1, <3>2, <3>3, <3>4
  <2> QED BY <2>2, <2>3
<1>7. CASE \E sym \in SomeSymbol : MakeSymbol(sym)
  <2>1. PICK sym : MakeSymbol(sym)
    BY <1>7
  <2>2. CASE Fail(Memory)
    BY <2>2, FailPublishes
  <2>3. CASE ~Fail(Memory)
    <3>1. PICK n : n = Atom("SYMBOL", sym, "", Null, NoNumber)
      OBVIOUS
    <3>2. n.kind = "SYMBOL" /\ n.head = sym
      BY <3>1 DEF Atom
    <3>3. Shaped(n)
      BY <3>1, <3>2 DEF Shaped, Atoms
    <3> QED BY <1>5, <2>1, <2>3, <3>1, <3>2, <3>3 DEF MakeSymbol
  <2> QED BY <2>2, <2>3
<1>8. CASE \E sym \in SomeSymbol, variance \in {"lower", "upper"}, space \in SomeSymbol :
             MakeIndex(sym, variance, space)
  <2>1. PICK sym \in SomeSymbol, variance \in {"lower", "upper"}, space \in SomeSymbol :
           MakeIndex(sym, variance, space)
    BY <1>8
  <2>2. CASE Fail(Memory)
    BY <2>2, FailPublishes
  <2>3. CASE ~Fail(Memory)
    <3>1. PICK n : n = Atom("INDEX", sym, variance, space, NoNumber)
      OBVIOUS
    <3>2. n.kind = "INDEX" /\ n.head = sym /\ n.aux = variance /\ n.space = space
      BY <3>1 DEF Atom
    <3>3. Shaped(n)
      BY <3>1, <3>2 DEF Shaped, Atoms
    <3> QED BY <1>5, <2>1, <2>3, <3>1, <3>2, <3>3 DEF MakeIndex
  <2> QED BY <2>2, <2>3
<1>9. CASE \E code \in {"PHY_OK", "PHY_ERR_DOMAIN", "PHY_ERR_TYPE"} : MakeError(code)
  <2>1. PICK code \in {"PHY_OK", "PHY_ERR_DOMAIN", "PHY_ERR_TYPE"} : MakeError(code)
    BY <1>9
  <2>2. CASE Fail(Memory)
    BY <2>2, FailPublishes
  <2>3. CASE ~Fail(Memory)
    <3>1. PICK n : n = Atom("ERROR", Null, code, Null, NoNumber)
      OBVIOUS
    <3>2. n.kind = "ERROR" /\ n.aux = code /\ code # "PHY_OK"
      BY <2>1, <2>3, <3>1 DEF Atom, MakeError
    <3>3. Shaped(n)
      BY <3>1, <3>2 DEF Shaped, Atoms
    <3> QED BY <1>5, <2>1, <2>3, <3>1, <3>2, <3>3 DEF MakeError
  <2> QED BY <2>2, <2>3
<1> QED
  BY <1>2, <1>3, <1>4, <1>6, <1>7, <1>8, <1>9 DEF MakeAtom

\* And make_nary, which alone makes sums and products, sorts their operands.
LEMMA TreePublishes ==
  ASSUME IInv, AllShaped, MakeTree
  PROVE  Publishes
<1>1. \A operands \in Operands : IsList(operands)
  <2>1. ASSUME NEW n \in 0 .. MaxOperands, NEW s \in [1 .. n -> Refs \cup {Null}] PROVE IsList(s)
    <3>1. CASE n \in Nat
      BY <3>1 DEF IsList
    <3>2. CASE n \notin Nat
      BY <3>2
    <3> QED BY <3>1, <3>2
  <2> QED BY <2>1 DEF Operands
<1>2. CASE \E kind \in workload.kinds \cap Associative, operands \in Operands : MakeNary(kind, operands)
  <2>1. PICK kind \in Associative, operands \in Operands : MakeNary(kind, operands)
    BY <1>2
  <2>2. kind \notin Atoms
    BY DEF Associative, Atoms, Exact
  <2>3. CASE \E m : Return(m) \/ Fail(m)
    BY <2>3, FailPublishes
  <2>4. CASE ~ \E m : Return(m) \/ Fail(m)
    <3>1. PICK staged : staged = Staged(kind, operands)
      OBVIOUS
    <3>2. \A i \in DOMAIN operands : operands[i] \in Refs
      BY <2>1, <2>4 DEF MakeNary
    <3>3. PICK s : MakeCompound(s, kind, Null, staged)
      BY <2>1, <2>4, <3>1 DEF MakeNary
    <3>4. kind \in Commutative => Ascending(staged)
      BY <1>1, <3>1, <3>2, StagedAscends
    <3> QED BY <2>2, <3>3, <3>4, CompoundPublishes
  <2> QED BY <2>3, <2>4
<1>3. CASE \E kind \in workload.kinds \cap {"POW", "EQUATION"}, first \in SomeRef, second \in SomeRef :
             MakePair(kind, first, second)
  <2>1. PICK kind \in {"POW", "EQUATION"} : \E first, second : MakePair(kind, first, second)
    BY <1>3
  <2>2. kind \notin Atoms /\ kind \notin Commutative
    BY DEF Atoms, Exact, Commutative
  <2>3. PICK first, second : MakePair(kind, first, second)
    BY <2>1
  <2> QED BY <2>2, <2>3, CompoundPublishes DEF MakePair
<1>4. CASE \E kind \in workload.kinds \cap HeadedKinds, sym \in SomeSymbol, operands \in Operands :
             MakeHeaded(kind, sym, operands)
  <2>1. PICK kind \in HeadedKinds : \E sym, operands : MakeHeaded(kind, sym, operands)
    BY <1>4
  <2>2. kind \notin Atoms /\ kind \notin Commutative
    BY DEF HeadedKinds, Atoms, Exact, Commutative
  <2>3. PICK sym, operands : MakeHeaded(kind, sym, operands)
    BY <2>1
  <2> QED BY <2>2, <2>3, CompoundPublishes, FailPublishes DEF MakeHeaded
<1>5. CASE \E expr \in SomeRef, variables \in Operands : MakeDerivative(expr, variables)
  <2>1. PICK expr, variables : MakeDerivative(expr, variables)
    BY <1>5
  <2>2. "DERIVATIVE" \notin Atoms /\ "DERIVATIVE" \notin Commutative
    BY DEF Atoms, Exact, Commutative
  <2>3. CASE \E m : Fail(m)
    BY <2>3, FailPublishes
  <2>4. CASE ~ \E m : Fail(m)
    <3>1. PICK s : MakeCompound(s, "DERIVATIVE", Null, <<expr>> \o variables)
      BY <2>1, <2>4 DEF MakeDerivative
    <3> QED BY <2>2, <3>1, CompoundPublishes
  <2> QED BY <2>3, <2>4
<1> QED
  BY <1>2, <1>3, <1>4, <1>5 DEF MakeTree

\* Declaring publishes no node.
LEMMA DeclarePublishes ==
  ASSUME Declare
  PROVE  nodes' = nodes
<1>1. \A m : Return(m) \/ Fail(m) => nodes' = nodes
  BY DEF Return, Fail, Graph
<1>2. ASSUME NEW name, Intern(name) PROVE nodes' = nodes
  BY <1>1, <1>2 DEF Intern, PublishSymbol
<1>3. ASSUME NEW sym, NEW flags, Assume(sym, flags) PROVE nodes' = nodes
  BY <1>1, <1>3 DEF Assume
<1>4. ASSUME NEW sym, NEW a, NEW b, NEW how, DeclareSymmetry(sym, a, b, how) PROVE nodes' = nodes
  BY <1>1, <1>4 DEF DeclareSymmetry
<1> QED
  BY <1>2, <1>3, <1>4 DEF Declare, ClearError

\* Whatever is called.
LEMMA NextPublishes ==
  ASSUME IInv, AllShaped, Next
  PROVE  Publishes
  BY AtomPublishes, TreePublishes, DeclarePublishes DEF Next, Publishes
-----------------------------------------------------------------------------
(* What is there stays what it is *)

\* Nodes are added, and symbols keep their names.
Extends ==
    /\ Len(nodes) <= Len(nodes') /\ \A r \in Refs : nodes'[r] = nodes[r]
    /\ Len(symbols) <= Len(symbols') /\ \A s \in SymbolIds : symbols'[s].name = symbols[s].name

\* Every step extends.
LEMMA StepsExtend ==
  ASSUME IInv, Steps
  PROVE  Extends
<1>1. Len(nodes) \in Nat /\ Len(symbols) \in Nat /\ IsList(nodes) /\ IsList(symbols)
  BY CountIs DEF IInv, NodesInOrder, SymbolsInOrder
<1>2. Len(nodes) \in Nat /\ Len(symbols) \in Nat
  BY <1>1
<1>3. CASE IdleStep
  BY <1>1, <1>3 DEF IdleStep, Graph, Extends
<1>4. CASE NodeStep
  <2>1. symbols' = symbols /\ \E n : nodes' = Append(nodes, n)
    BY <1>4 DEF NodeStep, PublishNode
  <2>2. Len(nodes') = Len(nodes) + 1 /\ \A r \in Refs : nodes'[r] = nodes[r]
    BY <1>1, <2>1, Appended DEF Refs
  <2>3. Len(nodes) <= Len(nodes')
    BY <1>2, <2>2
  <2>4. Len(symbols) <= Len(symbols') /\ \A s \in SymbolIds : symbols'[s].name = symbols[s].name
    BY <1>2, <2>1
  <2> QED BY <2>2, <2>3, <2>4 DEF Extends
<1>5. CASE SymbolStep
  <2>1. nodes' = nodes /\ \E x : symbols' = Append(symbols, x)
    BY <1>5 DEF SymbolStep, PublishSymbol
  <2>2. Len(symbols') = Len(symbols) + 1 /\ \A s \in SymbolIds : symbols'[s] = symbols[s]
    BY <1>1, <2>1, Appended DEF SymbolIds
  <2>3. Len(symbols) <= Len(symbols') /\ \A s \in SymbolIds : symbols'[s].name = symbols[s].name
    BY <1>2, <2>2
  <2>4. Len(nodes) <= Len(nodes') /\ \A r \in Refs : nodes'[r] = nodes[r]
    BY <1>2, <2>1
  <2> QED BY <2>3, <2>4 DEF Extends
<1>6. CASE DeclareStep
  <2>1. \E sym \in SymbolIds : \E x, k : Redeclared(sym, x, k)
    BY <1>6 DEF DeclareStep
  <2> PICK sym \in SymbolIds : \E x, k : Redeclared(sym, x, k)
    BY <2>1
  <2> PICK x, k : Redeclared(sym, x, k)
    OBVIOUS
  <2>2. x.name = symbols[sym].name /\ symbols' = [symbols EXCEPT ![sym] = x]
    BY DEF Redeclared
  <2>3. nodes' = nodes
    BY <1>6 DEF DeclareStep
  <2>4. \A s \in SymbolIds : symbols'[s].name = symbols[s].name
    <3>1. DOMAIN symbols = 1 .. Len(symbols)
      BY <1>1, ListIs
    <3> QED BY <2>2, <3>1 DEF SymbolIds
  <2>5. Len(symbols') = Len(symbols)
    <3>1. DOMAIN symbols = 1 .. Len(symbols)
      BY <1>1, ListIs
    <3>2. symbols \in Seq({symbols[i] : i \in DOMAIN symbols})
      BY <1>1 DEF IsList
    <3>3. PICK S : S = {symbols[i] : i \in DOMAIN symbols} \cup {x}
      OBVIOUS
    <3>4. symbols \in Seq(S) /\ x \in S
      BY <3>2, <3>3
    <3> QED BY <2>2, <3>4
  <2> QED BY <1>1, <2>3, <2>4, <2>5 DEF Extends
<1> QED
  BY <1>3, <1>4, <1>5, <1>6 DEF Steps

\* So does one that does nothing.
LEMMA NextExtends ==
  ASSUME IInv, [Next]_vars
  PROVE  Extends
<1>1. CASE UNCHANGED vars
  <2>1. Len(nodes) \in Nat /\ Len(symbols) \in Nat
    BY CountIs DEF IInv
  <2> QED BY <1>1, <2>1 DEF vars, Extends
<1>2. CASE Next
  BY <1>2, StepsOfNext, StepsExtend
<1> QED
  BY <1>1, <1>2

\* Names stay.
LEMMA NamesStay ==
  ASSUME IInv, IInv', Extends
  PROVE  \A s \in SomeSymbol : s \in SomeSymbol' /\ NameOf(s)' = NameOf(s)
<1>1. Len(symbols) \in Nat /\ Len(symbols') \in Nat
  <2>1. (SymbolsInOrder => Len(symbols) \in Nat)'
    BY CountIs, PTL
  <2> QED BY <2>1, CountIs DEF IInv
<1> QED
  BY <1>1 DEF Extends, SomeSymbol, SymbolIds, NameOf, Null

\* So does what a verdict rests on.
LEMMA VerdictStays ==
  ASSUME \A s \in SomeSymbol : NameOf(s)' = NameOf(s),
         NEW a, NEW b, {a.head, a.space, b.head, b.space} \subseteq SomeSymbol, NEW results
  PROVE  Verdict(a, b, results)' = Verdict(a, b, results)
<1>1. \A s, t \in SomeSymbol : CompareNames(s, t)' = CompareNames(s, t)
  BY DEF CompareNames
<1>2. CompareIndices(a, b)' = CompareIndices(a, b)
  BY <1>1 DEF CompareIndices
<1>3. CompareNames(a.head, b.head)' = CompareNames(a.head, b.head)
  BY <1>1
<1> QED
  BY <1>2, <1>3 DEF Verdict
AllTold == \A r, s \in Refs : Compare(r, s) = Told(Order, r, s)

\* What phy_ir_compare says of any two refs
LEMMA CompareTold == IInv => AllTold
  BY CompareIs DEF AllTold

\* How many nodes there are
LEMMA NodeCount == IInv => Len(nodes) \in Nat
  BY RefsAre

\* The order compares refs as before, as far as ref k.
SameUpTo(k) == \A r, s \in 1 .. k : Compare(r, s)' = Compare(r, s)

\* One ref more
LEMMA SameOn ==
  ASSUME IInv, IInv', Extends, NEW k \in Nat, k < Len(nodes), SameUpTo(k)
  PROVE  SameUpTo(k + 1)
<1> SUFFICES ASSUME NEW r \in 1 .. k + 1, NEW s \in 1 .. k + 1 PROVE Compare(r, s)' = Compare(r, s)
  BY DEF SameUpTo
<1>1. r \in Refs /\ s \in Refs
  BY RefsAre DEF Refs
<1>2. r \in Refs' /\ s \in Refs'
  <2>1. (IInv => Len(nodes) \in Nat)'
    BY NodeCount, PTL
  <2>2. Len(nodes) \in Nat
    BY RefsAre
  <2> QED BY <1>1, <2>1, <2>2 DEF Refs, Extends
<1>3. Compare(r, s)' = Told(Order, r, s)'
  <2>1. (IInv => AllTold)'
    BY CompareTold, PTL
  <2> QED BY <1>2, <2>1 DEF AllTold
<1>4. Compare(r, s) = Told(Order, r, s)
  BY <1>1, CompareIs
<1>5. PICK a, b : a = nodes[r] /\ b = nodes[s] /\ a = nodes'[r] /\ b = nodes'[s]
  BY <1>1 DEF Extends
<1>6. /\ IsList(a.children) /\ \A i \in DOMAIN a.children : a.children[i] \in 1 .. k
      /\ IsList(b.children) /\ \A i \in DOMAIN b.children : b.children[i] \in 1 .. k
  <2>1. /\ IsList(a.children) /\ \A i \in DOMAIN a.children : a.children[i] \in 1 .. r - 1
        /\ IsList(b.children) /\ \A i \in DOMAIN b.children : b.children[i] \in 1 .. s - 1
    BY <1>1, <1>5, ChildrenBelow
  <2>2. \A c : (c \in 1 .. r - 1 \/ c \in 1 .. s - 1) => c \in 1 .. k
    OBVIOUS
  <2> QED BY <2>1, <2>2
<1>7. {a.head, a.space, b.head, b.space} \subseteq SomeSymbol
  BY <1>1, <1>5 DEF IInv, NodesInOrder, NodeOK
<1>8. PICK before, after : before = ResultsOf(Order, a, b) /\ after = ResultsOf(Order', a, b)
  OBVIOUS
<1>9. Len(a.children) = Len(b.children) => before = after
  <2>1. ASSUME Len(a.children) = Len(b.children), NEW i \in DOMAIN a.children
        PROVE  Order[<<a.children[i], b.children[i]>>] = Order'[<<a.children[i], b.children[i]>>]
    <3>1. i \in DOMAIN b.children
      BY <1>6, <2>1, ListIs
    <3>2. PICK c \in 1 .. k, d \in 1 .. k : c = a.children[i] /\ d = b.children[i]
      BY <1>6, <2>1, <3>1
    <3>3. Compare(c, d)' = Compare(c, d)
      BY DEF SameUpTo
    <3> QED BY <3>2, <3>3 DEF Compare
  <2> QED BY <1>8, <2>1 DEF ResultsOf
<1>10. Verdict(a, b, after)' = Verdict(a, b, after)
  <2>1. \A x \in SomeSymbol : NameOf(x)' = NameOf(x)
    BY NamesStay
  <2> QED BY <1>7, <2>1, VerdictStays
<1>11. Verdict(a, b, before) = Verdict(a, b, after)
  BY <1>9 DEF Verdict
<1>12. Told(Order, r, s) = IF r = s THEN 0 ELSE Verdict(a, b, before)
  BY <1>5, <1>8 DEF Told
<1>13. Told(Order, r, s)' = IF r = s THEN 0 ELSE Verdict(a, b, after)'
  BY <1>5, <1>8 DEF Told
<1> QED
  BY <1>3, <1>4, <1>10, <1>11, <1>12, <1>13

\* A step leaves the order of the nodes there are.
LEMMA CompareStays ==
  ASSUME IInv, IInv', Extends
  PROVE  \A r, s \in Refs : Compare(r, s)' = Compare(r, s)
<1>1. PICK n \in Nat : n = Len(nodes)
  BY RefsAre
<1> DEFINE P == {k \in 0 .. n : SameUpTo(k)}
<1>2. 0 \in P
  <2>1. SameUpTo(0)
    BY DEF SameUpTo
  <2> QED BY <2>1
<1>3. ASSUME NEW k \in 1 .. n, k - 1 \in P PROVE k \in P
  <2>1. PICK j \in Nat : j = k - 1 /\ j < n /\ SameUpTo(j) /\ j + 1 = k
    BY <1>3
  <2>2. SameUpTo(j + 1)
    BY <1>1, <2>1, SameOn
  <2> QED BY <2>1, <2>2
<1>4. \A k \in 0 .. n : k \in P
  <2> HIDE DEF P
  <2> QED BY <1>2, <1>3, Along
<1>5. SameUpTo(n)
  BY <1>4
<1> QED
  BY <1>1, <1>5 DEF SameUpTo, Refs
-----------------------------------------------------------------------------
(* The nodes stay as they were built *)

\* Every node is as its builder makes it, by the order there is now.
AllBuilt == \A r \in Refs : Built(nodes[r])

\* What was built over nodes there are is so still.
LEMMA BuiltStays ==
  ASSUME IInv, IInv', Extends, NEW n, \A i \in DOMAIN n.children : n.children[i] \in Refs, Built(n)
  PROVE  Built(n)'
<1>1. Topmost(n) => Topmost(n)'
  <2>1. \A i \in DOMAIN n.children : nodes'[n.children[i]] = nodes[n.children[i]]
    BY DEF Extends
  <2> QED BY <2>1 DEF Topmost
<1>2. Shaped(n)'
  BY <1>1 DEF Built, Shaped
<1>3. Ascending(n.children) => Ascending(n.children)'
  <2>1. \A i, j \in DOMAIN n.children : Compare(n.children[i], n.children[j])' = Compare(n.children[i], n.children[j])
    BY CompareStays
  <2> QED BY <2>1 DEF Ascending
<1> QED
  BY <1>2, <1>3 DEF Built

\* The inductive step
LEMMA NextBuilds ==
  ASSUME IInv, IInv', AllBuilt, [Next]_vars
  PROVE  AllBuilt'
<1>1. AllShaped
  BY DEF AllBuilt, Built, AllShaped
<1>2. Publishes
  BY <1>1, NextPublishes DEF vars, Publishes
<1>3. Extends
  BY NextExtends
<1>4. ASSUME NEW r \in Refs PROVE nodes'[r] = nodes[r] /\ Built(nodes[r])'
  <2>1. PICK n : n = nodes[r] /\ n = nodes'[r]
    BY <1>3 DEF Extends
  <2>2. \A i \in DOMAIN n.children : n.children[i] \in Refs
    <3>1. \A i \in DOMAIN n.children : n.children[i] \in 1 .. r - 1
      BY <2>1, ChildrenBelow
    <3>2. \A c \in 1 .. r - 1 : c \in Refs
      BY RefsAre DEF Refs
    <3> QED BY <3>1, <3>2
  <2>3. Built(n)
    BY <2>1 DEF AllBuilt
  <2>4. Built(n)'
    BY <1>3, <2>2, <2>3, BuiltStays
  <2>5. Built(nodes[r])' <=> Built(n)'
    BY <2>1 DEF Built, Shaped, Topmost
  <2> QED BY <2>1, <2>4, <2>5
<1>5. CASE nodes' = nodes
  <2>1. Refs' = Refs
    BY <1>5 DEF Refs
  <2> QED BY <1>4, <2>1 DEF AllBuilt
<1>6. CASE \E n : Built(n) /\ nodes' = Append(nodes, n)
  <2>1. PICK n : Built(n) /\ nodes' = Append(nodes, n)
    BY <1>6
  <2>2. PICK k \in Nat : k = Len(nodes)
    BY RefsAre
  <2>3. Len(nodes') = k + 1 /\ nodes'[k + 1] = n
    BY <2>1, <2>2, Appended DEF IInv, NodesInOrder
  <2> HIDE <2>1
  <2>4. Refs' = 1 .. k + 1 /\ Refs = 1 .. k
    BY <2>2, <2>3 DEF Refs
  <2>5. Over(n, k)'
    <3>1. Over(nodes[k + 1], (k + 1) - 1)'
      BY <2>4 DEF IInv, NodesInOrder
    <3>2. (k + 1) - 1 = k
      OBVIOUS
    <3> QED BY <2>3, <3>1, <3>2 DEF Over
  <2>6. \A i \in DOMAIN n.children : n.children[i] \in Refs
    BY <2>4, <2>5 DEF Over
  <2>7. Built(n)
    BY <2>1
  <2>8. Built(n)'
    BY <1>3, <2>6, <2>7, BuiltStays
  <2>9. Built(nodes[k + 1])'
    BY <2>3, <2>8 DEF Built, Shaped, Topmost
  <2>10. \A r \in 1 .. k + 1 : r \in 1 .. k \/ r = k + 1
    OBVIOUS
  <2>11. ASSUME NEW r \in Refs' PROVE Built(nodes[r])'
    <3>1. CASE r \in Refs
      BY <1>4, <3>1
    <3>2. CASE r = k + 1
      BY <2>9, <3>2
    <3> QED BY <2>4, <2>10, <3>1, <3>2
  <2> QED BY <2>11 DEF AllBuilt
<1> QED
  BY <1>2, <1>5, <1>6 DEF Publishes

\* The nodes of a context are built, and stay so.
THEOREM NodesStayBuilt == Spec => [](IInv /\ AllBuilt)
<1>1. Init => AllBuilt
  BY DEF Init, AllBuilt, Refs
<1>2. IInv /\ AllBuilt /\ [Next]_vars => AllBuilt'
  BY NextInOrder, NextBuilds
<1> QED
  BY <1>1, <1>2, InitInOrder, NextInOrder, PTL DEF Spec

-----------------------------------------------------------------------------
(* What that says *)

\* Symbols are compared by their names.
LEMMA SymbolsByName ==
  ASSUME IInv, NEW c \in Refs, NEW d \in Refs, KindOf(c) = "SYMBOL", KindOf(d) = "SYMBOL",
         Compare(c, d) <= 0
  PROVE  NameOf(nodes[c].head) <= NameOf(nodes[d].head)
<1>1. nodes[c].head \in SomeSymbol /\ nodes[d].head \in SomeSymbol
  BY DEF IInv, NodesInOrder, NodeOK
<1>2. nodes[c].kind = "SYMBOL" /\ nodes[d].kind = "SYMBOL"
  BY DEF KindOf
<1>3. CASE c = d
  <2>1. NameOf(nodes[c].head) \in Nat
    BY <1>1, NamesAre
  <2> QED BY <1>3, <2>1
<1>4. CASE c # d
  <2>1. Compare(c, d) = Verdict(nodes[c], nodes[d], ResultsOf(Order, nodes[c], nodes[d]))
    BY <1>4, CompareIs DEF Told
  <2>2. Compare(c, d) = CompareNames(nodes[c].head, nodes[d].head)
    BY <1>2, <2>1 DEF Verdict, Exact
  <2> QED BY <1>1, <2>2, NamesOrdered
<1> QED
  BY <1>3, <1>4

\* phy_ir_compare tells any two nodes apart, one way round, and has no cycle:
\* what OrderIsTotal says of a small context holds of any.
THEOREM ComparisonStaysTotal == Spec => []OrderIsTotal
<1>1. IInv /\ AllBuilt => OrderIsTotal
  <2> SUFFICES ASSUME IInv, AllBuilt PROVE OrderIsTotal
    OBVIOUS
  <2>1. AllShaped
    BY DEF AllBuilt, Built, AllShaped
  <2>2. ASSUME NEW r \in Refs, NEW s \in Refs, r # s
        PROVE  /\ Compare(r, s) \in {-1, 1} /\ Compare(s, r) = -Compare(r, s)
               /\ \A t \in Refs : Compare(r, s) < 0 /\ Compare(s, t) < 0 => Compare(r, t) < 0
    <3>1. /\ Tells(Compare(r, s)) /\ Tells(Compare(s, r)) /\ Compare(r, s) + Compare(s, r) = 0
          /\ Compare(r, s) # 0
      BY <2>1, <2>2, CompareOrders
    <3>2. \A x, y : Tells(x) /\ Tells(y) /\ x + y = 0 /\ x # 0 => x \in {-1, 1} /\ y = -x
      BY DEF Tells
    <3>3. ASSUME NEW t \in Refs, Compare(r, s) < 0, Compare(s, t) < 0 PROVE Compare(r, t) < 0
      <4>1. Chain(Compare(r, s), Compare(s, t), Compare(r, t)) /\ Tells(Compare(s, t))
        BY <2>1, CompareOrders
      <4>2. \A x, y, z : Chain(x, y, z) /\ Tells(x) /\ Tells(y) /\ x < 0 /\ y < 0 => z < 0
        BY DEF Chain, Tells
      <4> QED BY <3>1, <3>3, <4>1, <4>2
    <3> QED BY <3>1, <3>2, <3>3
  <2> QED BY <2>2 DEF OrderIsTotal
<1> QED
  BY <1>1, NodesStayBuilt, PTL

\* compare_exact reads the signs before it asks which number is promoted: a
\* negative number precedes one that is not.
THEOREM SignsStayInOrder == Spec => []SignsInOrder
<1>1. IInv => SignsInOrder
  <2> SUFFICES ASSUME IInv, NEW r \in Refs, NEW s \in Refs,
                      nodes[r].kind \in Exact, nodes[s].kind \in Exact,
                      nodes[r].number[1] < 0, nodes[s].number[1] >= 0
               PROVE  Compare(r, s) < 0
    BY DEF SignsInOrder
  <2>1. PICK a, b : a = nodes[r] /\ b = nodes[s] /\ NodeOK(a) /\ NodeOK(b)
    BY DEF IInv, NodesInOrder
  <2>2. IsFraction(a) /\ IsFraction(b)
    BY <2>1, ExactIs
  <2>3. r # s
    BY <2>1, <2>2 DEF IsFraction
  <2>4. Rank[a.kind] = Rank[b.kind]
    BY <2>1 DEF Exact, Rank
  <2>5. Compare(r, s) = CompareNumbers(a, b)
    BY <2>1, <2>3, <2>4, CompareIs DEF Told, Verdict
  <2>6. Compared(Zone(a), Zone(b)) = -1
    <3>1. Zone(a) \in {0, 1} /\ Zone(b) \in {2, 3}
      BY <2>1, <2>2 DEF Zone, IsFraction
    <3> QED BY <3>1 DEF Compared
  <2> QED BY <2>2, <2>5, <2>6, NumbersAre DEF First
<1> QED
  BY <1>1, InternInductive, PTL

\* "Flattens, drops nothing, sorts the operands" (make_nary): a node's children
\* were there before it, no child has an associative node's own kind, and those
\* of a sum or a product are sorted, symbols by name, however late a name that
\* comes before was interned.
THEOREM OperandsStayCanonical == Spec => []OperandsCanonical
<1>1. IInv /\ AllBuilt => OperandsCanonical
  <2> SUFFICES ASSUME IInv, AllBuilt, NEW r \in Refs
               PROVE  LET n == nodes[r] IN
                      /\ \A i \in DOMAIN n.children : n.children[i] \in 1 .. r - 1
                      /\ \A i \in DOMAIN n.children : ~Absorbs(n.kind, n.children[i])
                      /\ n.kind \in Commutative =>
                           \A i, j \in DOMAIN n.children :
                             i < j => LET c == n.children[i]
                                          d == n.children[j]
                                      IN  /\ Compare(c, d) <= 0
                                          /\ KindOf(c) = "SYMBOL" /\ KindOf(d) = "SYMBOL"
                                             => NameOf(nodes[c].head) <= NameOf(nodes[d].head)
    BY DEF OperandsCanonical
  <2>1. PICK n : n = nodes[r]
    OBVIOUS
  <2>2. \A i \in DOMAIN n.children : n.children[i] \in 1 .. r - 1 /\ ~Absorbs(n.kind, n.children[i])
    BY <2>1 DEF IInv, NodesInOrder, Over
  <2>3. ASSUME n.kind \in Commutative, NEW i \in DOMAIN n.children, NEW j \in DOMAIN n.children, i < j
        PROVE  /\ Compare(n.children[i], n.children[j]) <= 0
               /\ KindOf(n.children[i]) = "SYMBOL" /\ KindOf(n.children[j]) = "SYMBOL"
                  => NameOf(nodes[n.children[i]].head) <= NameOf(nodes[n.children[j]].head)
    <3>1. Compare(n.children[i], n.children[j]) <= 0
      BY <2>1, <2>3 DEF AllBuilt, Built, Ascending
    <3>2. PICK c \in Refs, d \in Refs : c = n.children[i] /\ d = n.children[j]
      <4>1. \A c \in 1 .. r - 1 : c \in Refs
        BY RefsAre DEF Refs
      <4> QED BY <2>2, <4>1
    <3> QED BY <3>1, <3>2, SymbolsByName
  <2> QED BY <2>1, <2>2, <2>3
<1> QED
  BY <1>1, NodesStayBuilt, PTL

\* "Equal structure means equal reference" (ir.h), for every workload and every
\* limit: one node per structure and per exact value, operands sorted by an
\* order that is total and knows the signs, and declarations that agree.
THEOREM NodesStayCanonical == Spec => []NodesAreCanonical
<1>1. /\ OneNodePerStructure /\ OperandsCanonical /\ OrderIsTotal /\ SignsInOrder /\ DeclarationsConsistent
      => NodesAreCanonical
  BY DEF NodesAreCanonical
<1> QED
  BY <1>1, EveryStructureHasOneNode, OperandsStayCanonical, ComparisonStaysTotal, SignsStayInOrder,
     DeclarationsAgree, PTL
=============================================================================
