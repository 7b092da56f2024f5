-------------------------- MODULE EvalHeadsProofs --------------------------
(***************************************************************************)
(* That nothing a value holds is freed before it, and that what a value    *)
(* was built from belongs together, whatever heads a session applies and   *)
(* however many.                                                           *)
(*                                                                         *)
(* The invariant says why.  A set of entries with all that they record is  *)
(* closed; a thing is kept by a set if its entry is there, or its owner's, *)
(* or if it is in the pool.  Covered: what a closed set keeps, it keeps    *)
(* with all that is held.  A head's result may hold an operand, what an    *)
(* operand holds, and what is in the pool: a closed set with the result    *)
(* has the operands.  A sweep leaves a closed set, so it takes nothing     *)
(* that is held.  OneHome: a thing that lives on a chart has a closed set  *)
(* in which nothing lives on another; a result's is made of its operands'. *)
(***************************************************************************)
EXTENDS EvalHeads, TLAPS, FiniteSetTheorems, NaturalsInduction, WellFoundedInduction

-----------------------------------------------------------------------------
(* The inductive invariant *)

\* What the entries of s record.
DepsOf(s) == UNION {things[t].deps : t \in s}

\* Entries with all that they record.
Closed(S) == S \subseteq listed /\ DepsOf(S) \subseteq S

\* The entry that keeps a thing, and whether a set of entries keeps it.
Anchor(t) == IF things[t].owner = Nothing THEN t ELSE things[t].owner
KeptBy(t, S) == Pooled(t) \/ Anchor(t) \in S

\* A thing that every closed set keeps that has the entries of O.
Backed(h, O) ==
    /\ h \in DOMAIN things
    /\ \A S \in SUBSET listed : Closed(S) /\ O \subseteq S => KeptBy(h, S)

IsThing(x) == x = [of |-> x.of, all |-> x.all, deps |-> x.deps, owner |-> x.owner,
                   degree |-> x.degree, links |-> x.links]

\* The table and the heap: names and results have entries, only entries record
\* anything, and a part's owner has an entry, that a part with one records.
PartOf(t, o) == /\ ~Pooled(t) /\ ~Pooled(o) /\ o \in listed /\ things[o].owner = Nothing
                /\ t \in listed => o \in things[t].deps
HeapIsKept ==
    /\ IsFiniteSet(DOMAIN things) /\ listed \subseteq DOMAIN things
    /\ named \subseteq listed /\ results \subseteq listed
    /\ \A t \in DOMAIN things :
         /\ IsThing(things[t])
         /\ things[t].deps \subseteq listed
         /\ t \notin listed => things[t].deps = {}
         /\ ~Pooled(t) => Anchor(t) \in listed
         /\ things[t].owner # Nothing => PartOf(t, things[t].owner)

Covered ==
    \A S \in SUBSET listed : Closed(S) =>
        \A t \in DOMAIN things : KeptBy(t, S) =>
            \A h \in Holds(t) : h \in DOMAIN things /\ KeptBy(h, S)

\* What a thing of each kind holds.
Roles(kind) ==
    CASE kind \in {"head", "basis"} -> {"space"}
      [] kind = "componentTensor" -> {"head", "basis"}
      [] kind \in {"map", "transition"} -> {"source", "target"}
      [] kind \in {"manifold", "tensor"} -> {"chart"}
      [] kind = "form" -> {"manifold", "chart"}
      [] kind = "lieForm" -> {"algebra", "manifold", "chart"}
      [] kind = "curvature" -> {"metric", "chart"}
      [] kind \in {"group", "element"} -> {"algebra"}
      [] kind \in {"grView", "qftView"} -> {"space", "head", "basis", "tensor"}
      [] OTHER -> {}

Fits(kind, x) ==
    /\ DOMAIN x.of = Roles(kind)
    /\ kind \notin {"monomial", "expression", "atlas"} => x.all = {}
    /\ kind \in {"monomial", "expression"} => \A h \in x.all : Kind(h) = "head"
    /\ kind = "atlas" => /\ \A a, b \in x.all : Of(a).space = Of(b).space
                         /\ x.links \subseteq x.all \X x.all
    /\ kind = "componentTensor" => Of(x.of.basis).space = Of(x.of.head).space
    /\ kind = "transition" => Of(x.of.source).space = Of(x.of.target).space
    /\ kind \in {"form", "lieForm"} => /\ Kind(x.of.manifold) = "manifold"
                                       /\ x.of.chart = Of(x.of.manifold).chart

\* A group owns its algebra, a view what it did not put in the pool.
Owns(t) ==
    /\ Kind(t) = "group" => /\ Kind(Of(t).algebra) = "algebra"
                            /\ things[Of(t).algebra].owner = t
    /\ Kind(t) \in {"grView", "qftView"} =>
         \A p \in Range(Of(t)) : Kind(p) \in ViewKinds /\ (Pooled(p) \/ things[p].owner = t)

\* A part lives where its owner lives.
IsPart(t) ==
    LET o == things[t].owner IN
    o # Nothing =>
        \/ Kind(t) = "algebra" /\ Kind(o) = "group" /\ Of(o).algebra = t
        \/ Kind(t) = "form" /\ Kind(o) = "lieForm" /\ Of(t).chart = Of(o).chart
        \/ Kind(t) = "tensor" /\ Kind(o) = "curvature" /\ Of(t).chart = Of(o).chart
        \/ Kind(t) \in {"basis", "componentTensor"}

Shaped == \A t \in DOMAIN things : Fits(Kind(t), things[t]) /\ Owns(t) /\ IsPart(t)

\* The kinds whose history has one chart, or one algebra, or none.
Homes == {"chart", "algebra"}
HomeKinds(home) ==
    IF home = "chart"
    THEN {"chart", "manifold", "form", "lieForm", "tensor", "curvature", "algebra", "group"}
    ELSE {"algebra", "group", "element", "lieForm", "chart", "manifold"}

\* Nothing of S lives elsewhere than t.
SameHome(S, t, home) ==
    \A u \in S : LivesOn(u, home) => LivesOn(t, home) /\ Home(u, home) = Home(t, home)
OneHome ==
    \A t \in listed, home \in Homes : Kind(t) \in HomeKinds(home) =>
        \E S \in SUBSET listed : Closed(S) /\ t \in S /\ SameHome(S, t, home)

HInv == HeapIsKept /\ Covered /\ Shaped /\ OneHome

-----------------------------------------------------------------------------
(* What the sweep marks *)

Less == {p \in Nat \X Nat : p[1] < p[2]}

\* There is no endless descent among numbers.
LEMMA LessIsWellFounded == IsWellFoundedOn(Less, Nat)
  BY NatLessThanWellFounded DEF OpToRel, Less

\* A non-empty set of numbers has a least one.
LEMMA Least ==
  ASSUME NEW T, T \subseteq Nat, T # {}
  PROVE  \E x \in T : \A y \in T : x <= y
<1>1. \E x \in T : \A y \in T : <<y, x>> \notin Less
  BY LessIsWellFounded, WFMin
<1>2. \A x, y \in T : <<y, x>> \in Less <=> y < x
  BY DEF Less
<1>3. PICK x \in T : \A y \in T : ~(y < x)
  BY <1>1, <1>2
<1>4. ASSUME NEW y \in T PROVE x <= y
  <2>1. x \in Nat /\ y \in Nat /\ ~(y < x)
    BY <1>3
  <2> QED BY <2>1
<1> QED
  BY <1>4

\* The marking loop of eval_sweep ends with the least set of entries that has
\* the roots and what its entries record.
LEMMA ClosureIsLeast ==
  ASSUME IsFiniteSet(DOMAIN things),
         \A t \in DOMAIN things : things[t].deps \subseteq DOMAIN things,
         NEW roots \in SUBSET DOMAIN things
  PROVE  /\ roots \subseteq Closure(roots)
         /\ Closure(roots) \subseteq DOMAIN things
         /\ DepsOf(Closure(roots)) \subseteq Closure(roots)
         /\ \A S \in SUBSET DOMAIN things :
              roots \subseteq S /\ DepsOf(S) \subseteq S => Closure(roots) \subseteq S
<1> DEFINE D == DOMAIN things
           More(s) == DepsOf(s) \ s
           Step(f) == [s \in SUBSET D |-> IF More(s) = {} THEN s ELSE f[s \cup More(s)]]
           f == CHOOSE g : g = Step(g)
           Full(S) == S \in SUBSET D /\ DepsOf(S) \subseteq S
           Cl(s) == {t \in D : \A S \in SUBSET D : s \subseteq S /\ Full(S) => t \in S}
           h == [s \in SUBSET D |-> Cl(s)]
           Good(s) == /\ s \subseteq f[s] /\ Full(f[s])
                      /\ \A S \in SUBSET D : s \subseteq S /\ Full(S) => f[s] \subseteq S
<1>1. Closure(roots) = f[roots]
  BY DEF Closure, DepsOf
<1>2. \A s \in SUBSET D : s \cup More(s) \in SUBSET D
  BY DEF DepsOf
<1>3. h = Step(h)
  <2>1. ASSUME NEW s \in SUBSET D PROVE h[s] = IF More(s) = {} THEN s ELSE h[s \cup More(s)]
    <3>1. CASE More(s) = {}
      <4>1. Full(s)
        BY <3>1
      <4>2. Cl(s) = s
        BY <4>1
      <4> QED BY <3>1, <4>2
    <3>2. CASE More(s) # {}
      <4>1. \A S \in SUBSET D : s \subseteq S /\ Full(S) <=> s \cup More(s) \subseteq S /\ Full(S)
        BY DEF DepsOf
      <4>2. Cl(s) = Cl(s \cup More(s))
        BY <4>1
      <4> HIDE DEF Cl, More
      <4> QED BY <3>2, <4>2, <1>2
    <3> QED BY <3>1, <3>2
  <2> HIDE DEF Cl, More
  <2> QED BY <2>1
<1>4. f = Step(f)
  <2> HIDE DEF Step, h
  <2> QED BY <1>3
<1>5. \A s \in SUBSET D : f[s] = IF More(s) = {} THEN s ELSE f[s \cup More(s)]
  <2> HIDE DEF f, More
  <2> QED BY <1>4
<1> HIDE DEF f
<1> DEFINE Bad == {s \in SUBSET D : ~Good(s)}
           left == [s \in SUBSET D |-> Cardinality(D \ s)]
<1>6. Bad = {}
  <2> SUFFICES ASSUME Bad # {} PROVE FALSE
    OBVIOUS
  <2>1. \A s \in SUBSET D : left[s] \in Nat /\ IsFiniteSet(D \ s)
    BY FS_Subset, FS_CardinalityType
  <2> DEFINE T == {left[s] : s \in Bad}
  <2> HIDE DEF left, Good
  <2>2. T \subseteq Nat /\ T # {}
    BY <2>1
  <2>3. PICK s \in Bad : \A u \in Bad : left[s] <= left[u]
    <3>1. PICK n \in T : \A m \in T : n <= m
      BY <2>2, Least
    <3> QED BY <3>1
  <2>4. CASE More(s) = {}
    <3>1. f[s] = s
      BY <1>5, <2>4
    <3>2. Good(s)
      BY <3>1, <2>3, <2>4 DEF Good
    <3> QED BY <3>2, <2>3
  <2>5. CASE More(s) # {}
    <3> DEFINE u == s \cup More(s)
    <3>1. u \in SUBSET D /\ f[s] = f[u]
      BY <1>5, <1>2, <2>5
    <3>2. left[u] < left[s]
      <4>1. D \ u \subseteq D \ s /\ D \ u # D \ s
        BY <2>5, <1>2
      <4>2. Cardinality(D \ u) <= Cardinality(D \ s) /\ Cardinality(D \ u) # Cardinality(D \ s)
        BY <4>1, <2>1, FS_Subset
      <4>3. left[u] = Cardinality(D \ u) /\ left[s] = Cardinality(D \ s)
        BY <3>1 DEF left
      <4>4. left[u] \in Nat /\ left[s] \in Nat
        BY <2>1, <3>1
      <4> HIDE DEF u
      <4> QED BY <4>2, <4>3, <4>4
    <3>3. Good(u)
      <4>1. ~(left[s] <= left[u])
        <5> left[u] \in Nat /\ left[s] \in Nat
          BY <3>1, <2>1
        <5> QED BY <3>2
      <4> QED BY <4>1, <2>3, <3>1
    <3>4. \A S \in SUBSET D : s \subseteq S /\ Full(S) => u \subseteq S
      BY DEF DepsOf
    <3>5. Good(s)
      <4> HIDE DEF Full
      <4> QED BY <3>1, <3>3, <3>4 DEF Good
    <3> QED BY <3>5, <2>3
  <2> QED BY <2>4, <2>5
<1>7. Good(roots)
  BY <1>6
<1> QED
  BY <1>1, <1>7

-----------------------------------------------------------------------------
(* What holds whatever the heads do *)

\* An entry is kept by a closed set that has it, and what it holds with it.
LEMMA EntriesAreBacked ==
  ASSUME HInv, NEW O \in SUBSET listed, NEW t \in O
  PROVE  Backed(t, O)
<1> SUFFICES ASSUME NEW S \in SUBSET listed, Closed(S), O \subseteq S PROVE KeptBy(t, S)
  BY DEF HInv, HeapIsKept, Backed
<1>1. t \in DOMAIN things /\ t \in S /\ t \in listed /\ things[t].deps \subseteq S
  BY DEF HInv, HeapIsKept, Closed, DepsOf
<1>2. CASE things[t].owner = Nothing
  BY <1>1, <1>2 DEF KeptBy, Anchor
<1>3. CASE things[t].owner # Nothing
  <2>1. things[t].owner \in things[t].deps
    BY <1>1, <1>3 DEF HInv, HeapIsKept, PartOf
  <2> QED BY <2>1, <1>1, <1>3 DEF KeptBy, Anchor
<1> QED
  BY <1>2, <1>3

\* What a backed thing holds is backed too.
LEMMA HeldIsBacked ==
  ASSUME HInv, NEW O, NEW t, Backed(t, O), NEW h \in Holds(t), O \in SUBSET listed,
         \E S \in SUBSET listed : Closed(S) /\ O \subseteq S
  PROVE  Backed(h, O)
  BY DEF HInv, Covered, Backed

\* The whole table is closed, and keeps everything.
LEMMA TableIsClosed ==
  ASSUME HInv
  PROVE  /\ Closed(listed)
         /\ \A t \in DOMAIN things : KeptBy(t, listed)
  BY DEF HInv, HeapIsKept, Closed, DepsOf, KeptBy

\* No thing on the heap holds what was freed.
LEMMA HeldIsThere ==
  ASSUME HInv
  PROVE  \A t \in DOMAIN things : Holds(t) \subseteq DOMAIN things
  BY TableIsClosed DEF HInv, Covered

\* What a thing lives on is in what it holds, so the step that leaves that
\* alone leaves its home.
LEMMA FitsStill ==
  ASSUME NEW kind, NEW x, Fits(kind, x),
         Range(x.of) \cup x.all \subseteq DOMAIN things,
         \A u \in Range(x.of) \cup x.all : things'[u].of = things[u].of
  PROVE  Fits(kind, x)'
<1>1. \A role \in Roles(kind) : x.of[role] \in Range(x.of)
  BY DEF Fits, Range
<1>2. \A u \in Range(x.of) \cup x.all : Of(u)' = Of(u)
  BY DEF Of
<1>3. kind = "atlas" => \A a, b \in x.all : (Of(a).space = Of(b).space)'
  BY <1>2 DEF Fits
<1>4. kind = "componentTensor" => (Of(x.of.basis).space = Of(x.of.head).space)'
  BY <1>1, <1>2 DEF Fits, Roles
<1>5. kind = "transition" => (Of(x.of.source).space = Of(x.of.target).space)'
  BY <1>1, <1>2 DEF Fits, Roles
<1>6. kind \in {"form", "lieForm"} => (x.of.chart = Of(x.of.manifold).chart)'
  BY <1>1, <1>2 DEF Fits, Roles
<1> QED
  BY <1>3, <1>4, <1>5, <1>6 DEF Fits

\* The home of a thing whose addresses stay stays.
LEMMA HomeStays ==
  ASSUME NEW t, things'[t].of = things[t].of, NEW home
  PROVE  LivesOn(t, home)' = LivesOn(t, home) /\ Home(t, home)' = Home(t, home)
  BY DEF LivesOn, Home, Of

-----------------------------------------------------------------------------
(* Publishing results *)

\* What the new things of a command must be like: the result r records the
\* entries O of its operands and B, what the command published before it.
NewThing(t, r, O, B) ==
    /\ IsThing(things[t])
    /\ t = r => things[t].deps = O \cup B /\ things[t].owner = Nothing
    /\ t # r => /\ things[t].deps = {}
                /\ IF Pooled(t) \/ t \in B THEN things[t].owner = Nothing
                   ELSE ~Pooled(r) /\ things[t].owner = r
    /\ t \in B => Holds(t) = {}
    /\ Fits(Kind(t), things[t]) /\ Owns(t) /\ IsPart(t)

\* o may be an operand of r: what it lives on, r lives on.
AtHome(o, r, home) ==
    LivesOn(o, home) => LivesOn(r, home) /\ Home(r, home) = Home(o, home)

\* publish and publish_many: results that hold what their operands keep, and
\* record them.
LEMMA Grown ==
  ASSUME HInv, NEW M, NEW r \in M, r # Nothing, NEW O \in SUBSET listed,
         NEW B \in SUBSET (M \ {r}), IsFiniteSet(M), M \cap DOMAIN things = {},
         DOMAIN things' = DOMAIN things \cup M,
         \A t \in DOMAIN things : things'[t] = things[t],
         listed' = listed \cup B \cup {r}, named' = named, results' = results \cup {r},
         \A t \in M : NewThing(t, r, O, B)',
         \A t \in M : \A h \in Holds(t)' :
            \/ Pooled(h) /\ h \in DOMAIN things \cup M
            \/ ~Pooled(t) /\ (h \in M \/ Backed(h, O)),
         \A home \in Homes, o \in O : Kind(r) \in HomeKinds(home) =>
            Kind(o) \in HomeKinds(home) /\ AtHome(o, r, home)',
         \A home \in Homes, b \in B : Kind(r) \in HomeKinds(home) => AtHome(b, r, home)'
  PROVE  HInv'
<1> USE DEF HInv
<1>1. HeapIsKept'
  <2>1. IsFiniteSet(DOMAIN things')
    <3>1. IsFiniteSet(DOMAIN things)
      BY DEF HeapIsKept
    <3>2. IsFiniteSet(DOMAIN things \cup M)
      BY <3>1, FS_Union
    <3> QED BY <3>2
  <2>2. listed' \subseteq DOMAIN things' /\ named' \subseteq listed' /\ results' \subseteq listed'
    BY DEF HeapIsKept
  <2>3. ASSUME NEW t \in DOMAIN things
        PROVE  /\ IsThing(things[t])'
               /\ things'[t].deps \subseteq listed'
               /\ t \notin listed' => things'[t].deps = {}
               /\ ~Pooled(t) => Anchor(t)' \in listed'
               /\ things'[t].owner # Nothing => PartOf(t, things[t].owner)'
    <3>1. things'[t] = things[t] /\ t # r /\ t \notin B
      OBVIOUS
    <3>2. things[t].owner # Nothing => PartOf(t, things[t].owner)'
      BY <3>1 DEF HeapIsKept, PartOf
    <3>3. Anchor(t)' = Anchor(t)
      BY <3>1 DEF Anchor
    <3> QED BY <3>1, <3>2, <3>3 DEF HeapIsKept, IsThing
  <2>4. ASSUME NEW t \in M
        PROVE  /\ IsThing(things[t])'
               /\ things'[t].deps \subseteq listed'
               /\ t \notin listed' => things'[t].deps = {}
               /\ ~Pooled(t) => Anchor(t)' \in listed'
               /\ things'[t].owner # Nothing => PartOf(t, things[t].owner)'
    <3>1. NewThing(t, r, O, B)' /\ NewThing(r, r, O, B)' /\ r \in listed' /\ t \notin listed
      BY DEF HeapIsKept
    <3>2. CASE t = r
      BY <3>1, <3>2 DEF NewThing, Anchor
    <3>3. CASE t # r
      BY <3>1, <3>3 DEF NewThing, Anchor, PartOf
    <3> QED BY <3>2, <3>3
  <2> QED BY <2>1, <2>2, <2>3, <2>4 DEF HeapIsKept
<1>2. \A S \in SUBSET listed' : Closed(S)' =>
         Closed(S \cap listed) /\ (r \in S => O \subseteq S \cap listed /\ B \subseteq S)
  <2> SUFFICES ASSUME NEW S \in SUBSET listed', Closed(S)'
               PROVE  Closed(S \cap listed) /\ (r \in S => O \subseteq S \cap listed /\ B \subseteq S)
    OBVIOUS
  <2>1. \A t \in S : things'[t].deps \subseteq S
    BY DEF Closed, DepsOf
  <2>2. \A t \in S \cap listed : things[t].deps \subseteq S \cap listed
    BY <2>1 DEF HeapIsKept
  <2>3. r \in S => O \subseteq S /\ B \subseteq S
    BY <2>1 DEF NewThing
  <2> QED BY <2>2, <2>3 DEF Closed, DepsOf
<1>3. \A t \in DOMAIN things, S \in SUBSET listed' : KeptBy(t, S)' <=> KeptBy(t, S \cap listed)
  <2> TAKE t \in DOMAIN things, S \in SUBSET listed'
  <2>1. Anchor(t)' = Anchor(t) /\ (~Pooled(t) => Anchor(t) \in listed)
    BY DEF Anchor, HeapIsKept
  <2> QED BY <2>1 DEF KeptBy
<1>4. Covered'
  <2> SUFFICES ASSUME NEW S \in SUBSET listed', Closed(S)',
                      NEW t \in DOMAIN things', KeptBy(t, S)', NEW h \in Holds(t)'
               PROVE  h \in DOMAIN things' /\ KeptBy(h, S)'
    BY DEF Covered
  <2>1. Closed(S \cap listed)
    BY <1>2
  <2>2. CASE t \in DOMAIN things
    <3>1. h \in Holds(t) /\ KeptBy(t, S \cap listed)
      BY <2>2, <1>3 DEF Holds, Of
    <3>2. h \in DOMAIN things /\ KeptBy(h, S \cap listed)
      BY <3>1, <2>1, <2>2 DEF Covered
    <3> QED BY <3>2, <1>3
  <2>3. CASE t \in M
    <3>1. CASE Pooled(h) /\ h \in DOMAIN things \cup M
      BY <3>1 DEF KeptBy
    <3>2. CASE ~Pooled(t) /\ (h \in M \/ Backed(h, O))
      <4>1. r \in S
        <5>1. t \notin B
          BY <2>3 DEF NewThing
        <5> QED BY <3>2, <2>3, <5>1 DEF KeptBy, Anchor, NewThing
      <4>2. CASE h \in M
        <5>1. h \in B => h \in S
          BY <4>1, <1>2
        <5> QED BY <4>1, <4>2, <5>1 DEF KeptBy, Anchor, NewThing
      <4>3. CASE Backed(h, O)
        <5>1. O \subseteq S \cap listed
          BY <4>1, <1>2
        <5>2. h \in DOMAIN things /\ KeptBy(h, S \cap listed)
          BY <4>3, <5>1, <2>1 DEF Backed
        <5> QED BY <5>2, <1>3
      <4> QED BY <3>2, <4>2, <4>3
    <3> QED BY <2>3, <3>1, <3>2
  <2> QED BY <2>2, <2>3
<1>5. Shaped'
  <2>1. ASSUME NEW t \in DOMAIN things PROVE (Fits(Kind(t), things[t]) /\ Owns(t) /\ IsPart(t))'
    <3>1. Holds(t) \subseteq DOMAIN things /\ things'[t] = things[t]
      BY HeldIsThere
    <3>2. Fits(Kind(t), things[t])'
      BY <3>1, FitsStill DEF Shaped, Holds, Of
    <3>3. Owns(t)'
      <4>1. Kind(t) = "group" => Of(t).algebra \in Holds(t)
        BY DEF Shaped, Fits, Roles, Holds, Range, Of
      <4>2. Owns(t) /\ Of(t)' = Of(t) /\ \A u \in Holds(t) : things'[u] = things[u]
        BY <3>1 DEF Shaped, Of
      <4>3. Range(Of(t)) \subseteq Holds(t)
        BY DEF Holds
      <4> QED BY <4>1, <4>2, <4>3 DEF Owns
    <3>4. IsPart(t)'
      <4>1. IsPart(t) /\ Of(t)' = Of(t)
        BY <3>1 DEF Shaped, Of
      <4>2. things[t].owner # Nothing => things[t].owner \in DOMAIN things
        BY DEF HeapIsKept, PartOf
      <4>3. things[t].owner # Nothing => Of(things[t].owner)' = Of(things[t].owner)
        BY <4>2, <3>1 DEF Of
      <4> QED BY <4>1, <4>3, <3>1 DEF IsPart
    <3> QED BY <3>2, <3>3, <3>4
  <2> QED BY <2>1 DEF Shaped, NewThing
<1>6. \A S \in SUBSET listed : Closed(S) => Closed(S)'
  BY DEF Closed, DepsOf, HeapIsKept
<1>7. \A t \in DOMAIN things, home \in Homes : LivesOn(t, home)' = LivesOn(t, home) /\ Home(t, home)' = Home(t, home)
  BY HomeStays
<1>8. OneHome'
  <2>1. ASSUME NEW t \in listed, NEW home \in Homes, Kind(t) \in HomeKinds(home)
        PROVE  \E S \in SUBSET listed' : Closed(S)' /\ t \in S /\ SameHome(S, t, home)'
    <3>1. PICK S \in SUBSET listed : Closed(S) /\ t \in S /\ SameHome(S, t, home)
      BY <2>1 DEF OneHome
    <3>2. SameHome(S, t, home)'
      BY <3>1, <1>7 DEF SameHome, HeapIsKept
    <3> QED BY <3>1, <3>2, <1>6
  <2>2. ASSUME NEW home \in Homes, Kind(r) \in HomeKinds(home)
        PROVE  \E S \in SUBSET listed' : Closed(S)' /\ r \in S /\ SameHome(S, r, home)'
    <3>1. \A o \in O : \E S \in SUBSET listed : Closed(S) /\ o \in S /\ SameHome(S, o, home)
      BY <2>2 DEF OneHome
    <3> DEFINE Fam == {S \in SUBSET listed : Closed(S) /\ \E o \in O : o \in S /\ SameHome(S, o, home)}
    <3> PICK S : S = {r} \cup B \cup UNION Fam
      OBVIOUS
    <3>2. S \in SUBSET listed' /\ O \subseteq S
      BY <3>1
    <3>3. Closed(S)'
      <4>1. \A T \in Fam : \A u \in T : things'[u].deps \subseteq T
        BY DEF Closed, DepsOf, HeapIsKept
      <4>2. things'[r].deps = O \cup B /\ \A u \in B : things'[u].deps = {}
        BY DEF NewThing
      <4>3. \A u \in S : things'[u].deps \subseteq S
        BY <4>1, <4>2, <3>2
      <4> QED BY <4>3, <3>2 DEF Closed, DepsOf
    <3>4. SameHome(S, r, home)'
      <4>1. ASSUME NEW T \in Fam, NEW u \in T, LivesOn(u, home)'
            PROVE  LivesOn(r, home)' /\ Home(u, home)' = Home(r, home)'
        <5>1. PICK o \in O : o \in T /\ SameHome(T, o, home)
          OBVIOUS
        <5>2. u \in DOMAIN things /\ o \in DOMAIN things
          BY <5>1 DEF HeapIsKept
        <5>3. LivesOn(u, home)
          BY <4>1, <5>2, <1>7
        <5>4. LivesOn(o, home) /\ Home(u, home) = Home(o, home)
          BY <5>1, <5>3 DEF SameHome
        <5>5. AtHome(o, r, home)' /\ LivesOn(o, home)'
          BY <2>2, <5>2, <5>4, <1>7
        <5> QED BY <5>2, <5>4, <5>5, <1>7 DEF AtHome
      <4>2. ASSUME NEW u \in B, LivesOn(u, home)'
            PROVE  LivesOn(r, home)' /\ Home(u, home)' = Home(r, home)'
        BY <2>2, <4>2 DEF AtHome
      <4> QED BY <4>1, <4>2 DEF SameHome
    <3> QED BY <3>2, <3>3, <3>4
  <2>3. ASSUME NEW b \in B, NEW home \in Homes
        PROVE  \E S \in SUBSET listed' : Closed(S)' /\ b \in S /\ SameHome(S, b, home)'
    <3>1. things'[b].deps = {}
      BY DEF NewThing
    <3>2. Closed({b})' /\ SameHome({b}, b, home)'
      BY <3>1 DEF Closed, DepsOf, SameHome
    <3> QED BY <3>2
  <2> QED BY <2>1, <2>2, <2>3 DEF OneHome
<1> QED
  BY <1>1, <1>4, <1>5, <1>8

\* The same, as one predicate of the step.
AllIsNew(M, r, O, B) ==
    /\ r \in M /\ r # Nothing /\ O \in SUBSET listed /\ B \in SUBSET (M \ {r})
    /\ IsFiniteSet(M) /\ M \cap DOMAIN things = {}
    /\ DOMAIN things' = DOMAIN things \cup M
    /\ \A t \in DOMAIN things : things'[t] = things[t]
    /\ listed' = listed \cup B \cup {r} /\ named' = named /\ results' = results \cup {r}
    /\ \A t \in M : NewThing(t, r, O, B)'
    /\ \A t \in M : \A h \in Holds(t)' :
          \/ Pooled(h) /\ h \in DOMAIN things \cup M
          \/ ~Pooled(t) /\ (h \in M \/ Backed(h, O))
    /\ \A home \in Homes, o \in O : Kind(r) \in HomeKinds(home) =>
          Kind(o) \in HomeKinds(home) /\ AtHome(o, r, home)'
    /\ \A home \in Homes, b \in B : Kind(r) \in HomeKinds(home) => AtHome(b, r, home)'

\* The lemma above, of that predicate: its many conditions travel as one.
LEMMA GrownBy ==
  ASSUME HInv, NEW M, NEW r, NEW O, NEW B, AllIsNew(M, r, O, B)
  PROVE  HInv'
  BY Grown DEF AllIsNew

\* Where a new thing goes there was none.
LEMMA FreshIsNew ==
  ASSUME NEW kinds, NEW kind \in kinds, Room(kinds)
  PROVE  Fresh(kind) \notin DOMAIN things /\ Kind(Fresh(kind)) = kind
<1>1. Unused(kind) # {}
  BY DEF Room
<1>2. Fresh(kind) \in Unused(kind)
  BY <1>1 DEF Fresh
<1> QED
  BY <1>2 DEF Unused

\* The heap after publish_many.
LEMMA Placed ==
  ASSUME NEW made, NEW r \in DOMAIN made, NEW O \in SUBSET listed, Publish(made, r, O),
         made = [t \in DOMAIN made |-> made[t]],
         DOMAIN made \cap DOMAIN things = {},
         \A t \in DOMAIN made : IsThing(made[t])
  PROVE  /\ DOMAIN things' = DOMAIN things \cup DOMAIN made
         /\ \A t \in DOMAIN things : things'[t] = things[t]
         /\ \A t \in DOMAIN made \ {r} : things'[t] = made[t]
         /\ things'[r] = [of |-> made[r].of, all |-> made[r].all, deps |-> O, owner |-> made[r].owner,
                          degree |-> made[r].degree, links |-> made[r].links]
         /\ listed' = listed \cup {r} /\ results' = results \cup {r} /\ named' = named
<1> DEFINE new == [made EXCEPT ![r].deps = Recorded(O)]
<1>1. Recorded(O) = O
  BY DEF Recorded
<1>2. things' = Joined(new) /\ listed' = listed \cup {r} /\ results' = results \cup {r} /\ named' = named
  BY DEF Publish
<1>3. DOMAIN new = DOMAIN made /\ \A t \in DOMAIN made \ {r} : new[t] = made[t]
  OBVIOUS
<1>4. new[r] = [made[r] EXCEPT !.deps = O]
  BY <1>1
<1>5. \A x, y : x = [of |-> y.of, all |-> y.all, deps |-> y.deps, owner |-> y.owner,
                     degree |-> y.degree, links |-> y.links]
                => [x EXCEPT !.deps = O] =
                     [of |-> y.of, all |-> y.all, deps |-> O, owner |-> y.owner,
                      degree |-> y.degree, links |-> y.links]
  OBVIOUS
<1>6. new[r] = [of |-> made[r].of, all |-> made[r].all, deps |-> O, owner |-> made[r].owner,
                degree |-> made[r].degree, links |-> made[r].links]
  BY <1>4, <1>5 DEF IsThing
<1> HIDE DEF new
<1> QED
  BY <1>2, <1>3, <1>6 DEF Joined

\* A result of its own: what its head must have made sure of.
Sound(kind, x, O) ==
    /\ O \subseteq listed /\ IsThing(x) /\ x.deps = {} /\ x.owner = Nothing
    /\ kind \notin {"chart", "algebra", "group", "grView", "qftView", "scalar"}
    /\ Fits(kind, x)
    /\ \A h \in Range(x.of) \cup x.all :
         /\ h \in DOMAIN things
         /\ Pooled(h) \/ (kind \notin {"space", "head"} /\ Backed(h, O))
    /\ \A home \in Homes, o \in O : kind \in HomeKinds(home) =>
         /\ Kind(o) \in HomeKinds(home)
         /\ LivesOn(o, home) => home \in DOMAIN x.of /\ x.of[home] = Home(o, home)

\* publish: a head that made sure of it keeps the invariant.
LEMMA One ==
  ASSUME HInv, NEW kind, NEW x, NEW O, Sound(kind, x, O), PublishOne(kind, x, O)
  PROVE  HInv'
<1> DEFINE t == Fresh(kind)
           made == Alone(t, x)
<1>1. t \notin DOMAIN things /\ Kind(t) = kind
  BY FreshIsNew DEF PublishOne
<1>2. DOMAIN made = {t} /\ made[t] = x /\ made = [u \in DOMAIN made |-> made[u]]
  BY DEF Alone
<1>3. Publish(made, t, O)
  BY DEF PublishOne
<1> PICK r : r = t
  OBVIOUS
<1>4. /\ DOMAIN things' = DOMAIN things \cup {r}
      /\ \A u \in DOMAIN things : things'[u] = things[u]
      /\ things'[r] = [of |-> x.of, all |-> x.all, deps |-> O, owner |-> x.owner,
                       degree |-> x.degree, links |-> x.links]
      /\ listed' = listed \cup {r} /\ results' = results \cup {r} /\ named' = named
  <2> HIDE DEF t, made
  <2> QED BY <1>1, <1>2, <1>3, Placed DEF Sound
<1>5. r \notin DOMAIN things /\ Kind(r) = kind /\ r # Nothing /\ O \in SUBSET listed
  BY <1>1 DEF Sound, Nothing, Kind
<1> HIDE DEF t, made
<1>6. Fits(kind, x)'
  <2>1. \A u \in Range(x.of) \cup x.all : u \in DOMAIN things /\ things'[u].of = things[u].of
    BY <1>4 DEF Sound
  <2> QED BY <2>1, FitsStill DEF Sound
<1>7. Fits(kind, things[r])'
  <2>1. things'[r].of = x.of /\ things'[r].all = x.all /\ things'[r].links = x.links
    BY <1>4
  <2> QED BY <1>6, <2>1 DEF Fits
<1>8. NewThing(r, r, O, {})'
  <2>1. IsThing(things[r])' /\ things'[r].deps = O /\ things'[r].owner = Nothing
    BY <1>4 DEF IsThing, Sound
  <2>2. Owns(r)' /\ IsPart(r)'
    BY <2>1, <1>5 DEF Owns, IsPart, Sound
  <2> QED BY <1>5, <1>7, <2>1, <2>2 DEF NewThing
<1>9. \A h \in Holds(r)' : \/ Pooled(h) /\ h \in DOMAIN things \cup {r}
                           \/ ~Pooled(r) /\ Backed(h, O)
  <2>1. Holds(r)' = Range(x.of) \cup x.all
    BY <1>4 DEF Holds, Of
  <2> QED BY <2>1, <1>5 DEF Sound, Pooled
<1>10. \A home \in Homes, o \in O : Kind(r) \in HomeKinds(home) =>
          Kind(o) \in HomeKinds(home) /\ AtHome(o, r, home)'
  <2> SUFFICES ASSUME NEW home \in Homes, NEW o \in O, kind \in HomeKinds(home)
               PROVE  Kind(o) \in HomeKinds(home) /\ AtHome(o, r, home)'
    BY <1>5
  <2>1. o \in DOMAIN things
    BY DEF Sound, HInv, HeapIsKept
  <2>2. LivesOn(o, home)' = LivesOn(o, home) /\ Home(o, home)' = Home(o, home)
    BY <2>1, <1>4, HomeStays
  <2>3. Of(r)' = x.of /\ Kind(r) # home
    BY <1>4, <1>5 DEF Of, Sound, Homes
  <2>4. LivesOn(o, home) => LivesOn(r, home)' /\ Home(r, home)' = Home(o, home)
    BY <2>3 DEF LivesOn, Home, Sound
  <2> QED BY <2>2, <2>4 DEF Sound, AtHome
<1>11. IsFiniteSet({r})
  BY FS_Singleton
<1>12. {r} \cap DOMAIN things = {}
  BY <1>5
<1> QED
  BY <1>4, <1>5, <1>8, <1>9, <1>10, <1>11, <1>12, Grown, SMTT(30)

-----------------------------------------------------------------------------
(* Steps that make nothing *)

\* A head that edits its operand, or returns it: the addresses, the records and
\* the owners stay.
LEMMA Steady ==
  ASSUME HInv, DOMAIN things' = DOMAIN things, listed' = listed,
         named' \subseteq listed, results' \subseteq listed,
         \A t \in DOMAIN things :
            /\ IsThing(things'[t])
            /\ things'[t].of = things[t].of /\ things'[t].all = things[t].all
            /\ things'[t].deps = things[t].deps /\ things'[t].owner = things[t].owner
            /\ things'[t].links \subseteq things'[t].all \X things'[t].all \/ things'[t].links = things[t].links
  PROVE  HInv'
<1> USE DEF HInv
<1>1. \A t \in DOMAIN things : /\ Of(t)' = Of(t) /\ Holds(t)' = Holds(t) /\ Anchor(t)' = Anchor(t)
                               /\ things[t].owner # Nothing => things[t].owner \in DOMAIN things
  BY DEF Of, Holds, Anchor, HeapIsKept, PartOf
<1>2. \A S \in SUBSET listed : Closed(S)' <=> Closed(S)
  BY DEF Closed, DepsOf, HeapIsKept
<1>3. HeapIsKept'
  <2>1. \A t \in DOMAIN things : things[t].owner # Nothing => PartOf(t, things[t].owner)'
    BY <1>1 DEF HeapIsKept, PartOf
  <2> QED BY <1>1, <2>1 DEF HeapIsKept
<1>4. \A t \in DOMAIN things, S \in SUBSET listed : KeptBy(t, S)' <=> KeptBy(t, S)
  BY <1>1 DEF KeptBy
<1>5. Covered'
  BY <1>1, <1>2, <1>4 DEF Covered
<1>6. Shaped'
  <2> SUFFICES ASSUME NEW t \in DOMAIN things PROVE (Fits(Kind(t), things[t]) /\ Owns(t) /\ IsPart(t))'
    BY DEF Shaped
  <2>1. Holds(t) \subseteq DOMAIN things
    BY HeldIsThere
  <2>2. Fits(Kind(t), things[t]) /\ Owns(t) /\ IsPart(t)
    BY DEF Shaped
  <2> PICK x : x = things[t]
    OBVIOUS
  <2>3. Fits(Kind(t), x)'
    BY <2>1, <2>2, <1>1, FitsStill DEF Holds, Of
  <2>4. Fits(Kind(t), things[t])'
    <3>1. things'[t].of = x.of /\ things'[t].all = x.all
      OBVIOUS
    <3>2. things'[t].links \subseteq things'[t].all \X things'[t].all \/ things'[t].links = x.links
      OBVIOUS
    <3> QED BY <2>3, <3>1, <3>2 DEF Fits
  <2>5. Owns(t)'
    <3>1. Kind(t) = "group" => Of(t).algebra \in Holds(t)
      BY <2>2 DEF Fits, Roles, Holds, Range, Of
    <3>2. Range(Of(t)) \subseteq Holds(t)
      BY DEF Holds
    <3> QED BY <2>1, <2>2, <3>1, <3>2, <1>1 DEF Owns
  <2>6. IsPart(t)'
    BY <2>2, <1>1 DEF IsPart
  <2> QED BY <2>4, <2>5, <2>6
<1>7. OneHome'
  <2>1. \A t \in listed, home \in Homes : LivesOn(t, home)' = LivesOn(t, home) /\ Home(t, home)' = Home(t, home)
    BY HomeStays DEF HeapIsKept
  <2>2. \A S \in SUBSET listed, t \in listed, home \in Homes : SameHome(S, t, home)' <=> SameHome(S, t, home)
    BY <2>1 DEF SameHome
  <2> QED BY <1>2, <2>2 DEF OneHome
<1> QED
  BY <1>3, <1>5, <1>6, <1>7

\* publish_borrowed: a part enters the table with its owner recorded.
LEMMA Lent ==
  ASSUME HInv, NEW o \in listed, o # Nothing, NEW p \in DOMAIN things,
         things[p].owner = o \/ Pooled(p), PublishOwned(p, o)
  PROVE  HInv'
<1> USE DEF HInv
<1>1. CASE p \in listed
  <2>1. DOMAIN things' = DOMAIN things /\ \A t \in DOMAIN things \ {p} : things'[t] = things[t]
    BY DEF PublishOwned
  <2>2. things'[p] = [things[p] EXCEPT !.deps = things[p].deps]
    BY <1>1 DEF PublishOwned
  <2>3. \A x : IsThing(x) => [x EXCEPT !.deps = x.deps] = x
    BY DEF IsThing
  <2>4. \A t \in DOMAIN things : things'[t] = things[t] /\ IsThing(things[t])
    BY <2>1, <2>2, <2>3 DEF HeapIsKept
  <2>5. listed' = listed /\ named' \subseteq listed /\ results' \subseteq listed
    BY <1>1 DEF PublishOwned, HeapIsKept
  <2> QED BY <2>1, <2>4, <2>5, Steady
<1>2. CASE p \notin listed
  <2>1. /\ DOMAIN things' = DOMAIN things
        /\ \A t \in DOMAIN things \ {p} : things'[t] = things[t]
        /\ listed' = listed \cup {p} /\ results' = results \cup {p} /\ named' = named
    BY DEF PublishOwned
  <2>2. things'[p] = [of |-> things[p].of, all |-> things[p].all, deps |-> {o}, owner |-> things[p].owner,
                      degree |-> things[p].degree, links |-> things[p].links]
    <3>1. things'[p] = [things[p] EXCEPT !.deps = {o}]
      BY <1>2 DEF PublishOwned, Recorded
    <3>2. \A x, y : x = [of |-> y.of, all |-> y.all, deps |-> y.deps, owner |-> y.owner,
                         degree |-> y.degree, links |-> y.links]
                    => [x EXCEPT !.deps = {o}] =
                         [of |-> y.of, all |-> y.all, deps |-> {o}, owner |-> y.owner,
                          degree |-> y.degree, links |-> y.links]
      OBVIOUS
    <3>3. IsThing(things[p])
      BY DEF HeapIsKept
    <3> QED BY <3>1, <3>2, <3>3 DEF IsThing
  <2>3. \A t \in DOMAIN things :
            /\ things'[t].of = things[t].of /\ things'[t].all = things[t].all
            /\ things'[t].owner = things[t].owner /\ things'[t].links = things[t].links
            /\ IsThing(things[t])'
    BY <2>1, <2>2 DEF HeapIsKept, IsThing
  <2>4. \A t \in DOMAIN things : /\ Of(t)' = Of(t) /\ Holds(t)' = Holds(t) /\ Anchor(t)' = Anchor(t)
                                 /\ things[t].owner # Nothing => things[t].owner \in DOMAIN things
    BY <2>3 DEF Of, Holds, Anchor, HeapIsKept, PartOf
  <2>5. HeapIsKept'
    <3>1. listed' \subseteq DOMAIN things' /\ named' \subseteq listed' /\ results' \subseteq listed'
      BY <2>1 DEF HeapIsKept
    <3>2. \A t \in DOMAIN things : things[t].owner # Nothing => PartOf(t, things[t].owner)'
      BY <2>1, <2>2, <2>3, <2>4 DEF HeapIsKept, PartOf
    <3>3. \A t \in DOMAIN things : /\ things'[t].deps \subseteq listed'
                                   /\ t \notin listed' => things'[t].deps = {}
                                   /\ ~Pooled(t) => Anchor(t)' \in listed'
      BY <2>1, <2>2, <2>4 DEF HeapIsKept
    <3> QED BY <2>1, <2>3, <3>1, <3>2, <3>3 DEF HeapIsKept
  <2>6. \A S \in SUBSET listed' : Closed(S)' => Closed(S \cap listed)
    <3> SUFFICES ASSUME NEW S \in SUBSET listed', Closed(S)' PROVE Closed(S \cap listed)
      OBVIOUS
    <3>1. \A t \in S : things'[t].deps \subseteq S
      BY DEF Closed, DepsOf
    <3>2. \A t \in S \cap listed : things[t].deps \subseteq S \cap listed
      BY <3>1, <2>1, <1>2 DEF HeapIsKept
    <3> QED BY <3>2 DEF Closed, DepsOf
  <2>7. \A S \in SUBSET listed : Closed(S) => Closed(S)'
    BY <2>1, <1>2 DEF Closed, DepsOf, HeapIsKept
  <2>8. \A t \in DOMAIN things, S \in SUBSET listed' : KeptBy(t, S)' <=> KeptBy(t, S \cap listed)
    BY <2>4, <1>2, <2>1 DEF KeptBy, HeapIsKept
  <2>9. Covered'
    <3> SUFFICES ASSUME NEW S \in SUBSET listed', Closed(S)',
                        NEW t \in DOMAIN things, KeptBy(t, S)', NEW h \in Holds(t)
                 PROVE  h \in DOMAIN things /\ KeptBy(h, S)'
      BY <2>1, <2>4 DEF Covered
    <3>1. h \in DOMAIN things /\ KeptBy(h, S \cap listed)
      BY <2>6, <2>8, <2>1 DEF Covered
    <3> QED BY <3>1, <2>8
  <2>10. Shaped'
    <3> SUFFICES ASSUME NEW t \in DOMAIN things PROVE (Fits(Kind(t), things[t]) /\ Owns(t) /\ IsPart(t))'
      BY <2>1 DEF Shaped
    <3>1. Holds(t) \subseteq DOMAIN things
      BY HeldIsThere
    <3>2. Fits(Kind(t), things[t]) /\ Owns(t) /\ IsPart(t)
      BY DEF Shaped
    <3> PICK x : x = things[t]
      OBVIOUS
    <3>3. Fits(Kind(t), x)'
      BY <3>1, <3>2, <2>3, FitsStill DEF Holds, Of
    <3>4. Fits(Kind(t), things[t])'
      BY <3>3, <2>3 DEF Fits
    <3>5. Owns(t)'
      <4>1. Kind(t) = "group" => Of(t).algebra \in Holds(t)
        BY <3>2 DEF Fits, Roles, Holds, Range, Of
      <4>2. Range(Of(t)) \subseteq Holds(t)
        BY DEF Holds
      <4> QED BY <3>1, <3>2, <4>1, <4>2, <2>3, <2>4 DEF Owns
    <3>6. IsPart(t)'
      BY <3>2, <2>3, <2>4 DEF IsPart
    <3> QED BY <3>4, <3>5, <3>6
  <2>11. \A t \in DOMAIN things, home \in Homes :
            LivesOn(t, home)' = LivesOn(t, home) /\ Home(t, home)' = Home(t, home)
    BY <2>3, HomeStays
  <2>12. ASSUME NEW home \in Homes, Kind(p) \in HomeKinds(home)
         PROVE  Kind(o) \in HomeKinds(home) /\ (LivesOn(o, home) => LivesOn(p, home) /\ Home(p, home) = Home(o, home))
    <3>1. things[p].owner = o /\ IsPart(p) /\ DOMAIN Of(p) = Roles(Kind(p)) /\ DOMAIN Of(o) = Roles(Kind(o))
      BY <2>12 DEF Pooled, HomeKinds, Homes, Shaped, Fits, Of, HeapIsKept
    <3>2. CASE Kind(p) = "algebra" /\ Kind(o) = "group" /\ Of(o).algebra = p
      BY <3>1, <3>2 DEF HomeKinds, Homes, LivesOn, Home, Roles
    <3>3. CASE Kind(p) = "form" /\ Kind(o) = "lieForm" /\ Of(p).chart = Of(o).chart
      BY <2>12, <3>1, <3>3 DEF HomeKinds, Homes, LivesOn, Home, Roles
    <3>4. CASE Kind(p) = "tensor" /\ Kind(o) = "curvature" /\ Of(p).chart = Of(o).chart
      BY <2>12, <3>1, <3>4 DEF HomeKinds, Homes, LivesOn, Home, Roles
    <3>5. Kind(p) \notin {"basis", "componentTensor"}
      BY <2>12 DEF HomeKinds, Homes
    <3> QED BY <3>1, <3>2, <3>3, <3>4, <3>5 DEF IsPart
  <2>13. OneHome'
    <3>1. ASSUME NEW t \in listed, NEW home \in Homes, Kind(t) \in HomeKinds(home)
          PROVE  \E S \in SUBSET listed' : Closed(S)' /\ t \in S /\ SameHome(S, t, home)'
      <4>1. PICK S \in SUBSET listed : Closed(S) /\ t \in S /\ SameHome(S, t, home)
        BY <3>1 DEF OneHome
      <4>2. SameHome(S, t, home)'
        BY <4>1, <2>11 DEF SameHome, HeapIsKept
      <4> QED BY <4>1, <4>2, <2>7, <2>1
    <3>2. ASSUME NEW home \in Homes, Kind(p) \in HomeKinds(home)
          PROVE  \E S \in SUBSET listed' : Closed(S)' /\ p \in S /\ SameHome(S, p, home)'
      <4>1. PICK S \in SUBSET listed : Closed(S) /\ o \in S /\ SameHome(S, o, home)
        BY <3>2, <2>12 DEF OneHome
      <4>2. Closed(S \cup {p})'
        <5>1. \A t \in S : things'[t].deps \subseteq S
          BY <4>1, <1>2, <2>1 DEF Closed, DepsOf, HeapIsKept
        <5>2. things'[p].deps \subseteq S
          BY <4>1, <2>2
        <5> QED BY <5>1, <5>2, <2>1 DEF Closed, DepsOf
      <4>3. SameHome(S \cup {p}, p, home)'
        BY <4>1, <2>11, <2>12, <3>2 DEF SameHome, HeapIsKept
      <4> QED BY <4>2, <4>3, <2>1
    <3> QED BY <3>1, <3>2, <2>1 DEF OneHome
  <2> QED BY <2>5, <2>9, <2>10, <2>13
<1> QED
  BY <1>1, <1>2

\* eval_sweep: what stays is what a closed set keeps, and that keeps all it
\* holds.
LEMMA Swept ==
  ASSUME HInv, NEW roots \in SUBSET listed, SweepThings(roots), named' \subseteq roots, results' = {}
  PROVE  HInv'
<1> USE DEF HInv
<1> PICK kept : kept = Closure(roots)
  OBVIOUS
<1>1. roots \subseteq kept /\ kept \subseteq listed /\ Closed(kept)
  <2>1. IsFiniteSet(DOMAIN things) /\ \A t \in DOMAIN things : things[t].deps \subseteq DOMAIN things
    BY DEF HeapIsKept
  <2>2. roots \in SUBSET DOMAIN things /\ listed \in SUBSET DOMAIN things
    BY DEF HeapIsKept
  <2>3. DepsOf(listed) \subseteq listed
    BY DEF HeapIsKept, DepsOf
  <2> QED BY <2>1, <2>2, <2>3, ClosureIsLeast DEF Closed
<1> DEFINE D == DOMAIN things
<1>2. /\ listed' = kept
      /\ DOMAIN things' = {t \in D : KeptBy(t, kept)}
      /\ \A t \in DOMAIN things' :
            things'[t] = IF t \in kept THEN things[t] ELSE [things[t] EXCEPT !.deps = {}]
  <2>1. \A t \in D : KeptBy(t, kept) <=>
                       \/ Pooled(t)
                       \/ things[t].owner = Nothing /\ t \in kept
                       \/ things[t].owner # Nothing /\ things[t].owner \in kept
    BY DEF KeptBy, Anchor
  <2> QED BY <2>1 DEF SweepThings
<1>3. \A t \in DOMAIN things' :
         things'[t] = [of |-> things[t].of, all |-> things[t].all,
                       deps |-> IF t \in kept THEN things[t].deps ELSE {}, owner |-> things[t].owner,
                       degree |-> things[t].degree, links |-> things[t].links]
  <2>1. \A x, y : x = [of |-> y.of, all |-> y.all, deps |-> y.deps, owner |-> y.owner,
                       degree |-> y.degree, links |-> y.links]
                  => [x EXCEPT !.deps = {}] =
                       [of |-> y.of, all |-> y.all, deps |-> {}, owner |-> y.owner,
                        degree |-> y.degree, links |-> y.links]
    OBVIOUS
  <2>2. \A t \in DOMAIN things' : t \in D /\ IsThing(things[t])
    BY <1>2 DEF HeapIsKept
  <2> QED BY <1>2, <2>1, <2>2 DEF IsThing
<1>4. \A t \in DOMAIN things' :
         /\ t \in D /\ IsThing(things[t])'
         /\ things'[t].of = things[t].of /\ things'[t].all = things[t].all
         /\ things'[t].owner = things[t].owner /\ things'[t].links = things[t].links
         /\ things'[t].deps = IF t \in kept THEN things[t].deps ELSE {}
  BY <1>2, <1>3 DEF IsThing
<1>5. \A t \in DOMAIN things' :
         /\ Of(t)' = Of(t) /\ Holds(t)' = Holds(t) /\ Anchor(t)' = Anchor(t)
         /\ ~Pooled(t) => Anchor(t) \in kept
         /\ things[t].owner # Nothing => things[t].owner \in DOMAIN things' /\ things[t].owner \in kept
  <2> SUFFICES ASSUME NEW t \in DOMAIN things'
               PROVE  /\ Of(t)' = Of(t) /\ Holds(t)' = Holds(t) /\ Anchor(t)' = Anchor(t)
                      /\ ~Pooled(t) => Anchor(t) \in kept
                      /\ things[t].owner # Nothing => things[t].owner \in DOMAIN things' /\ things[t].owner \in kept
    OBVIOUS
  <2>1. Of(t)' = Of(t) /\ Holds(t)' = Holds(t) /\ Anchor(t)' = Anchor(t)
    BY <1>4 DEF Of, Holds, Anchor
  <2>2. ~Pooled(t) => Anchor(t) \in kept
    BY <1>2 DEF KeptBy
  <2>3. ASSUME things[t].owner # Nothing PROVE things[t].owner \in DOMAIN things' /\ things[t].owner \in kept
    <3>1. PartOf(t, things[t].owner) /\ Anchor(t) = things[t].owner
      BY <1>4, <2>3 DEF HeapIsKept, Anchor
    <3>2. things[t].owner \in kept /\ Anchor(things[t].owner) = things[t].owner
      BY <3>1, <2>2 DEF PartOf, Anchor
    <3> QED BY <3>2, <1>1, <1>2 DEF KeptBy, HeapIsKept
  <2> QED BY <2>1, <2>2, <2>3
<1>6. kept \subseteq DOMAIN things'
  <2> SUFFICES ASSUME NEW t \in kept PROVE KeptBy(t, kept)
    BY <1>1, <1>2 DEF HeapIsKept
  <2>1. Backed(t, kept)
    BY <1>1, EntriesAreBacked
  <2> QED BY <2>1, <1>1 DEF Backed
<1>7. HeapIsKept'
  <2>1. IsFiniteSet(DOMAIN things')
    <3>1. IsFiniteSet(D) /\ DOMAIN things' \subseteq D
      BY <1>2 DEF HeapIsKept
    <3> HIDE DEF D
    <3> QED BY <3>1, FS_Subset
  <2>2. named' \subseteq listed' /\ results' \subseteq listed' /\ listed' \subseteq DOMAIN things'
    BY <1>1, <1>2, <1>6
  <2>3. ASSUME NEW t \in DOMAIN things'
        PROVE  /\ IsThing(things[t])'
               /\ things'[t].deps \subseteq listed'
               /\ t \notin listed' => things'[t].deps = {}
               /\ ~Pooled(t) => Anchor(t)' \in listed'
    BY <1>1, <1>2, <1>4, <1>5 DEF Closed, DepsOf
  <2>4. ASSUME NEW t \in DOMAIN things', things[t].owner # Nothing
        PROVE  PartOf(t, things[t].owner)'
    <3>1. PartOf(t, things[t].owner) /\ t \in D
      BY <1>4, <2>4 DEF HeapIsKept
    <3>2. things[t].owner \in kept /\ things[t].owner \in DOMAIN things'
      BY <1>5, <2>4
    <3>3. things'[t].owner = things[t].owner /\ things'[things[t].owner].owner = things[things[t].owner].owner
      BY <1>4, <3>2
    <3>4. t \in kept => things'[t].deps = things[t].deps /\ t \in listed
      BY <1>1, <1>4
    <3> QED BY <3>1, <3>2, <3>3, <3>4, <1>2 DEF PartOf
  <2>5. \A t \in DOMAIN things' : things'[t].owner = things[t].owner
    BY <1>4
  <2> QED BY <2>1, <2>2, <2>3, <2>4, <2>5 DEF HeapIsKept
<1>8. \A S \in SUBSET listed' : Closed(S)' => Closed(S)
  BY <1>1, <1>2, <1>4, <1>6 DEF Closed, DepsOf
<1>9. \A t \in DOMAIN things' : \A S : KeptBy(t, S)' <=> KeptBy(t, S)
  BY <1>5 DEF KeptBy
<1>10. \A t \in DOMAIN things' : Holds(t) \subseteq DOMAIN things'
  BY <1>1, <1>2 DEF Covered
<1>11. Covered'
  <2> SUFFICES ASSUME NEW S \in SUBSET listed', Closed(S)',
                      NEW t \in DOMAIN things', KeptBy(t, S)', NEW h \in Holds(t)
               PROVE  h \in DOMAIN things' /\ KeptBy(h, S)'
    BY <1>5 DEF Covered
  <2>1. S \in SUBSET listed /\ Closed(S) /\ KeptBy(t, S) /\ t \in D
    BY <1>1, <1>2, <1>8, <1>9
  <2>2. KeptBy(h, S)
    BY <2>1 DEF Covered
  <2> QED BY <2>2, <1>9, <1>10
<1>12. Shaped'
  <2> SUFFICES ASSUME NEW t \in DOMAIN things' PROVE (Fits(Kind(t), things[t]) /\ Owns(t) /\ IsPart(t))'
    BY DEF Shaped
  <2>1. Holds(t) \subseteq DOMAIN things' /\ t \in D
    BY <1>10, <1>4
  <2>2. Fits(Kind(t), things[t]) /\ Owns(t) /\ IsPart(t)
    BY <2>1 DEF Shaped
  <2> PICK x : x = things[t]
    OBVIOUS
  <2>3. Fits(Kind(t), x)'
    <3>1. \A u \in Range(x.of) \cup x.all : u \in D /\ things'[u].of = things[u].of
      BY <2>1, <1>4 DEF Holds, Of
    <3> QED BY <3>1, <2>2, FitsStill
  <2>4. Fits(Kind(t), things[t])'
    BY <2>3, <1>4 DEF Fits
  <2>5. Owns(t)'
    <3>1. Kind(t) = "group" => Of(t).algebra \in Holds(t)
      BY <2>2 DEF Fits, Roles, Holds, Range, Of
    <3>2. Range(Of(t)) \subseteq Holds(t)
      BY DEF Holds
    <3> QED BY <2>1, <2>2, <3>1, <3>2, <1>4, <1>5 DEF Owns
  <2>6. IsPart(t)'
    BY <2>2, <1>4, <1>5 DEF IsPart
  <2> QED BY <2>4, <2>5, <2>6
<1>13. OneHome'
  <2> SUFFICES ASSUME NEW t \in kept, NEW home \in Homes, Kind(t) \in HomeKinds(home)
               PROVE  \E S \in SUBSET listed' : Closed(S)' /\ t \in S /\ SameHome(S, t, home)'
    BY <1>2 DEF OneHome
  <2>1. PICK S \in SUBSET listed : Closed(S) /\ t \in S /\ SameHome(S, t, home)
    BY <1>1 DEF OneHome
  <2>2. Closed(S \cap kept)'
    <3>1. \A u \in S \cap kept : things'[u].deps \subseteq S \cap kept
      BY <2>1, <1>1, <1>4, <1>6 DEF Closed, DepsOf
    <3> QED BY <3>1, <1>2 DEF Closed, DepsOf
  <2>3. \A u \in kept : LivesOn(u, home)' = LivesOn(u, home) /\ Home(u, home)' = Home(u, home)
    BY <1>4, <1>6, HomeStays
  <2>4. SameHome(S \cap kept, t, home)'
    BY <2>1, <2>3 DEF SameHome
  <2> QED BY <2>1, <2>2, <2>4, <1>2
<1> QED
  BY <1>7, <1>11, <1>12, <1>13

-----------------------------------------------------------------------------
(* What an operand is *)

\* A bound name or a result has an entry, and is what its kind says.
LEMMA OperandIsThere ==
  ASSUME HInv, NEW kind, NEW t \in OperandsOf(kind)
  PROVE  t \in listed /\ t \in DOMAIN things /\ Kind(t) = kind
  BY DEF HInv, HeapIsKept, OperandsOf

\* What an operand holds, and what that holds, is kept with it.
LEMMA Reached ==
  ASSUME HInv, NEW O \in SUBSET listed, NEW t \in O
  PROVE  /\ Backed(t, O)
         /\ \A h \in Holds(t) : Backed(h, O) /\ \A k \in Holds(h) : Backed(k, O)
<1>1. \E S \in SUBSET listed : Closed(S) /\ O \subseteq S
  BY TableIsClosed
<1>2. Backed(t, O)
  BY EntriesAreBacked
<1> QED
  BY <1>1, <1>2, HeldIsBacked

\* What a thing's kind says it holds, it holds.
LEMMA RoleIsHeld ==
  ASSUME HInv, NEW t \in DOMAIN things, NEW role \in Roles(Kind(t))
  PROVE  Of(t)[role] \in Holds(t) /\ Of(t)[role] \in DOMAIN things
<1>1. Of(t)[role] \in Holds(t)
  BY DEF HInv, Shaped, Fits, Holds, Range, Of
<1> QED
  BY <1>1, HeldIsThere

\* Where the things of each kind live.
LEMMA WhereItLives ==
  ASSUME HInv, NEW t \in DOMAIN things
  PROVE  /\ Kind(t) \in {"manifold", "form", "lieForm", "tensor", "curvature"} =>
              LivesOn(t, "chart") /\ Home(t, "chart") = Of(t).chart
         /\ Kind(t) \in {"algebra", "group"} => ~LivesOn(t, "chart")
         /\ Kind(t) \in {"element", "lieForm", "group"} =>
              LivesOn(t, "algebra") /\ Home(t, "algebra") = Of(t).algebra
         /\ Kind(t) = "algebra" => Home(t, "algebra") = t
         /\ Kind(t) \in {"chart", "manifold"} => ~LivesOn(t, "algebra")
<1>1. DOMAIN Of(t) = Roles(Kind(t))
  BY DEF HInv, Shaped, Fits, Of
<1> QED
  BY <1>1 DEF LivesOn, Home, Roles

-----------------------------------------------------------------------------
(* Results of one thing *)

\* What a head lays out has every field.
LEMMA ThingIsThing ==
  ASSUME NEW of
  PROVE  /\ IsThing(Thing(of)) /\ Thing(of).of = of /\ Thing(of).all = {} /\ Thing(of).deps = {}
         /\ Thing(of).owner = Nothing /\ Thing(of).links = {}
  BY DEF IsThing, Thing

\* Spaces, matrices and vectors hold nothing.
LEMMA BareIsSound ==
  ASSUME HInv, NEW kind \in {"space", "vector", "matrix"}
  PROVE  Sound(kind, Thing(<<>>), {})
<1>1. DOMAIN <<>> = {} /\ Range(<<>>) = {}
  BY DEF Range
<1>2. Fits(kind, Thing(<<>>))
  BY <1>1, ThingIsThing DEF Fits, Roles
<1> QED
  BY <1>1, <1>2, ThingIsThing DEF Sound

\* A head holds its space, and both are in the pool.
LEMMA HeadIsSound ==
  ASSUME HInv, NEW s \in OperandsOf("space")
  PROVE  Sound("head", Thing([space |-> s]), {})
<1>1. Range([space |-> s]) = {s}
  BY DEF Range
<1>2. s \in DOMAIN things /\ Pooled(s)
  BY OperandIsThere DEF Pooled
<1>3. Fits("head", Thing([space |-> s]))
  BY ThingIsThing DEF Fits, Roles
<1> QED
  BY <1>1, <1>2, <1>3, ThingIsThing DEF Sound

\* A product or a sum holds heads, which are in the pool.
LEMMA CopyIsSound ==
  ASSUME HInv, NEW kind \in {"monomial", "expression"}, NEW H \in SUBSET DOMAIN things,
         \A h \in H : Kind(h) = "head", NEW O \in SUBSET listed
  PROVE  Sound(kind, Copy(H), O)
<1>1. /\ IsThing(Copy(H)) /\ Copy(H).of = <<>> /\ Copy(H).all = H /\ Copy(H).deps = {}
      /\ Copy(H).owner = Nothing
  <2> PICK x : x = [Thing(<<>>) EXCEPT !.all = H]
    OBVIOUS
  <2>1. IsThing(x) /\ x.of = <<>> /\ x.all = H /\ x.deps = {} /\ x.owner = Nothing
    BY DEF Thing, IsThing
  <2> QED BY <2>1 DEF Copy
<1>2. DOMAIN <<>> = {} /\ Range(<<>>) = {}
  BY DEF Range
<1>3. Fits(kind, Copy(H))
  BY <1>1, <1>2 DEF Fits, Roles
<1>4. \A home \in Homes : kind \notin HomeKinds(home)
  BY DEF Homes, HomeKinds
<1> QED
  BY <1>1, <1>2, <1>3, <1>4 DEF Sound, Pooled

\* The factors of an abstract operand are such heads.
LEMMA FactorsAreHeads ==
  ASSUME HInv, NEW x \in Abstract
  PROVE  x \in listed /\ Heads(x) \subseteq DOMAIN things /\ \A h \in Heads(x) : Kind(h) = "head"
<1>1. x \in listed /\ x \in DOMAIN things /\ Kind(x) \in {"monomial", "expression"}
  BY OperandIsThere DEF Abstract
<1> QED
  BY <1>1, HeldIsThere DEF Heads, Holds, HInv, Shaped, Fits

\* A basis holds its space.
LEMMA BasisIsSound ==
  ASSUME HInv, NEW s \in OperandsOf("space")
  PROVE  Sound("basis", Thing([space |-> s]), {s})
<1>1. Range([space |-> s]) = {s}
  BY DEF Range
<1>2. s \in DOMAIN things /\ Pooled(s) /\ s \in listed
  BY OperandIsThere DEF Pooled
<1>3. Fits("basis", Thing([space |-> s]))
  BY ThingIsThing DEF Fits, Roles
<1>4. \A home \in Homes : "basis" \notin HomeKinds(home)
  BY DEF Homes, HomeKinds
<1> QED
  BY <1>1, <1>2, <1>3, <1>4, ThingIsThing DEF Sound

\* A component tensor holds its head and a basis of the head's space.
LEMMA ComponentTensorIsSound ==
  ASSUME HInv, NEW O \in SUBSET listed, NEW h, NEW b, Backed(h, O), Backed(b, O),
         Of(b).space = Of(h).space
  PROVE  Sound("componentTensor", ComponentTensorOf(h, b), O)
<1>1. Range([head |-> h, basis |-> b]) = {h, b}
  BY DEF Range
<1>2. Fits("componentTensor", Thing([head |-> h, basis |-> b]))
  BY ThingIsThing DEF Fits, Roles
<1>3. \A home \in Homes : "componentTensor" \notin HomeKinds(home)
  BY DEF Homes, HomeKinds
<1> QED
  BY <1>1, <1>2, <1>3, ThingIsThing DEF Sound, ComponentTensorOf, Backed

\* A map, or a transition between bases of one space, holds both ends.
LEMMA MapIsSound ==
  ASSUME HInv, NEW kind \in {"map", "transition"}, NEW a \in OperandsOf("basis"), NEW b \in OperandsOf("basis"),
         kind = "transition" => Of(a).space = Of(b).space
  PROVE  Sound(kind, Thing([source |-> a, target |-> b]), {a, b})
<1>1. Range([source |-> a, target |-> b]) = {a, b}
  BY DEF Range
<1>2. {a, b} \in SUBSET listed
  BY OperandIsThere
<1>3. Backed(a, {a, b}) /\ Backed(b, {a, b})
  BY <1>2, EntriesAreBacked
<1>4. Fits(kind, Thing([source |-> a, target |-> b]))
  BY ThingIsThing DEF Fits, Roles
<1>5. \A home \in Homes : kind \notin HomeKinds(home)
  BY DEF Homes, HomeKinds
<1> QED
  BY <1>1, <1>2, <1>3, <1>4, <1>5, ThingIsThing DEF Sound, Backed

\* An atlas holds its charts, which are of one space.
LEMMA AtlasIsSound ==
  ASSUME HInv, NEW charts \in SUBSET OperandsOf("basis"),
         \A a, b \in charts : Of(a).space = Of(b).space
  PROVE  Sound("atlas", [Thing(<<>>) EXCEPT !.all = charts], charts)
<1> PICK x : x = [Thing(<<>>) EXCEPT !.all = charts]
  OBVIOUS
<1>1. /\ IsThing(x) /\ x.of = <<>> /\ x.all = charts /\ x.deps = {}
      /\ x.owner = Nothing /\ x.links = {}
  BY DEF Thing, IsThing
<1>2. DOMAIN <<>> = {} /\ Range(<<>>) = {}
  BY DEF Range
<1>3. charts \in SUBSET listed
  BY OperandIsThere
<1>4. \A h \in charts : Backed(h, charts)
  BY <1>3, EntriesAreBacked
<1>5. Fits("atlas", x)
  BY <1>1, <1>2 DEF Fits, Roles
<1>6. \A home \in Homes : "atlas" \notin HomeKinds(home)
  BY DEF Homes, HomeKinds
<1> QED
  BY <1>1, <1>2, <1>3, <1>4, <1>5, <1>6 DEF Sound, Backed

\* A form is what its manifold and the manifold's chart make it.
LEMMA FormIsThing ==
  ASSUME NEW m, NEW degree
  PROVE  /\ IsThing(FormOn(m, degree)) /\ FormOn(m, degree).all = {} /\ FormOn(m, degree).deps = {}
         /\ FormOn(m, degree).of = [manifold |-> m, chart |-> Of(m).chart]
         /\ FormOn(m, degree).owner = Nothing /\ FormOn(m, degree).links = {}
<1> PICK x : x = [Thing([manifold |-> m, chart |-> Of(m).chart]) EXCEPT !.degree = degree]
  OBVIOUS
<1>1. /\ IsThing(x) /\ x.all = {} /\ x.deps = {} /\ x.of = [manifold |-> m, chart |-> Of(m).chart]
      /\ x.owner = Nothing /\ x.links = {}
  BY DEF Thing, IsThing
<1> QED
  BY <1>1 DEF FormOn

\* A form holds a manifold that is backed and its chart; its operands live on
\* that chart.
LEMMA FormIsSound ==
  ASSUME HInv, NEW O \in SUBSET listed, NEW m, NEW degree,
         Kind(m) = "manifold", Backed(m, O), Backed(Of(m).chart, O),
         \A o \in O : /\ Kind(o) \in HomeKinds("chart")
                      /\ LivesOn(o, "chart") => Home(o, "chart") = Of(m).chart
  PROVE  Sound("form", FormOn(m, degree), O)
<1> PICK x : x = FormOn(m, degree)
  OBVIOUS
<1>1. /\ IsThing(x) /\ x.of = [manifold |-> m, chart |-> Of(m).chart] /\ x.all = {}
      /\ x.deps = {} /\ x.owner = Nothing
  BY FormIsThing
<1>2. Range(x.of) = {m, Of(m).chart}
  BY <1>1 DEF Range
<1>3. Fits("form", x)
  BY <1>1 DEF Fits, Roles
<1>4. "form" \notin HomeKinds("algebra")
  BY DEF HomeKinds
<1> QED
  BY <1>1, <1>2, <1>3, <1>4 DEF Sound, Backed, Homes

\* The manifold of an operand that has one, with its chart.
LEMMA ManifoldIsBacked ==
  ASSUME HInv, NEW O \in SUBSET listed, NEW x \in O, Kind(x) \in {"form", "lieForm"}
  PROVE  /\ Kind(Of(x).manifold) = "manifold" /\ Of(x).chart = Of(Of(x).manifold).chart
         /\ Backed(Of(x).manifold, O) /\ Backed(Of(x).chart, O)
<1>1. x \in DOMAIN things
  BY DEF HInv, HeapIsKept
<1>2. Of(x).manifold \in Holds(x) /\ Of(x).chart \in Holds(x)
  BY <1>1, RoleIsHeld DEF Roles
<1>3. Kind(Of(x).manifold) = "manifold" /\ Of(x).chart = Of(Of(x).manifold).chart
  BY <1>1 DEF HInv, Shaped, Fits, Of
<1> QED
  BY <1>2, <1>3, Reached

\* The same of a manifold.
LEMMA ChartIsBacked ==
  ASSUME HInv, NEW O \in SUBSET listed, NEW x \in O,
         Kind(x) \in {"manifold", "form", "lieForm", "tensor", "curvature"}
  PROVE  Backed(x, O) /\ Backed(Of(x).chart, O)
<1>1. x \in DOMAIN things
  BY DEF HInv, HeapIsKept
<1>2. Of(x).chart \in Holds(x)
  BY <1>1, RoleIsHeld DEF Roles
<1> QED
  BY <1>2, Reached

\* A tensor holds a chart, which its operands live on.
LEMMA TensorIsSound ==
  ASSUME HInv, NEW O \in SUBSET listed, NEW x \in O,
         \A o \in O : /\ Kind(o) \in {"manifold", "tensor", "curvature"}
                      /\ Of(o).chart = Of(x).chart
  PROVE  Sound("tensor", TensorOn(x), O)
<1> PICK c : c = Of(x).chart
  OBVIOUS
<1>1. Range([chart |-> c]) = {c} /\ DOMAIN [chart |-> c] = {"chart"}
  BY DEF Range
<1>2. Fits("tensor", Thing([chart |-> c]))
  BY <1>1, ThingIsThing DEF Fits, Roles
<1>3. Backed(c, O)
  BY ChartIsBacked
<1>4. "tensor" \notin HomeKinds("algebra") /\ {"manifold", "tensor", "curvature"} \subseteq HomeKinds("chart")
  BY DEF HomeKinds
<1>5. \A o \in O : Home(o, "chart") = c
  BY WhereItLives DEF HInv, HeapIsKept
<1>6. Sound("tensor", Thing([chart |-> c]), O)
  BY <1>1, <1>2, <1>3, <1>4, <1>5, ThingIsThing DEF Sound, Backed, Homes
<1> QED
  BY <1>6 DEF TensorOn

\* An element holds its algebra, which its operands are elements of.
LEMMA ElementIsSound ==
  ASSUME HInv, NEW O \in SUBSET listed, NEW a, Backed(a, O),
         \A o \in O : \/ Kind(o) = "algebra" /\ o = a
                      \/ Kind(o) = "element" /\ Of(o).algebra = a
  PROVE  Sound("element", Thing([algebra |-> a]), O)
<1>1. Range([algebra |-> a]) = {a} /\ DOMAIN [algebra |-> a] = {"algebra"}
  BY DEF Range
<1>2. Fits("element", Thing([algebra |-> a]))
  BY <1>1, ThingIsThing DEF Fits, Roles
<1>3. "element" \notin HomeKinds("chart") /\ {"algebra", "element"} \subseteq HomeKinds("algebra")
  BY DEF HomeKinds
<1>4. \A o \in O : Home(o, "algebra") = a
  BY WhereItLives DEF HInv, HeapIsKept
<1> QED
  BY <1>1, <1>2, <1>3, <1>4, ThingIsThing DEF Sound, Backed, Homes

-----------------------------------------------------------------------------
(* Results of several things *)

\* A thing with a part of its own, laid out.
LEMMA PairIsPlaced ==
  ASSUME HInv, NEW r, NEW p, NEW x, NEW y, NEW O \in SUBSET listed,
         r # p, r # Nothing, ~Pooled(p), r \notin DOMAIN things, p \notin DOMAIN things,
         IsThing(x), x.owner = Nothing, IsThing(y), y.deps = {},
         Publish(WithPart(r, x, p, y), r, O)
  PROVE  /\ DOMAIN things' = DOMAIN things \cup {r, p}
         /\ \A t \in DOMAIN things : things'[t] = things[t]
         /\ IsThing(things[r])' /\ IsThing(things[p])'
         /\ Of(r)' = x.of /\ Of(p)' = y.of
         /\ things'[r].all = x.all /\ things'[p].all = y.all
         /\ things'[r].links = x.links /\ things'[p].links = y.links
         /\ things'[r].deps = O /\ things'[p].deps = {}
         /\ things'[r].owner = Nothing /\ things'[p].owner = r
         /\ listed' = listed \cup {r} /\ results' = results \cup {r} /\ named' = named
<1> PICK z : z = [y EXCEPT !.owner = r]
  OBVIOUS
<1>1. /\ IsThing(z) /\ z.of = y.of /\ z.all = y.all /\ z.links = y.links /\ z.deps = {} /\ z.owner = r
  BY DEF IsThing
<1> PICK made : made = WithPart(r, x, p, y)
  OBVIOUS
<1>2. /\ DOMAIN made = {r, p} /\ made[r] = x /\ made[p] = z /\ made = [u \in DOMAIN made |-> made[u]]
  BY DEF WithPart
<1>3. /\ DOMAIN things' = DOMAIN things \cup {r, p}
      /\ \A t \in DOMAIN things : things'[t] = things[t]
      /\ things'[p] = z
      /\ things'[r] = [of |-> x.of, all |-> x.all, deps |-> O, owner |-> x.owner,
                       degree |-> x.degree, links |-> x.links]
      /\ listed' = listed \cup {r} /\ results' = results \cup {r} /\ named' = named
  BY <1>1, <1>2, Placed, SMTT(30)
<1> QED
  BY <1>1, <1>3 DEF IsThing, Of

\* A thing with a part of its own, published.
LEMMA Pair ==
  ASSUME HInv, NEW r, NEW p, NEW x, NEW y, NEW O \in SUBSET listed,
         r # p, r # Nothing, ~Pooled(r), ~Pooled(p), r \notin DOMAIN things, p \notin DOMAIN things,
         IsThing(x), x.owner = Nothing, IsThing(y), y.deps = {},
         Publish(WithPart(r, x, p, y), r, O),
         Kind(r) \notin {"grView", "qftView"},
         Fits(Kind(r), x), Fits(Kind(p), y),
         \A h \in Range(x.of) \cup x.all : Backed(h, O) \/ (Kind(r) = "group" /\ h = p),
         \A h \in Range(y.of) \cup y.all : Backed(h, O),
         Kind(r) = "group" => x.of.algebra = p,
         \/ Kind(r) = "group" /\ Kind(p) = "algebra"
         \/ Kind(r) = "lieForm" /\ Kind(p) = "form" /\ y.of.chart = x.of.chart
         \/ Kind(r) = "curvature" /\ Kind(p) = "tensor" /\ y.of.chart = x.of.chart,
         \A home \in Homes, o \in O : Kind(r) \in HomeKinds(home) =>
            /\ Kind(o) \in HomeKinds(home)
            /\ LivesOn(o, home) => home \in DOMAIN x.of /\ x.of[home] = Home(o, home)
  PROVE  HInv'
<1>1. /\ DOMAIN things' = DOMAIN things \cup {r, p}
      /\ \A t \in DOMAIN things : things'[t] = things[t]
      /\ IsThing(things[r])' /\ IsThing(things[p])'
      /\ Of(r)' = x.of /\ Of(p)' = y.of
      /\ things'[r].all = x.all /\ things'[p].all = y.all
      /\ things'[r].links = x.links /\ things'[p].links = y.links
      /\ things'[r].deps = O /\ things'[p].deps = {}
      /\ things'[r].owner = Nothing /\ things'[p].owner = r
      /\ listed' = listed \cup {r} /\ results' = results \cup {r} /\ named' = named
  BY PairIsPlaced
<1>2. Fits(Kind(p), y)'
  <2>1. \A u \in Range(y.of) \cup y.all : u \in DOMAIN things /\ things'[u].of = things[u].of
    BY <1>1 DEF Backed
  <2> QED BY <2>1, FitsStill
<1>3. Fits(Kind(r), x)'
  <2>1. CASE Kind(r) = "group"
    BY <2>1 DEF Fits
  <2>2. CASE Kind(r) # "group"
    <3>1. \A u \in Range(x.of) \cup x.all : u \in DOMAIN things /\ things'[u].of = things[u].of
      BY <1>1, <2>2 DEF Backed
    <3> QED BY <3>1, FitsStill
  <2> QED BY <2>1, <2>2
<1>4. NewThing(r, r, O, {})'
  <2>1. Fits(Kind(r), things[r])'
    BY <1>1, <1>3 DEF Fits, Of
  <2>2. Owns(r)' /\ IsPart(r)'
    BY <1>1 DEF Owns, IsPart
  <2> QED BY <1>1, <2>1, <2>2 DEF NewThing
<1>5. NewThing(p, r, O, {})'
  <2>1. Fits(Kind(p), things[p])'
    BY <1>1, <1>2 DEF Fits, Of
  <2>2. Owns(p)' /\ IsPart(p)'
    BY <1>1 DEF Owns, IsPart
  <2> QED BY <1>1, <2>1, <2>2 DEF NewThing
<1>6. \A t \in {r, p} : \A h \in Holds(t)' : ~Pooled(t) /\ (h \in {r, p} \/ Backed(h, O))
  BY <1>1 DEF Holds
<1>7. \A home \in Homes, o \in O : Kind(r) \in HomeKinds(home) =>
          Kind(o) \in HomeKinds(home) /\ AtHome(o, r, home)'
  <2> SUFFICES ASSUME NEW home \in Homes, NEW o \in O, Kind(r) \in HomeKinds(home)
               PROVE  Kind(o) \in HomeKinds(home) /\ AtHome(o, r, home)'
    OBVIOUS
  <2>1. o \in DOMAIN things
    BY DEF HInv, HeapIsKept
  <2>2. LivesOn(o, home)' = LivesOn(o, home) /\ Home(o, home)' = Home(o, home)
    BY <2>1, <1>1, HomeStays
  <2>3. Kind(r) # home
    BY DEF Homes
  <2> QED BY <1>1, <2>2, <2>3 DEF LivesOn, Home, AtHome
<1>8. IsFiniteSet({r, p})
  <2>1. IsFiniteSet({p}) /\ {p} \cup {r} = {r, p}
    BY FS_Singleton
  <2> QED BY <2>1, FS_AddElement
<1>9. {r, p} \cap DOMAIN things = {} /\ r \in {r, p}
  OBVIOUS
<1> DEFINE M == {r, p}
<1> DEFINE B == {}
<1>10. B \in SUBSET (M \ {r}) /\ listed' = listed \cup B \cup {r}
  BY <1>1
<1>11. \A t \in M : NewThing(t, r, O, B)'
  BY <1>4, <1>5
<1>12. r \in M /\ IsFiniteSet(M) /\ M \cap DOMAIN things = {} /\ DOMAIN things' = DOMAIN things \cup M
  BY <1>1, <1>8, <1>9
<1>13. \A t \in M : \A h \in Holds(t)' :
         \/ Pooled(h) /\ h \in DOMAIN things \cup M
         \/ ~Pooled(t) /\ (h \in M \/ Backed(h, O))
  BY <1>6
<1>14. \A home \in Homes, b \in B : Kind(r) \in HomeKinds(home) => AtHome(b, r, home)'
  OBVIOUS
<1>15. /\ \A t \in DOMAIN things : things'[t] = things[t]
       /\ named' = named /\ results' = results \cup {r}
  BY <1>1
<1> HIDE DEF M, B
<1> QED
  BY <1>7, <1>10, <1>11, <1>12, <1>13, <1>14, <1>15, Grown

\* LieGroup: a group with the algebra it owns.
LEMMA GroupIsKept ==
  ASSUME HInv, LieGroup
  PROVE  HInv'
<1> PICK g : g = Fresh("group")
  OBVIOUS
<1> PICK a : a = Fresh("algebra")
  OBVIOUS
<1> PICK x : x = Thing([algebra |-> a])
  OBVIOUS
<1> PICK y : y = Thing(<<>>)
  OBVIOUS
<1>1. Room({"group", "algebra"}) /\ Publish(WithPart(g, x, a, y), g, {})
  BY DEF LieGroup
<1>2. g \notin DOMAIN things /\ a \notin DOMAIN things /\ Kind(g) = "group" /\ Kind(a) = "algebra"
  BY <1>1, FreshIsNew
<1>3. g # a /\ g # Nothing /\ ~Pooled(g) /\ ~Pooled(a) /\ Kind(g) \notin {"grView", "qftView"}
  BY <1>2 DEF Kind, Nothing, Pooled
<1>4. /\ IsThing(x) /\ x.of = [algebra |-> a] /\ x.all = {} /\ x.owner = Nothing
      /\ IsThing(y) /\ y.of = <<>> /\ y.all = {} /\ y.deps = {}
  BY ThingIsThing
<1>5. Range(x.of) = {a} /\ DOMAIN x.of = {"algebra"} /\ Range(y.of) = {} /\ DOMAIN y.of = {}
  BY <1>4 DEF Range
<1>6. Fits(Kind(g), x) /\ Fits(Kind(a), y)
  BY <1>2, <1>4, <1>5 DEF Fits, Roles
<1>7. {} \in SUBSET listed /\ x.of.algebra = a
  BY <1>4
<1>8. \A h \in Range(x.of) \cup x.all : Kind(g) = "group" /\ h = a
  BY <1>2, <1>4, <1>5
<1>9. Range(y.of) \cup y.all = {}
  BY <1>4, <1>5
<1> QED
  BY <1>1, <1>2, <1>3, <1>4, <1>6, <1>7, <1>8, <1>9, Pair

\* A Lie form of an algebra and a manifold, with the forms of its colours: what
\* it is made of lives with both.
LEMMA LieFormIsKept ==
  ASSUME HInv, NEW algebra, NEW m, NEW degree, NEW O \in SUBSET listed,
         Kind(m) = "manifold", Backed(m, O), Backed(Of(m).chart, O), Backed(algebra, O),
         \A o \in O : /\ Kind(o) \in {"algebra", "manifold", "lieForm"}
                      /\ LivesOn(o, "chart") => Home(o, "chart") = Of(m).chart
                      /\ LivesOn(o, "algebra") => Home(o, "algebra") = algebra,
         PublishLieForm(algebra, m, degree, O)
  PROVE  HInv'
<1> PICK f : f = Fresh("lieForm")
  OBVIOUS
<1> PICK p : p = Fresh("form")
  OBVIOUS
<1> PICK x : x = LieFormOf(algebra, m, degree)
  OBVIOUS
<1> PICK y : y = FormOn(m, degree)
  OBVIOUS
<1> PICK c : c = Of(m).chart
  OBVIOUS
<1>1. Room({"lieForm", "form"}) /\ Publish(WithPart(f, x, p, y), f, O)
  BY DEF PublishLieForm
<1>2. f \notin DOMAIN things /\ p \notin DOMAIN things /\ Kind(f) = "lieForm" /\ Kind(p) = "form"
  BY <1>1, FreshIsNew
<1>3. f # p /\ f # Nothing /\ ~Pooled(f) /\ ~Pooled(p) /\ Kind(f) \notin {"grView", "qftView", "group"}
  BY <1>2 DEF Kind, Nothing, Pooled
<1>4. /\ IsThing(y) /\ y.of = [manifold |-> m, chart |-> c] /\ y.all = {} /\ y.deps = {}
  BY FormIsThing
<1>5. /\ IsThing(x) /\ x.of = [algebra |-> algebra, manifold |-> m, chart |-> c]
      /\ x.all = {} /\ x.owner = Nothing
  BY DEF LieFormOf, Thing, IsThing
<1>6. /\ Range(x.of) = {algebra, m, c} /\ DOMAIN x.of = {"algebra", "manifold", "chart"}
      /\ Range(y.of) = {m, c} /\ DOMAIN y.of = {"manifold", "chart"}
  BY <1>4, <1>5 DEF Range
<1>7. Fits(Kind(f), x) /\ Fits(Kind(p), y)
  BY <1>2, <1>4, <1>5, <1>6 DEF Fits, Roles
<1>8. y.of.chart = x.of.chart
  BY <1>4, <1>5
<1>9. /\ \A h \in Range(x.of) \cup x.all : Backed(h, O)
      /\ \A h \in Range(y.of) \cup y.all : Backed(h, O)
  BY <1>4, <1>5, <1>6
<1>10. \A home \in Homes, o \in O : /\ Kind(o) \in HomeKinds(home)
                                    /\ LivesOn(o, home) => home \in DOMAIN x.of /\ x.of[home] = Home(o, home)
  BY <1>5, <1>6 DEF Homes, HomeKinds
<1> QED
  BY <1>1, <1>2, <1>3, <1>4, <1>5, <1>7, <1>8, <1>9, <1>10, Pair

\* Curvature: a bundle holds its metric, and owns the tensors it computes.
LEMMA BundleIsKept ==
  ASSUME HInv, NEW O \in SUBSET listed, NEW g \in O, \A o \in O : Kind(o) = "tensor" /\ o = g,
         NEW r, NEW p, r = Fresh("curvature"), p = Fresh("tensor"), Room({"curvature", "tensor"}),
         Publish(WithPart(r, Thing([metric |-> g, chart |-> Of(g).chart]), p, TensorOn(g)), r, O)
  PROVE  HInv'
<1> PICK c : c = Of(g).chart
  OBVIOUS
<1> PICK x : x = Thing([metric |-> g, chart |-> c])
  OBVIOUS
<1> PICK y : y = Thing([chart |-> c])
  OBVIOUS
<1>1. Publish(WithPart(r, x, p, y), r, O)
  BY DEF TensorOn
<1>2. r \notin DOMAIN things /\ p \notin DOMAIN things /\ Kind(r) = "curvature" /\ Kind(p) = "tensor"
  BY FreshIsNew
<1>3. r # p /\ r # Nothing /\ ~Pooled(r) /\ ~Pooled(p) /\ Kind(r) \notin {"grView", "qftView", "group"}
  BY <1>2 DEF Kind, Nothing, Pooled
<1>4. /\ IsThing(x) /\ x.of = [metric |-> g, chart |-> c] /\ x.all = {} /\ x.owner = Nothing
      /\ IsThing(y) /\ y.of = [chart |-> c] /\ y.all = {} /\ y.deps = {}
  BY ThingIsThing
<1>5. /\ Range(x.of) = {g, c} /\ DOMAIN x.of = {"metric", "chart"}
      /\ Range(y.of) = {c} /\ DOMAIN y.of = {"chart"}
  BY <1>4 DEF Range
<1>6. Fits(Kind(r), x) /\ Fits(Kind(p), y)
  BY <1>2, <1>4, <1>5 DEF Fits, Roles
<1>7. Kind(r) = "curvature" /\ Kind(p) = "tensor" /\ y.of.chart = x.of.chart
  BY <1>2, <1>4
<1>8. g \in DOMAIN things /\ Backed(g, O) /\ Backed(c, O)
  BY ChartIsBacked DEF HInv, HeapIsKept
<1>9. /\ \A h \in Range(x.of) \cup x.all : Backed(h, O)
      /\ \A h \in Range(y.of) \cup y.all : Backed(h, O)
  BY <1>4, <1>5, <1>8
<1>10. Home(g, "chart") = c
  BY <1>8, WhereItLives
<1>11. \A home \in Homes, o \in O : Kind(r) \in HomeKinds(home) =>
          /\ Kind(o) \in HomeKinds(home)
          /\ LivesOn(o, home) => home \in DOMAIN x.of /\ x.of[home] = Home(o, home)
  BY <1>2, <1>4, <1>5, <1>10 DEF Homes, HomeKinds
<1> QED
  BY <1>1, <1>2, <1>3, <1>4, <1>6, <1>7, <1>9, <1>11, Pair

\* Curvature[g]: the bundle of one metric.
LEMMA CurvatureIsKept ==
  ASSUME HInv, Curvature
  PROVE  HInv'
<1>1. PICK g \in OperandsOf("tensor") :
        Publish(WithPart(Fresh("curvature"), Thing([metric |-> g, chart |-> Of(g).chart]),
                         Fresh("tensor"), TensorOn(g)), Fresh("curvature"), {g})
  BY DEF Curvature
<1>2. Room({"curvature", "tensor"})
  BY DEF Curvature
<1>3. g \in listed /\ Kind(g) = "tensor"
  BY OperandIsThere
<1> QED
  BY <1>1, <1>2, <1>3, BundleIsKept

\* What a form or Lie form becomes lives where it lives.
LEMMA DerivedIsKept ==
  ASSUME HInv, NEW O \in SUBSET listed, NEW x \in O, Kind(x) \in {"form", "lieForm"},
         \A o \in O : Kind(o) = Kind(x) /\ Of(o) = Of(x), NEW degree, Derived(x, degree, O)
  PROVE  HInv'
<1>1. /\ Kind(Of(x).manifold) = "manifold" /\ Of(x).chart = Of(Of(x).manifold).chart
      /\ Backed(Of(x).manifold, O) /\ Backed(Of(x).chart, O)
  BY ManifoldIsBacked
<1>2. \A o \in O : o \in DOMAIN things /\ Home(o, "chart") = Of(x).chart
  BY WhereItLives DEF HInv, HeapIsKept
<1>3. CASE Kind(x) = "form"
  <2>1. PublishOne("form", FormOn(Of(x).manifold, degree), O)
    BY <1>3 DEF Derived
  <2>2. \A o \in O : /\ Kind(o) \in HomeKinds("chart")
                     /\ LivesOn(o, "chart") => Home(o, "chart") = Of(Of(x).manifold).chart
    BY <1>1, <1>2, <1>3 DEF HomeKinds
  <2>3. Backed(Of(Of(x).manifold).chart, O)
    BY <1>1
  <2>4. Sound("form", FormOn(Of(x).manifold, degree), O)
    BY <1>1, <2>2, <2>3, FormIsSound
  <2> QED BY <2>1, <2>4, One
<1>4. CASE Kind(x) = "lieForm"
  <2>1. PublishLieForm(Of(x).algebra, Of(x).manifold, degree, O)
    BY <1>4 DEF Derived
  <2>2. Of(x).algebra \in Holds(x)
    BY <1>2, <1>4, RoleIsHeld DEF Roles
  <2>3. Backed(Of(x).algebra, O)
    BY <2>2, Reached
  <2>4. \A o \in O : Home(o, "algebra") = Of(x).algebra
    BY <1>2, <1>4, WhereItLives
  <2> PICK m : m = Of(x).manifold
    OBVIOUS
  <2> PICK a : a = Of(x).algebra
    OBVIOUS
  <2>5. \A o \in O : /\ Kind(o) \in {"algebra", "manifold", "lieForm"}
                     /\ LivesOn(o, "chart") => Home(o, "chart") = Of(m).chart
                     /\ LivesOn(o, "algebra") => Home(o, "algebra") = a
    BY <1>1, <1>2, <1>4, <2>4
  <2>6. Kind(m) = "manifold" /\ Backed(m, O) /\ Backed(Of(m).chart, O) /\ Backed(a, O)
    BY <1>1, <2>3
  <2>7. PublishLieForm(a, m, degree, O)
    BY <2>1
  <2> QED BY <2>5, <2>6, <2>7, LieFormIsKept
<1> QED
  BY <1>3, <1>4

\* The things of a view: made is what View makes of them.
IsView(made, v, s, h, b, t) ==
    /\ Kind(v) \in {"grView", "qftView"} /\ Kind(s) = "space" /\ Kind(h) = "head"
    /\ Kind(b) = "basis" /\ Kind(t) = "componentTensor"
    /\ {v, s, h, b, t} \cap DOMAIN things = {}
    /\ DOMAIN made = {v, s, h, b, t} /\ made = [u \in DOMAIN made |-> made[u]]
    /\ made[s] = Thing(<<>>) /\ made[h] = Thing([space |-> s])
    /\ IsThing(made[b]) /\ made[b].of = [space |-> s] /\ made[b].all = {} /\ made[b].deps = {}
    /\ made[b].owner = v
    /\ IsThing(made[t]) /\ made[t].of = [head |-> h, basis |-> b] /\ made[t].all = {} /\ made[t].deps = {}
    /\ made[t].owner = v
    /\ IsThing(made[v]) /\ made[v].of = [space |-> s, head |-> h, basis |-> b, tensor |-> t]
    /\ made[v].all = {} /\ made[v].deps = {} /\ made[v].owner = Nothing

\* They are published: the view owns what it does not put in the pool.
LEMMA ViewIsGrown ==
  ASSUME HInv, NEW O \in SUBSET listed, NEW v, NEW s, NEW h, NEW b, NEW t, NEW made,
         IsView(made, v, s, h, b, t), Publish(made, v, O)
  PROVE  HInv'
<1> DEFINE M == {v, s, h, b, t}
<1>1. /\ v \notin DOMAIN things /\ Kind(v) \in {"grView", "qftView"}
      /\ s \notin DOMAIN things /\ Kind(s) = "space"
      /\ h \notin DOMAIN things /\ Kind(h) = "head"
      /\ b \notin DOMAIN things /\ Kind(b) = "basis"
      /\ t \notin DOMAIN things /\ Kind(t) = "componentTensor"
  BY DEF IsView
<1>2. /\ v # s /\ v # h /\ v # b /\ v # t /\ s # h /\ s # b /\ s # t /\ h # b /\ h # t /\ b # t
      /\ v # Nothing
      /\ Pooled(s) /\ Pooled(h) /\ ~Pooled(v) /\ ~Pooled(b) /\ ~Pooled(t)
  BY <1>1 DEF Pooled, Nothing, Kind
<1> PICK xv : xv = made[v]
  OBVIOUS
<1> PICK xb : xb = made[b]
  OBVIOUS
<1> PICK xt : xt = made[t]
  OBVIOUS
<1>3. /\ IsThing(xb) /\ xb.of = [space |-> s] /\ xb.all = {} /\ xb.deps = {} /\ xb.owner = v
      /\ IsThing(xt) /\ xt.of = [head |-> h, basis |-> b] /\ xt.all = {} /\ xt.deps = {} /\ xt.owner = v
  BY DEF IsView
<1>4. /\ IsThing(xv) /\ xv.of = [space |-> s, head |-> h, basis |-> b, tensor |-> t] /\ xv.all = {}
      /\ xv.deps = {} /\ xv.owner = Nothing
  BY DEF IsView
<1>5. /\ DOMAIN made = M /\ made = [u \in DOMAIN made |-> made[u]]
      /\ made[v] = xv /\ made[s] = Thing(<<>>) /\ made[h] = Thing([space |-> s])
      /\ made[b] = xb /\ made[t] = xt
  BY DEF IsView
<1>6. \A u \in M : IsThing(made[u])
  BY <1>3, <1>4, <1>5, ThingIsThing
<1>7. /\ DOMAIN things' = DOMAIN things \cup M
      /\ \A u \in DOMAIN things : things'[u] = things[u]
      /\ \A u \in M \ {v} : things'[u] = made[u]
      /\ things'[v] = [of |-> xv.of, all |-> xv.all, deps |-> O, owner |-> xv.owner,
                       degree |-> xv.degree, links |-> xv.links]
      /\ listed' = listed \cup {v} /\ results' = results \cup {v} /\ named' = named
  <2>1. Publish(made, v, O) /\ v \in DOMAIN made /\ DOMAIN made \cap DOMAIN things = {}
    BY <1>1, <1>5
  <2>2. \A u \in DOMAIN made : IsThing(made[u])
    BY <1>5, <1>6
  <2>3. /\ DOMAIN things' = DOMAIN things \cup DOMAIN made
        /\ \A u \in DOMAIN things : things'[u] = things[u]
        /\ \A u \in DOMAIN made \ {v} : things'[u] = made[u]
        /\ things'[v] = [of |-> made[v].of, all |-> made[v].all, deps |-> O, owner |-> made[v].owner,
                         degree |-> made[v].degree, links |-> made[v].links]
        /\ listed' = listed \cup {v} /\ results' = results \cup {v} /\ named' = named
    <3>1. made = [u \in DOMAIN made |-> made[u]]
      BY <1>5
    <3> HIDE DEF M
    <3> QED BY <3>1, <2>1, <2>2, Placed
  <2> QED BY <1>5, <2>3
<1>8. /\ Of(v)' = xv.of /\ Of(s)' = <<>> /\ Of(h)' = [space |-> s] /\ Of(b)' = [space |-> s]
      /\ Of(t)' = [head |-> h, basis |-> b]
      /\ \A u \in M : things'[u].all = {}
      /\ \A u \in M \ {v} : things'[u].deps = {}
      /\ things'[v].deps = O /\ things'[v].owner = Nothing
      /\ things'[s].owner = Nothing /\ things'[h].owner = Nothing
      /\ things'[b].owner = v /\ things'[t].owner = v
      /\ \A u \in M : IsThing(things[u])'
  BY <1>2, <1>3, <1>4, <1>5, <1>6, <1>7, ThingIsThing DEF Of, IsThing
<1>9. /\ Range(Of(v)') = {s, h, b, t} /\ DOMAIN Of(v)' = {"space", "head", "basis", "tensor"}
       /\ Range(Of(s)') = {} /\ DOMAIN Of(s)' = {}
       /\ Range(Of(h)') = {s} /\ Range(Of(b)') = {s} /\ Range(Of(t)') = {h, b}
       /\ DOMAIN Of(h)' = {"space"} /\ DOMAIN Of(b)' = {"space"} /\ DOMAIN Of(t)' = {"head", "basis"}
  BY <1>4, <1>8 DEF Range
<1>10. \A u \in M : Fits(Kind(u), things[u])'
  <2>1. /\ DOMAIN Of(v)' = Roles(Kind(v)) /\ DOMAIN Of(s)' = Roles(Kind(s)) /\ DOMAIN Of(h)' = Roles(Kind(h))
        /\ DOMAIN Of(b)' = Roles(Kind(b)) /\ DOMAIN Of(t)' = Roles(Kind(t))
    BY <1>1, <1>9 DEF Roles
  <2>2. \A u \in M : DOMAIN (things'[u].of) = Roles(Kind(u))
    BY <2>1 DEF Of
  <2>3. (Of(Of(t).basis).space = Of(Of(t).head).space)'
    BY <1>8
  <2>4. \A u \in M : Kind(u) \notin {"monomial", "expression", "atlas", "transition", "form", "lieForm"}
    BY <1>1
  <2>5. \A u \in M : Kind(u) = "componentTensor" => u = t
    BY <1>1
  <2> QED BY <1>8, <2>2, <2>3, <2>4, <2>5 DEF Fits, Of
<1>11. \A u \in M : Owns(u)' /\ IsPart(u)'
  <2>1. \A u \in M : Kind(u) # "group" /\ (Kind(u) \in {"grView", "qftView"} => u = v)
    BY <1>1
  <2>2. \A p \in Range(Of(v)') : Kind(p) \in ViewKinds /\ (Pooled(p) \/ things'[p].owner = v)
    BY <1>1, <1>2, <1>8, <1>9 DEF ViewKinds
  <2>3. \A u \in M : things'[u].owner # Nothing => Kind(u) \in {"basis", "componentTensor"}
    BY <1>1, <1>8
  <2> QED BY <2>1, <2>2, <2>3 DEF Owns, IsPart
<1> DEFINE B == {}
<1>12. \A u \in M : NewThing(u, v, O, B)'
  BY <1>2, <1>8, <1>10, <1>11 DEF NewThing
<1>13. \A u \in M : \A k \in Holds(u)' :
          \/ Pooled(k) /\ k \in DOMAIN things \cup M
          \/ ~Pooled(u) /\ (k \in M \/ Backed(k, O))
  BY <1>2, <1>8, <1>9 DEF Holds
<1>14. \A home \in Homes : Kind(v) \notin HomeKinds(home)
  BY <1>1 DEF Homes, HomeKinds
<1>15. IsFiniteSet(M)
  <2>1. IsFiniteSet({v}) /\ IsFiniteSet({v, s}) /\ IsFiniteSet({v, s, h}) /\ IsFiniteSet({v, s, h, b})
    <3>1. IsFiniteSet({v})
      BY FS_Singleton
    <3>2. IsFiniteSet({v} \cup {s})
      BY <3>1, FS_AddElement
    <3>3. IsFiniteSet({v} \cup {s} \cup {h})
      BY <3>2, FS_AddElement
    <3>4. IsFiniteSet({v} \cup {s} \cup {h} \cup {b})
      BY <3>3, FS_AddElement
    <3>5. {v} \cup {s} = {v, s} /\ {v} \cup {s} \cup {h} = {v, s, h} /\ {v} \cup {s} \cup {h} \cup {b} = {v, s, h, b}
      OBVIOUS
    <3> QED BY <3>1, <3>2, <3>3, <3>4, <3>5
  <2>2. IsFiniteSet({v, s, h, b} \cup {t})
    BY <2>1, FS_AddElement
  <2>3. {v, s, h, b} \cup {t} = M
    OBVIOUS
  <2> QED BY <2>2, <2>3
<1>16. v \in M /\ B \in SUBSET (M \ {v}) /\ M \cap DOMAIN things = {} /\ listed' = listed \cup B \cup {v}
  BY <1>1, <1>7
<1>17. \A home \in Homes, o \in O : Kind(v) \in HomeKinds(home) =>
          Kind(o) \in HomeKinds(home) /\ AtHome(o, v, home)'
  BY <1>14
<1>18. \A home \in Homes, c \in B : Kind(v) \in HomeKinds(home) => AtHome(c, v, home)'
  OBVIOUS
<1>19. /\ DOMAIN things' = DOMAIN things \cup M
       /\ \A u \in DOMAIN things : things'[u] = things[u]
       /\ named' = named /\ results' = results \cup {v}
  BY <1>7
<1>20. v # Nothing
  BY <1>2
<1> HIDE DEF M, B
<1>21. AllIsNew(M, v, O, B)
  BY <1>12, <1>13, <1>15, <1>16, <1>17, <1>18, <1>19, <1>20 DEF AllIsNew
<1> QED
  BY <1>21, GrownBy

\* phy_gr_component_view_create and eval_qft_system.
LEMMA ViewIsKept ==
  ASSUME HInv, NEW kind \in {"grView", "qftView"}, NEW O \in SUBSET listed,
         Room({kind} \cup ViewKinds), Publish(View(kind), Fresh(kind), O)
  PROVE  HInv'
<1> PICK v : v = Fresh(kind)
  OBVIOUS
<1> PICK s : s = Fresh("space")
  OBVIOUS
<1> PICK h : h = Fresh("head")
  OBVIOUS
<1> PICK b : b = Fresh("basis")
  OBVIOUS
<1> PICK t : t = Fresh("componentTensor")
  OBVIOUS
<1>1. /\ v \notin DOMAIN things /\ Kind(v) = kind
      /\ s \notin DOMAIN things /\ Kind(s) = "space"
      /\ h \notin DOMAIN things /\ Kind(h) = "head"
      /\ b \notin DOMAIN things /\ Kind(b) = "basis"
      /\ t \notin DOMAIN things /\ Kind(t) = "componentTensor"
  BY FreshIsNew DEF ViewKinds
<1>2. v # s /\ v # h /\ v # b /\ v # t /\ s # h /\ s # b /\ s # t /\ h # b /\ h # t /\ b # t
  BY <1>1 DEF Kind
<1> DEFINE xb == [Thing([space |-> s]) EXCEPT !.owner = v]
           xt == [Thing([head |-> h, basis |-> b]) EXCEPT !.owner = v]
           xv == Thing([space |-> s, head |-> h, basis |-> b, tensor |-> t])
<1>3. /\ IsThing(xb) /\ xb.of = [space |-> s] /\ xb.all = {} /\ xb.deps = {} /\ xb.owner = v
      /\ IsThing(xt) /\ xt.of = [head |-> h, basis |-> b] /\ xt.all = {} /\ xt.deps = {} /\ xt.owner = v
  <2>1. \A x : x = xb => /\ IsThing(x) /\ x.of = [space |-> s] /\ x.all = {} /\ x.deps = {} /\ x.owner = v
    BY DEF Thing, IsThing
  <2>2. \A x : x = xt => /\ IsThing(x) /\ x.of = [head |-> h, basis |-> b] /\ x.all = {} /\ x.deps = {}
                         /\ x.owner = v
    BY DEF Thing, IsThing
  <2> HIDE DEF xb, xt
  <2> QED BY <2>1, <2>2
<1>4. /\ IsThing(xv) /\ xv.of = [space |-> s, head |-> h, basis |-> b, tensor |-> t] /\ xv.all = {}
      /\ xv.deps = {} /\ xv.owner = Nothing
  BY ThingIsThing
<1> PICK made : made = View(kind)
  OBVIOUS
<1>5. made = [u \in {v, s, h, b, t} |-> CASE u = v -> xv
                                          [] u = s -> Thing(<<>>)
                                          [] u = h -> Thing([space |-> s])
                                          [] u = b -> xb
                                          [] u = t -> xt]
  BY DEF View, ComponentTensorOf
<1> HIDE DEF xb, xt, xv
<1>6. /\ DOMAIN made = {v, s, h, b, t} /\ made = [u \in DOMAIN made |-> made[u]]
      /\ made[v] = xv /\ made[s] = Thing(<<>>) /\ made[h] = Thing([space |-> s])
      /\ made[b] = xb /\ made[t] = xt
  BY <1>2, <1>5
<1>7. IsView(made, v, s, h, b, t)
  BY <1>1, <1>3, <1>4, <1>6 DEF IsView
<1>8. Publish(made, v, O)
  OBVIOUS
<1> QED
  BY <1>7, <1>8, ViewIsGrown

\* Manifold publishes its chart, and the manifold with the chart recorded.
LEMMA ManifoldIsKept ==
  ASSUME HInv, Manifold
  PROVE  HInv'
<1> PICK c : c = Fresh("chart")
  OBVIOUS
<1> PICK m : m = Fresh("manifold")
  OBVIOUS
<1> DEFINE x == [Thing([chart |-> c]) EXCEPT !.deps = {c}]
<1>1. Room({"chart", "manifold"})
  BY DEF Manifold
<1>2. c \notin DOMAIN things /\ m \notin DOMAIN things /\ Kind(c) = "chart" /\ Kind(m) = "manifold"
  BY <1>1, FreshIsNew
<1>3. c # m /\ m # Nothing /\ c # Nothing /\ ~Pooled(c) /\ ~Pooled(m)
  BY <1>2 DEF Kind, Nothing, Pooled
<1>4. IsThing(x) /\ x.of = [chart |-> c] /\ x.all = {} /\ x.deps = {c} /\ x.owner = Nothing
  <2>1. \A y : y = x => IsThing(y) /\ y.of = [chart |-> c] /\ y.all = {} /\ y.deps = {c} /\ y.owner = Nothing
    BY DEF Thing, IsThing
  <2> HIDE DEF x
  <2> QED BY <2>1
<1> DEFINE made == [u \in {c, m} |-> IF u = c THEN Thing(<<>>) ELSE x]
<1>5. /\ things' = Joined(made) /\ listed' = listed \cup {c, m} /\ results' = results \cup {m}
      /\ named' = named
  BY DEF Manifold
<1> HIDE DEF x
<1>6. DOMAIN made = {c, m} /\ made[c] = Thing(<<>>) /\ made[m] = x
  BY <1>3
<1>7. /\ DOMAIN things' = DOMAIN things \cup {c, m}
      /\ \A t \in DOMAIN things : things'[t] = things[t]
      /\ things'[c] = Thing(<<>>) /\ things'[m] = x
  BY <1>2, <1>5, <1>6 DEF Joined
<1>8. /\ IsThing(things[c])' /\ Of(c)' = <<>> /\ things'[c].all = {} /\ things'[c].deps = {}
      /\ things'[c].owner = Nothing
  BY <1>7, ThingIsThing DEF Of, IsThing
<1>9. /\ DOMAIN Of(c)' = {} /\ Range(Of(c)') = {}
      /\ Of(m)' = [chart |-> c] /\ DOMAIN Of(m)' = {"chart"} /\ Range(Of(m)') = {c}
  BY <1>4, <1>7, <1>8 DEF Of, Range
<1> DEFINE M == {c, m}
<1> DEFINE B == {c}
<1> DEFINE O == {}
<1>10. NewThing(c, m, O, B)'
  <2>1. Fits(Kind(c), things[c])' /\ Owns(c)' /\ IsPart(c)'
    BY <1>2, <1>8, <1>9 DEF Fits, Owns, IsPart, Roles, Of
  <2>2. Holds(c)' = {}
    BY <1>8, <1>9 DEF Holds
  <2> QED BY <1>3, <1>8, <2>1, <2>2 DEF NewThing
<1>11. NewThing(m, m, O, B)'
  <2>1. Fits(Kind(m), things[m])' /\ Owns(m)' /\ IsPart(m)'
    BY <1>2, <1>4, <1>7, <1>9 DEF Fits, Owns, IsPart, Roles, Of
  <2>2. IsThing(things[m])' /\ things'[m].deps = O \cup B /\ things'[m].owner = Nothing
    BY <1>4, <1>7 DEF IsThing
  <2> QED BY <1>3, <2>1, <2>2 DEF NewThing
<1>12. \A t \in M : NewThing(t, m, O, B)'
  BY <1>10, <1>11
<1>13. \A t \in M : \A h \in Holds(t)' :
          \/ Pooled(h) /\ h \in DOMAIN things \cup M
          \/ ~Pooled(t) /\ (h \in M \/ Backed(h, O))
  BY <1>3, <1>4, <1>7, <1>8, <1>9 DEF Holds
<1>14. \A home \in Homes, b \in B : Kind(m) \in HomeKinds(home) => AtHome(b, m, home)'
  BY <1>2, <1>9 DEF Homes, AtHome, LivesOn, Home
<1>15. IsFiniteSet(M)
  <2>1. IsFiniteSet({c} \cup {m})
    BY FS_Singleton, FS_AddElement
  <2>2. {c} \cup {m} = M
    OBVIOUS
  <2> QED BY <2>1, <2>2
<1>16. /\ m \in M /\ B \in SUBSET (M \ {m}) /\ M \cap DOMAIN things = {} /\ O \in SUBSET listed
       /\ listed' = listed \cup B \cup {m}
  BY <1>2, <1>3, <1>5
<1>17. \A home \in Homes, o \in O : Kind(m) \in HomeKinds(home) =>
          Kind(o) \in HomeKinds(home) /\ AtHome(o, m, home)'
  OBVIOUS
<1>18. /\ DOMAIN things' = DOMAIN things \cup M
       /\ \A t \in DOMAIN things : things'[t] = things[t]
       /\ named' = named /\ results' = results \cup {m}
  BY <1>5, <1>7
<1> HIDE DEF M, B, O, made
<1>19. AllIsNew(M, m, O, B)
  BY <1>3, <1>12, <1>13, <1>14, <1>15, <1>16, <1>17, <1>18 DEF AllIsNew
<1> QED
  BY <1>19, GrownBy

-----------------------------------------------------------------------------
(* The heads *)

\* A head that returns its operand.
LEMMA ReturnedIsKept ==
  ASSUME HInv, NEW t \in listed, HandBack(t), things' = things
  PROVE  HInv'
<1>1. /\ DOMAIN things' = DOMAIN things /\ listed' = listed
      /\ named' \subseteq listed /\ results' \subseteq listed
  BY DEF HandBack, HInv, HeapIsKept
<1>2. \A u \in DOMAIN things :
         /\ IsThing(things'[u])
         /\ things'[u].of = things[u].of /\ things'[u].all = things[u].all
         /\ things'[u].deps = things[u].deps /\ things'[u].owner = things[u].owner
         /\ things'[u].links = things[u].links
  BY DEF HInv, HeapIsKept
<1> QED
  BY <1>1, <1>2, Steady

\* A command that changes nothing.
LEMMA UnchangedIsKept ==
  ASSUME HInv, UNCHANGED headVars
  PROVE  HInv'
<1>1. /\ things' = things /\ listed' = listed /\ named' \subseteq listed /\ results' \subseteq listed
  BY DEF headVars, HInv, HeapIsKept
<1>2. \A u \in DOMAIN things :
         /\ IsThing(things'[u])
         /\ things'[u].of = things[u].of /\ things'[u].all = things[u].all
         /\ things'[u].deps = things[u].deps /\ things'[u].owner = things[u].owner
         /\ things'[u].links = things[u].links
  BY <1>1 DEF HInv, HeapIsKept
<1> QED
  BY <1>1, <1>2, Steady

\* The heads of the abstract tensors.
LEMMA TensorsKeep ==
  ASSUME HInv, Tensors
  PROVE  HInv'
<1> DEFINE bare == Thing(<<>>)
<1>1. CASE IndexSpace
  <2>1. PublishOne("space", bare, {})
    BY <1>1 DEF IndexSpace, Declare
  <2>2. Sound("space", bare, {})
    BY BareIsSound
  <2> HIDE DEF bare
  <2> QED BY <2>1, <2>2, One
<1>2. CASE TensorHead
  <2>1. PICK s \in OperandsOf("space") : PublishOne("head", Thing([space |-> s]), {})
    BY <1>2 DEF TensorHead, Declare
  <2>2. Sound("head", Thing([space |-> s]), {})
    BY HeadIsSound
  <2> QED BY <2>1, <2>2, One
<1>3. CASE TensorHeadApplication
  <2>1. PICK h \in named : Kind(h) = "head" /\ PublishOne("monomial", Copy({h}), {})
    BY <1>3 DEF TensorHeadApplication
  <2>2. {h} \in SUBSET DOMAIN things /\ \A k \in {h} : Kind(k) = "head"
    BY <2>1 DEF HInv, HeapIsKept
  <2>3. Sound("monomial", Copy({h}), {})
    BY <2>2, CopyIsSound
  <2> QED BY <2>1, <2>3, One
<1>4. CASE TensorCanonicalize
  <2>1. PICK x \in Abstract : \/ HandBack(x) /\ UNCHANGED things
                              \/ PublishOne("monomial", Copy(Heads(x)), {x})
    BY <1>4 DEF TensorCanonicalize
  <2>2. x \in listed /\ Sound("monomial", Copy(Heads(x)), {x})
    BY FactorsAreHeads, CopyIsSound
  <2> QED BY <2>1, <2>2, One, ReturnedIsKept
<1>5. CASE YoungProject \/ YoungReduce \/ GarnirRelation
  <2>1. PICK x \in Abstract : PublishOne("expression", Copy(Heads(x)), {x})
    BY <1>5 DEF YoungProject, YoungReduce, GarnirRelation, Abstract
  <2>2. Sound("expression", Copy(Heads(x)), {x})
    BY FactorsAreHeads, CopyIsSound
  <2> QED BY <2>1, <2>2, One
<1>6. CASE YoungDeclare
  <2>1. PICK h \in OperandsOf("head") : HandBack(h) /\ UNCHANGED things
    BY <1>6 DEF YoungDeclare
  <2> QED BY <2>1, OperandIsThere, ReturnedIsKept
<1>7. CASE AbstractProduct
  <2>1. PICK x \in Abstract, y \in Abstract, kind \in {"expression", "monomial"} :
           PublishOne(kind, Copy(Heads(x) \cup Heads(y)), {})
    BY <1>7 DEF AbstractProduct
  <2>2. /\ Heads(x) \cup Heads(y) \in SUBSET DOMAIN things
        /\ \A h \in Heads(x) \cup Heads(y) : Kind(h) = "head"
    BY FactorsAreHeads
  <2>3. Sound(kind, Copy(Heads(x) \cup Heads(y)), {})
    BY <2>2, CopyIsSound
  <2> QED BY <2>1, <2>3, One
<1> QED
  BY <1>1, <1>2, <1>3, <1>4, <1>5, <1>6, <1>7 DEF Tensors

\* A transition's or an atlas's pullback: the image holds the source, which its
\* owner keeps, and the head of the tensor.
LEMMA PullbackIsKept ==
  ASSUME HInv, NEW owner \in listed, NEW source, NEW target, NEW t \in OperandsOf("componentTensor"),
         source \in Holds(owner), Of(source).space = Of(target).space,
         ComponentPullback(owner, source, target, t)
  PROVE  HInv'
<1>1. t \in listed /\ t \in DOMAIN things /\ Kind(t) = "componentTensor"
  BY OperandIsThere
<1>2. /\ Of(t).basis = target
      /\ PublishOne("componentTensor", ComponentTensorOf(Of(t).head, source), {owner, t})
  BY DEF ComponentPullback
<1> PICK h : h = Of(t).head
  OBVIOUS
<1> PICK O : O = {owner, t}
  OBVIOUS
<1>3. h \in Holds(t) /\ Of(Of(t).basis).space = Of(h).space
  BY <1>1, RoleIsHeld DEF Roles, HInv, Shaped, Fits, Of
<1>4. O \in SUBSET listed /\ owner \in O /\ t \in O
  BY <1>1
<1>5. Backed(h, O) /\ Backed(source, O)
  BY <1>3, <1>4, Reached
<1>6. Sound("componentTensor", ComponentTensorOf(h, source), O)
  BY <1>2, <1>3, <1>4, <1>5, ComponentTensorIsSound
<1> QED
  BY <1>2, <1>6, One

\* The charts of an atlas are of one space.
LEMMA ChartsOfOneSpace ==
  ASSUME HInv, NEW charts \in SUBSET OperandsOf("basis"), Cardinality({Of(b).space : b \in charts}) = 1
  PROVE  \A a, b \in charts : Of(a).space = Of(b).space
<1> DEFINE spaces == {Of(b).space : b \in charts}
<1>1. \A a \in charts : Of(a).space \in spaces
  OBVIOUS
<1>2. \A a \in charts : Of(a).space \in DOMAIN things
  BY OperandIsThere, RoleIsHeld DEF Roles
<1>3. IsFiniteSet(spaces)
  <2>1. spaces \subseteq DOMAIN things /\ IsFiniteSet(DOMAIN things)
    BY <1>2 DEF HInv, HeapIsKept
  <2> HIDE DEF spaces
  <2> QED BY <2>1, FS_Subset
<1>4. \E s : spaces = {s}
  <2>1. Cardinality(spaces) = 1
    OBVIOUS
  <2> HIDE DEF spaces
  <2> QED BY <1>3, <2>1, FS_Singleton
<1> HIDE DEF spaces
<1> QED
  BY <1>1, <1>4

\* phy_atlas_add_transition: both ends are charts of the atlas.
LEMMA AtlasAddTransitionIsKept ==
  ASSUME HInv, AtlasAddTransition
  PROVE  HInv'
<1>1. PICK at \in OperandsOf("atlas"), a \in OperandsOf("basis"), b \in OperandsOf("basis") :
         /\ {a, b} \subseteq things[at].all
         /\ things' = [things EXCEPT ![at].links = @ \cup {<<a, b>>}, ![at].all = @ \cup {a, b}]
         /\ HandBack(at)
  BY DEF AtlasAddTransition
<1>2. at \in listed /\ at \in DOMAIN things /\ Kind(at) = "atlas"
  BY OperandIsThere
<1> PICK x : x = things[at]
  OBVIOUS
<1>3. IsThing(x) /\ x.links \subseteq x.all \X x.all /\ a \in x.all /\ b \in x.all
  BY <1>1, <1>2 DEF HInv, HeapIsKept, Shaped, Fits
<1> DEFINE y == [of |-> x.of, all |-> x.all, deps |-> x.deps, owner |-> x.owner,
                 degree |-> x.degree, links |-> x.links \cup {<<a, b>>}]
<1>4. things' = [things EXCEPT ![at] = y]
  <2> DEFINE z == [[x EXCEPT !.links = x.links \cup {<<a, b>>}] EXCEPT !.all = x.all \cup {a, b}]
  <2>1. things' = [things EXCEPT ![at] = z]
    BY <1>1, <1>2
  <2>2. \A u, v, l : u = [of |-> v.of, all |-> v.all, deps |-> v.deps, owner |-> v.owner,
                          degree |-> v.degree, links |-> v.links]
          => [u EXCEPT !.links = l]
               = [of |-> v.of, all |-> v.all, deps |-> v.deps, owner |-> v.owner,
                  degree |-> v.degree, links |-> l]
    OBVIOUS
  <2>3. \A u, v, A : u = [of |-> v.of, all |-> v.all, deps |-> v.deps, owner |-> v.owner,
                          degree |-> v.degree, links |-> v.links]
          => [u EXCEPT !.all = A]
               = [of |-> v.of, all |-> A, deps |-> v.deps, owner |-> v.owner,
                  degree |-> v.degree, links |-> v.links]
    OBVIOUS
  <2>4. x.all \cup {a, b} = x.all
    BY <1>3
  <2> PICK w : w = [x EXCEPT !.links = x.links \cup {<<a, b>>}]
    OBVIOUS
  <2>5. w = y
    BY <1>3, <2>2 DEF IsThing
  <2>6. z = [w EXCEPT !.all = x.all]
    BY <2>4
  <2>7. /\ w = [of |-> w.of, all |-> w.all, deps |-> w.deps, owner |-> w.owner,
                degree |-> w.degree, links |-> w.links]
        /\ y = [of |-> w.of, all |-> x.all, deps |-> w.deps, owner |-> w.owner,
                degree |-> w.degree, links |-> w.links]
    BY <2>5
  <2>8. z = y
    <3>1. [w EXCEPT !.all = x.all]
            = [of |-> w.of, all |-> x.all, deps |-> w.deps, owner |-> w.owner,
               degree |-> w.degree, links |-> w.links]
      BY ONLY <2>3, <2>7
    <3> HIDE DEF z, y
    <3> QED BY ONLY <2>6, <2>7, <3>1
  <2> HIDE DEF z, y
  <2> QED BY <2>1, <2>8
<1>5. /\ IsThing(y) /\ y.of = x.of /\ y.all = x.all /\ y.deps = x.deps /\ y.owner = x.owner
      /\ y.links \subseteq y.all \X y.all
  BY <1>3 DEF IsThing
<1> HIDE DEF y
<1>6. DOMAIN things' = DOMAIN things /\ things'[at] = y /\ \A t \in DOMAIN things \ {at} : things'[t] = things[t]
  BY <1>2, <1>4
<1>7. listed' = listed /\ named' \subseteq listed /\ results' \subseteq listed
  BY <1>1, <1>2 DEF HandBack, HInv, HeapIsKept
<1>8. \A t \in DOMAIN things :
         /\ IsThing(things'[t])
         /\ things'[t].of = things[t].of /\ things'[t].all = things[t].all
         /\ things'[t].deps = things[t].deps /\ things'[t].owner = things[t].owner
         /\ things'[t].links \subseteq things'[t].all \X things'[t].all \/ things'[t].links = things[t].links
  BY <1>5, <1>6 DEF HInv, HeapIsKept
<1> QED
  BY <1>6, <1>7, <1>8, Steady

\* Matrices and vectors hold nothing.
LEMMA BareIsKept ==
  ASSUME HInv, NEW kind \in {"space", "vector", "matrix"}, PublishOne(kind, Thing(<<>>), {})
  PROVE  HInv'
<1> PICK x : x = Thing(<<>>)
  OBVIOUS
<1>1. Sound(kind, x, {}) /\ PublishOne(kind, x, {})
  BY BareIsSound
<1> QED
  BY <1>1, One

\* The heads of components, maps, atlases and linear algebra.
LEMMA ComponentsKeep ==
  ASSUME HInv, Components
  PROVE  HInv'
<1>1. CASE ComponentBasis
  <2>1. PICK s \in OperandsOf("space") : PublishOne("basis", Thing([space |-> s]), {s})
    BY <1>1 DEF ComponentBasis
  <2>2. Sound("basis", Thing([space |-> s]), {s})
    BY BasisIsSound
  <2> QED BY <2>1, <2>2, One
<1>2. CASE TensorComponents \/ ComponentLift
  <2>1. PICK h \in OperandsOf("head"), b \in OperandsOf("basis"), T \in SUBSET OperandsOf("tensor") :
           /\ Of(b).space = Of(h).space
           /\ PublishOne("componentTensor", ComponentTensorOf(h, b), T \cup {h, b})
    <3>1. CASE TensorComponents
      <4>1. PICK h \in OperandsOf("head"), b \in OperandsOf("basis") :
               /\ Of(b).space = Of(h).space
               /\ PublishOne("componentTensor", ComponentTensorOf(h, b), {h, b})
        BY <3>1 DEF TensorComponents
      <4>2. {} \in SUBSET OperandsOf("tensor") /\ {h, b} = {} \cup {h, b}
        OBVIOUS
      <4> QED BY <4>1, <4>2
    <3>2. CASE ComponentLift
      <4>1. PICK t \in OperandsOf("tensor"), h \in OperandsOf("head"), b \in OperandsOf("basis") :
               /\ Of(b).space = Of(h).space
               /\ PublishOne("componentTensor", ComponentTensorOf(h, b), {t, h, b})
        BY <3>2 DEF ComponentLift
      <4>2. {t} \in SUBSET OperandsOf("tensor") /\ {t, h, b} = {t} \cup {h, b}
        OBVIOUS
      <4> QED BY <4>1, <4>2
    <3> QED BY <1>2, <3>1, <3>2
  <2> PICK O : O = T \cup {h, b}
    OBVIOUS
  <2>2. O \in SUBSET listed /\ h \in O /\ b \in O
    BY OperandIsThere
  <2>3. Backed(h, O) /\ Backed(b, O)
    BY <2>2, Reached
  <2>4. Sound("componentTensor", ComponentTensorOf(h, b), O)
    BY <2>1, <2>2, <2>3, ComponentTensorIsSound
  <2> QED BY <2>1, <2>4, One
<1>3. CASE CoordinateMap \/ BasisTransition
  <2>1. PICK a \in OperandsOf("basis"), b \in OperandsOf("basis"), kind \in {"map", "transition"} :
           /\ kind = "transition" => Of(a).space = Of(b).space
           /\ PublishOne(kind, Thing([source |-> a, target |-> b]), {a, b})
    BY <1>3 DEF CoordinateMap, BasisTransition
  <2> PICK x : x = Thing([source |-> a, target |-> b])
    OBVIOUS
  <2>2. Sound(kind, x, {a, b})
    BY <2>1, MapIsSound
  <2> QED BY <2>1, <2>2, One
<1>4. CASE Jacobian \/ MapVector \/ VectorHead \/ MatrixHead \/ Dot \/ LinearUnary \/ LinearSolve
  <2>1. \E kind \in {"space", "vector", "matrix"} : PublishOne(kind, Thing(<<>>), {})
    <3>1. CASE Dot
      BY <3>1, OperandIsThere DEF Dot
    <3>2. CASE Jacobian \/ MapVector \/ VectorHead \/ MatrixHead \/ LinearUnary \/ LinearSolve
      BY <3>2 DEF Jacobian, MapVector, VectorHead, MatrixHead, LinearUnary, LinearSolve
    <3> QED BY <1>4, <3>1, <3>2
  <2> QED BY <2>1, BareIsKept
<1>5. CASE TransitionPullback
  <2>1. PICK tr \in OperandsOf("transition"), t \in OperandsOf("componentTensor") :
           ComponentPullback(tr, Of(tr).source, Of(tr).target, t)
    BY <1>5 DEF TransitionPullback
  <2>2. tr \in listed /\ tr \in DOMAIN things /\ Kind(tr) = "transition"
    BY OperandIsThere
  <2>3. Of(tr).source \in Holds(tr)
    BY <2>2, RoleIsHeld DEF Roles
  <2>4. Of(Of(tr).source).space = Of(Of(tr).target).space
    BY <2>2 DEF HInv, Shaped, Fits, Of
  <2> PICK a : a = Of(tr).source
    OBVIOUS
  <2> PICK b : b = Of(tr).target
    OBVIOUS
  <2> QED BY <2>1, <2>2, <2>3, <2>4, PullbackIsKept
<1>6. CASE Atlas
  <2>1. PICK charts \in SUBSET OperandsOf("basis") :
           /\ Cardinality({Of(b).space : b \in charts}) = 1
           /\ PublishOne("atlas", [Thing(<<>>) EXCEPT !.all = charts], charts)
    BY <1>6 DEF Atlas
  <2>2. Sound("atlas", [Thing(<<>>) EXCEPT !.all = charts], charts)
    BY <2>1, ChartsOfOneSpace, AtlasIsSound
  <2> DEFINE x == [Thing(<<>>) EXCEPT !.all = charts]
  <2>3. Sound("atlas", x, charts) /\ PublishOne("atlas", x, charts)
    BY <2>1, <2>2
  <2> HIDE DEF x
  <2> QED BY <2>3, One
<1>7. CASE AtlasPullback
  <2>1. PICK at \in OperandsOf("atlas"), a \in OperandsOf("basis"), b \in OperandsOf("basis"),
             t \in OperandsOf("componentTensor") :
           Linked(at, a, b) /\ ComponentPullback(at, a, b, t)
    BY <1>7 DEF AtlasPullback
  <2>2. at \in listed /\ at \in DOMAIN things /\ Kind(at) = "atlas"
    BY OperandIsThere
  <2>3. /\ things[at].links \subseteq things[at].all \X things[at].all
        /\ \A c, d \in things[at].all : Of(c).space = Of(d).space
    BY <2>2 DEF HInv, Shaped, Fits
  <2>4. a \in things[at].all /\ b \in things[at].all
    BY <2>1, <2>3 DEF Linked
  <2>5. a \in Holds(at) /\ Of(a).space = Of(b).space
    BY <2>3, <2>4 DEF Holds
  <2> QED BY <2>1, <2>2, <2>5, PullbackIsKept
<1> QED
  BY <1>1, <1>2, <1>3, <1>4, <1>5, <1>6, <1>7, AtlasAddTransitionIsKept DEF Components

\* A form on a manifold.
LEMMA FormOnIsKept ==
  ASSUME HInv, NEW m \in OperandsOf("manifold"), NEW degree, PublishOne("form", FormOn(m, degree), {m})
  PROVE  HInv'
<1>1. m \in listed /\ m \in DOMAIN things /\ Kind(m) = "manifold"
  BY OperandIsThere
<1>2. {m} \in SUBSET listed /\ m \in {m}
  BY <1>1
<1>3. Backed(m, {m}) /\ Backed(Of(m).chart, {m})
  BY <1>1, <1>2, ChartIsBacked
<1>4. \A o \in {m} : /\ Kind(o) \in HomeKinds("chart")
                     /\ LivesOn(o, "chart") => Home(o, "chart") = Of(m).chart
  BY <1>1, WhereItLives DEF HomeKinds
<1>5. Sound("form", FormOn(m, degree), {m})
  BY <1>1, <1>2, <1>3, <1>4, FormIsSound
<1> QED
  BY <1>5, One

\* A tensor on the chart of an operand, recorded against operands of that chart.
LEMMA TensorOnIsKept ==
  ASSUME HInv, NEW O \in SUBSET listed, NEW x \in O,
         \A o \in O : /\ Kind(o) \in {"manifold", "tensor", "curvature"}
                      /\ Of(o).chart = Of(x).chart,
         PublishOne("tensor", TensorOn(x), O)
  PROVE  HInv'
<1>1. Sound("tensor", TensorOn(x), O)
  BY TensorIsSound
<1> QED
  BY <1>1, One

\* A form, or Lie form, made of one or two on the same manifold.
LEMMA DerivedOfTwoIsKept ==
  ASSUME HInv, NEW x \in Forms, NEW y \in Forms, Kind(y) = Kind(x), CheckPair(x, y),
         NEW degree, Derived(x, degree, {x, y})
  PROVE  HInv'
<1> PICK O : O = {x, y}
  OBVIOUS
<1>1. O \in SUBSET listed /\ x \in O /\ Kind(x) \in {"form", "lieForm"}
  BY OperandIsThere DEF Forms
<1>2. \A o \in O : Kind(o) = Kind(x) /\ Of(o) = Of(x)
  BY DEF CheckPair
<1>3. Derived(x, degree, O)
  OBVIOUS
<1> QED
  BY <1>1, <1>2, <1>3, DerivedIsKept

\* The same of one.
LEMMA DerivedOfOneIsKept ==
  ASSUME HInv, NEW x \in Forms, NEW degree, Derived(x, degree, {x})
  PROVE  HInv'
<1>1. {x} = {x, x} /\ CheckPair(x, x)
  BY DEF CheckPair
<1> QED
  BY <1>1, DerivedOfTwoIsKept

\* A form made of another, or of a Lie form, and of a tensor of its chart.
LEMMA FormWithTensorIsKept ==
  ASSUME HInv, NEW x \in Forms, NEW v \in OperandsOf("tensor"), SameChart(x, v), NEW degree,
         PublishOne("form", FormOn(Of(x).manifold, degree), {x, v})
  PROVE  HInv'
<1>1. /\ x \in listed /\ x \in DOMAIN things /\ Kind(x) \in {"form", "lieForm"}
      /\ v \in listed /\ v \in DOMAIN things /\ Kind(v) = "tensor"
  BY OperandIsThere DEF Forms
<1> PICK O : O = {x, v}
  OBVIOUS
<1> PICK m : m = Of(x).manifold
  OBVIOUS
<1>2. O \in SUBSET listed /\ x \in O
  BY <1>1
<1>3. Kind(m) = "manifold" /\ Of(x).chart = Of(m).chart /\ Backed(m, O) /\ Backed(Of(m).chart, O)
  BY <1>1, <1>2, ManifoldIsBacked
<1>4. \A o \in O : /\ Kind(o) \in HomeKinds("chart")
                   /\ LivesOn(o, "chart") => Home(o, "chart") = Of(m).chart
  BY <1>1, <1>3, WhereItLives DEF HomeKinds, SameChart
<1>5. Sound("form", FormOn(m, degree), O)
  BY <1>2, <1>3, <1>4, FormIsSound
<1> QED
  BY <1>5, One

\* An element of the algebra of one or two.
LEMMA ElementOfTwoIsKept ==
  ASSUME HInv, NEW x \in OperandsOf("element"), NEW y \in OperandsOf("element"),
         Of(x).algebra = Of(y).algebra, PublishOne("element", Thing(Of(x)), {x, y})
  PROVE  HInv'
<1>1. x \in listed /\ x \in DOMAIN things /\ Kind(x) = "element" /\ y \in listed /\ y \in DOMAIN things
      /\ Kind(y) = "element"
  BY OperandIsThere
<1> PICK O : O = {x, y}
  OBVIOUS
<1> PICK a : a = Of(x).algebra
  OBVIOUS
<1>2. DOMAIN Of(x) = {"algebra"} /\ Range(Of(x)) = {a}
  BY <1>1 DEF HInv, Shaped, Fits, Roles, Range, Of
<1>3. Fits("element", Thing(Of(x)))
  BY <1>2, ThingIsThing DEF Fits, Roles
<1>4. O \in SUBSET listed /\ a \in Holds(x) /\ x \in O
  BY <1>1, RoleIsHeld DEF Roles
<1>5. Backed(a, O)
  BY <1>4, Reached
<1>6. "element" \notin HomeKinds("chart") /\ "element" \in HomeKinds("algebra")
  BY DEF HomeKinds
<1>7. \A o \in O : Kind(o) = "element" /\ Home(o, "algebra") = a
  BY <1>1, WhereItLives
<1> PICK z : z = Thing(Of(x))
  OBVIOUS
<1>8. /\ IsThing(z) /\ z.of = Of(x) /\ z.all = {} /\ z.deps = {} /\ z.owner = Nothing /\ Fits("element", z)
  BY <1>3, ThingIsThing
<1>9. Sound("element", z, O)
  BY <1>2, <1>4, <1>5, <1>6, <1>7, <1>8 DEF Sound, Backed, Homes
<1> QED
  BY <1>9, One

\* The heads of manifolds, forms and tensors on them.
LEMMA GeometryKeeps ==
  ASSUME HInv, Geometry
  PROVE  HInv'
<1>1. CASE DifferentialForm \/ Volume
  <2>1. \E m \in OperandsOf("manifold") : \E degree : PublishOne("form", FormOn(m, degree), {m})
    BY <1>1 DEF DifferentialForm, Volume
  <2> QED BY <2>1, FormOnIsKept
<1>2. CASE TensorOnManifold
  <2>1. PICK m \in OperandsOf("manifold") : PublishOne("tensor", TensorOn(m), {m})
    BY <1>2 DEF TensorOnManifold
  <2>2. {m} \in SUBSET listed /\ m \in {m} /\ Kind(m) = "manifold"
    BY OperandIsThere
  <2> QED BY <2>1, <2>2, TensorOnIsKept
<1>3. CASE ExteriorD
  <2>1. PICK x \in Forms : IF things[x].degree = TopDegree THEN UNCHANGED headVars
                           ELSE Derived(x, things[x].degree + 1, {x})
    BY <1>3 DEF ExteriorD
  <2>2. CASE things[x].degree = TopDegree
    BY <2>1, <2>2, UnchangedIsKept
  <2>3. CASE things[x].degree # TopDegree
    BY <2>1, <2>3, DerivedOfOneIsKept
  <2> QED BY <2>2, <2>3
<1>4. CASE InteriorProduct \/ HodgeStar
  <2>1. \E x \in Forms : \E degree : Derived(x, degree, {x})
    <3>1. OperandsOf("form") \subseteq Forms
      BY DEF Forms
    <3>2. CASE InteriorProduct
      BY <3>1, <3>2 DEF InteriorProduct
    <3>3. CASE HodgeStar
      BY <3>1, <3>3 DEF HodgeStar
    <3> QED BY <1>4, <3>2, <3>3
  <2> QED BY <2>1, DerivedOfOneIsKept
<1>5. CASE Wedge
  <2>1. PICK x \in named \cup results, y \in OperandsOf("form") :
           Kind(x) = "form" /\ CheckPair(x, y) /\ Derived(x, things[x].degree + things[y].degree, {x, y})
    BY <1>5 DEF Wedge
  <2>2. x \in Forms /\ y \in Forms /\ Kind(y) = Kind(x)
    BY <2>1 DEF Forms, OperandsOf
  <2> QED BY <2>1, <2>2, DerivedOfTwoIsKept
<1>6. CASE ObjectSum
  <2>1. CASE \E x, y \in Forms : /\ Kind(x) = Kind(y) /\ CheckPair(x, y) /\ things[x].degree = things[y].degree
                                 /\ Derived(x, things[x].degree, {x, y})
    BY <2>1, DerivedOfTwoIsKept
  <2>2. CASE \E x, y \in OperandsOf("element") :
               Of(x).algebra = Of(y).algebra /\ PublishOne("element", Thing(Of(x)), {x, y})
    BY <2>2, ElementOfTwoIsKept
  <2>3. CASE \E x, y \in Abstract : PublishOne("expression", Copy(Heads(x) \cup Heads(y)), {x, y})
    <3>1. PICK x \in Abstract, y \in Abstract :
             PublishOne("expression", Copy(Heads(x) \cup Heads(y)), {x, y})
      BY <2>3
    <3>2. /\ Heads(x) \cup Heads(y) \in SUBSET DOMAIN things
          /\ \A h \in Heads(x) \cup Heads(y) : Kind(h) = "head"
          /\ {x, y} \in SUBSET listed
      BY FactorsAreHeads
    <3>3. Sound("expression", Copy(Heads(x) \cup Heads(y)), {x, y})
      BY <3>2, CopyIsSound
    <3> QED BY <3>1, <3>3, One
  <2> QED BY <1>6, <2>1, <2>2, <2>3 DEF ObjectSum
<1>7. CASE ObjectScale
  <2>1. CASE \E x \in Forms : Derived(x, things[x].degree, {x})
    BY <2>1, DerivedOfOneIsKept
  <2>2. CASE \E x \in OperandsOf("element") : PublishOne("element", Thing(Of(x)), {x})
    <3>1. \A x : {x} = {x, x}
      OBVIOUS
    <3>2. \E x \in OperandsOf("element") : PublishOne("element", Thing(Of(x)), {x, x})
      BY <2>2, <3>1
    <3> QED BY <3>2, ElementOfTwoIsKept
  <2>3. CASE \/ \E x \in OperandsOf("expression") : PublishOne("expression", Copy(Heads(x)), {x})
             \/ \E x \in OperandsOf("monomial") : PublishOne("monomial", Copy(Heads(x)), {})
    <3>1. PICK x \in Abstract, kind \in {"monomial", "expression"} :
             PublishOne(kind, Copy(Heads(x)), {x}) \/ PublishOne(kind, Copy(Heads(x)), {})
      BY <2>3 DEF Abstract
    <3>2. Sound(kind, Copy(Heads(x)), {x}) /\ Sound(kind, Copy(Heads(x)), {})
      BY FactorsAreHeads, CopyIsSound
    <3> QED BY <3>1, <3>2, One
  <2> QED BY <1>7, <2>1, <2>2, <2>3 DEF ObjectScale
<1>8. CASE LieDerivative
  <2>1. PICK x \in OperandsOf("form"), v \in OperandsOf("tensor") :
           SameChart(x, v) /\ Derived(x, things[x].degree, {x, v})
    BY <1>8 DEF LieDerivative
  <2>2. x \in Forms /\ Kind(x) = "form"
    BY OperandIsThere DEF Forms
  <2>3. PublishOne("form", FormOn(Of(x).manifold, things[x].degree), {x, v})
    BY <2>1, <2>2 DEF Derived
  <2> QED BY <2>1, <2>2, <2>3, FormWithTensorIsKept
<1> QED
  BY <1>1, <1>2, <1>3, <1>4, <1>5, <1>6, <1>7, <1>8, ManifoldIsKept DEF Geometry

\* publish_borrowed: a part of an operand, recorded against it.
LEMMA PartIsLent ==
  ASSUME HInv, NEW kind, kind # "scalar", NEW o \in OperandsOf(kind), NEW p \in DOMAIN things,
         things[p].owner = o \/ Pooled(p), PublishOwned(p, o)
  PROVE  HInv'
<1>1. o \in listed /\ o # Nothing
  BY OperandIsThere DEF Kind, Nothing
<1> QED
  BY <1>1, Lent

\* Generator and LieElement: an element of an algebra.
LEMMA ElementOfIsKept ==
  ASSUME HInv, NEW a \in OperandsOf("algebra"), ElementOf(a)
  PROVE  HInv'
<1>1. a \in listed /\ Kind(a) = "algebra"
  BY OperandIsThere
<1>2. {a} \in SUBSET listed /\ a \in {a}
  BY <1>1
<1>3. Sound("element", Thing([algebra |-> a]), {a})
  BY <1>1, <1>2, Reached, ElementIsSound
<1>4. PublishOne("element", Thing([algebra |-> a]), {a})
  BY DEF ElementOf
<1> QED
  BY <1>3, <1>4, One

\* LieForm and GaugeConnection: a Lie form of an algebra on a manifold.
LEMMA LieFormHeadIsKept ==
  ASSUME HInv, LieFormHead
  PROVE  HInv'
<1>1. PICK a \in OperandsOf("algebra"), m \in OperandsOf("manifold"), degree \in 0 .. TopDegree :
         PublishLieForm(a, m, degree, {a, m})
  BY DEF LieFormHead
<1>2. /\ a \in listed /\ a \in DOMAIN things /\ Kind(a) = "algebra"
      /\ m \in listed /\ m \in DOMAIN things /\ Kind(m) = "manifold"
  BY OperandIsThere
<1> PICK O : O = {a, m}
  OBVIOUS
<1>3. O \in SUBSET listed /\ a \in O /\ m \in O
  BY <1>2
<1>4. Backed(a, O) /\ Backed(m, O) /\ Backed(Of(m).chart, O)
  BY <1>2, <1>3, Reached, ChartIsBacked
<1>5. \A o \in O : /\ Kind(o) \in {"algebra", "manifold", "lieForm"}
                   /\ LivesOn(o, "chart") => Home(o, "chart") = Of(m).chart
                   /\ LivesOn(o, "algebra") => Home(o, "algebra") = a
  BY <1>2, WhereItLives
<1>6. PublishLieForm(a, m, degree, O)
  BY <1>1
<1> QED
  BY <1>2, <1>3, <1>4, <1>5, <1>6, LieFormIsKept

\* YangMillsLagrangian: a form on the manifold of the field strength.
LEMMA LagrangianIsKept ==
  ASSUME HInv, YangMillsLagrangian
  PROVE  HInv'
<1>1. PICK x \in OperandsOf("lieForm"), g \in OperandsOf("tensor") :
         SameChart(x, g) /\ PublishOne("form", FormOn(Of(x).manifold, TopDegree), {x, g})
  BY DEF YangMillsLagrangian
<1>2. x \in Forms
  BY DEF Forms
<1> QED
  BY <1>1, <1>2, FormWithTensorIsKept

\* The heads of Lie algebras and gauge fields.
LEMMA GaugeKeeps ==
  ASSUME HInv, Gauge
  PROVE  HInv'
<1>1. CASE LieAlgebra
  <2>1. PICK g \in OperandsOf("group") : PublishOwned(Of(g).algebra, g)
    BY <1>1 DEF LieAlgebra
  <2>2. g \in DOMAIN things /\ Kind(g) = "group"
    BY OperandIsThere
  <2>3. things[Of(g).algebra].owner = g /\ Of(g).algebra \in DOMAIN things
    BY <2>2, RoleIsHeld DEF Roles, HInv, Shaped, Owns
  <2> QED BY <2>1, <2>3, PartIsLent
<1>2. CASE Generator \/ LieElement
  BY <1>2, ElementOfIsKept DEF Generator, LieElement
<1>3. CASE LieBracket
  <2>1. CASE \E x, y \in OperandsOf("element") :
               Of(x).algebra = Of(y).algebra /\ PublishOne("element", Thing(Of(x)), {x, y})
    BY <2>1, ElementOfTwoIsKept
  <2>2. CASE \E x, y \in OperandsOf("lieForm") :
               CheckPair(x, y) /\ Derived(x, things[x].degree + things[y].degree, {x, y})
    <3>1. \A x \in OperandsOf("lieForm") : x \in Forms /\ Kind(x) = "lieForm"
      BY DEF Forms, OperandsOf
    <3> QED BY <2>2, <3>1, DerivedOfTwoIsKept
  <2> QED BY <1>3, <2>1, <2>2 DEF LieBracket
<1>4. CASE FieldStrength \/ CovariantD \/ GaugeVariation
  <2>1. \A x \in OperandsOf("lieForm") : x \in Forms /\ Kind(x) = "lieForm"
    BY DEF Forms, OperandsOf
  <2>2. CASE FieldStrength
    BY <2>1, <2>2, DerivedOfOneIsKept DEF FieldStrength
  <2>3. CASE CovariantD
    BY <2>1, <2>3, DerivedOfTwoIsKept DEF CovariantD
  <2>4. CASE GaugeVariation
    BY <2>1, <2>4, DerivedOfTwoIsKept DEF GaugeVariation
  <2> QED BY <1>4, <2>2, <2>3, <2>4
<1>5. CASE ColorComponent
  <2>1. PICK x \in OperandsOf("lieForm"), p \in DOMAIN things : things[p].owner = x /\ PublishOwned(p, x)
    BY <1>5 DEF ColorComponent
  <2> QED BY <2>1, PartIsLent
<1> QED
  BY <1>1, <1>2, <1>3, <1>4, <1>5, GroupIsKept, LieFormHeadIsKept, LagrangianIsKept DEF Gauge

\* GRSpace, GRTensor and the like: a view owns its parts, or has them in the pool.
LEMMA ViewPartIsKept ==
  ASSUME HInv, NEW kind \in {"grView", "qftView"}, NEW v \in OperandsOf(kind), ViewPart(v)
  PROVE  HInv'
<1>1. PICK p \in Range(Of(v)) : PublishOwned(p, v)
  BY DEF ViewPart
<1>2. v \in DOMAIN things /\ Kind(v) = kind
  BY OperandIsThere
<1>3. p \in DOMAIN things
  BY <1>2, HeldIsThere DEF Holds
<1>4. Pooled(p) \/ things[p].owner = v
  BY <1>2 DEF HInv, Shaped, Owns
<1> QED
  BY <1>1, <1>3, <1>4, PartIsLent

\* The heads of curvature bundles and component views.
LEMMA BundlesKeep ==
  ASSUME HInv, Bundles
  PROVE  HInv'
<1>1. CASE CurvaturePart \/ Weyl
  <2>1. PICK r \in OperandsOf("curvature"), p \in DOMAIN things : things[p].owner = r /\ PublishOwned(p, r)
    BY <1>1 DEF CurvaturePart, Weyl
  <2> QED BY <2>1, PartIsLent
<1>2. CASE GeodesicAcceleration \/ TensorCovariantDerivative
  <2>1. PICK r \in OperandsOf("curvature"), t \in OperandsOf("tensor") :
           SameChart(r, t) /\ PublishOne("tensor", TensorOn(r), {r, t})
    BY <1>2 DEF GeodesicAcceleration, TensorCovariantDerivative, DerivativeAlong
  <2> PICK O : O = {r, t}
    OBVIOUS
  <2>2. O \in SUBSET listed /\ r \in O /\ Kind(r) = "curvature" /\ Kind(t) = "tensor"
    BY OperandIsThere
  <2>3. \A o \in O : /\ Kind(o) \in {"manifold", "tensor", "curvature"}
                     /\ Of(o).chart = Of(r).chart
    BY <2>1, <2>2 DEF SameChart
  <2> QED BY <2>1, <2>2, <2>3, TensorOnIsKept
<1>3. CASE GRComponents
  <2>1. PICK r \in OperandsOf("curvature") : Publish(View("grView"), Fresh("grView"), {r})
    BY <1>3 DEF GRComponents
  <2>2. {r} \in SUBSET listed /\ Room({"grView"} \cup ViewKinds)
    BY <1>3, OperandIsThere DEF GRComponents
  <2> QED BY <2>1, <2>2, ViewIsKept
<1>4. CASE QFTSystem
  <2>1. Publish(View("qftView"), Fresh("qftView"), {}) /\ Room({"qftView"} \cup ViewKinds)
    BY <1>4 DEF QFTSystem
  <2>2. {} \in SUBSET listed
    OBVIOUS
  <2> QED BY <2>1, <2>2, ViewIsKept
<1>5. CASE GRPart \/ QFTPart
  BY <1>5, ViewPartIsKept DEF GRPart, QFTPart
<1> QED
  BY <1>1, <1>2, <1>3, <1>4, <1>5, CurvatureIsKept DEF Bundles

-----------------------------------------------------------------------------
(* The invariant, and what it says *)

\* A session begins with nothing.
LEMMA InitHInv == HeadsInit => HInv
<1> SUFFICES ASSUME HeadsInit PROVE HInv
  OBVIOUS
<1>1. things = <<>> /\ listed = {} /\ named = {} /\ results = {} /\ DOMAIN things = {}
  BY DEF HeadsInit
<1>2. HeapIsKept
  <2>1. IsFiniteSet({})
    BY FS_EmptySet
  <2> QED BY <1>1, <2>1 DEF HeapIsKept
<1> QED
  BY <1>1, <1>2 DEF HInv, Covered, Shaped, OneHome

\* The end of a command: its names, and its value, are what the sweep starts from.
LEMMA EndKeeps ==
  ASSUME HInv, Fail \/ Ask \/ FinishHeads \/ Clear
  PROVE  HInv'
<1>1. named \subseteq listed /\ results \subseteq listed
  BY DEF HInv, HeapIsKept
<1>2. CASE Fail \/ Ask
  <2>1. SweepThings(named) /\ named' \subseteq named /\ results' = {}
    BY <1>2 DEF Fail, Ask
  <2> QED BY <1>1, <2>1, Swept
<1>3. CASE FinishHeads
  <2>1. PICK value \in results, old \in named \cup {Nothing} :
           named' \in {named, (named \ {old}) \cup {value}} /\ SweepThings(named' \cup {value})
    BY <1>3 DEF FinishHeads
  <2>2. results' = {}
    BY <1>3 DEF FinishHeads
  <2> PICK roots : roots = named' \cup {value}
    OBVIOUS
  <2>3. SweepThings(roots) /\ named' \subseteq roots /\ roots \in SUBSET listed
    BY <1>1, <2>1
  <2> QED BY <2>2, <2>3, Swept
<1>4. CASE Clear
  <2>1. PICK old \in named : named' = named \ {old} /\ SweepThings(named \ {old})
    BY <1>4 DEF Clear
  <2>2. results' = {}
    BY <1>4 DEF Clear
  <2> PICK roots : roots = named \ {old}
    OBVIOUS
  <2>3. SweepThings(roots) /\ named' \subseteq roots /\ roots \in SUBSET listed
    BY <1>1, <2>1
  <2> QED BY <2>2, <2>3, Swept
<1> QED
  BY <1>2, <1>3, <1>4

\* Every head and every end of a command keeps the invariant.
LEMMA StepHInv == HInv /\ [HeadsNext]_headVars => HInv'
<1> SUFFICES ASSUME HInv, [HeadsNext]_headVars PROVE HInv'
  OBVIOUS
<1> QED
  BY TensorsKeep, ComponentsKeep, GeometryKeeps, GaugeKeeps, BundlesKeep, EndKeeps, UnchangedIsKept DEF HeadsNext

\* The invariant holds in every session.
THEOREM HeadsInductive == HeadsSpec => []HInv
  BY InitHInv, StepHInv, PTL DEF HeadsSpec

\* Whatever heads a session applies (eval_apply), however many objects its table
\* takes and whatever is swept in between, no object on the heap holds the
\* address of one that eval_sweep freed.
THEOREM NothingEverDangles == HeadsSpec => []NothingDangles
<1>1. HInv => NothingDangles
  BY HeldIsThere DEF NothingDangles
<1> QED
  BY <1>1, HeadsInductive, PTL

\* What an entry's recorded dependencies lead to lives where it lives, because a
\* closed set with the entry has that and no other home, and the marking loop
\* of eval_sweep finds the least such set.
LEMMA TogetherByHomes == HInv => OperandsBelongTogether
<1> SUFFICES ASSUME HInv, NEW t \in listed
             PROVE  /\ \A u \in Closure({t}), home \in {"chart", "algebra"} :
                         LivesOn(t, home) /\ LivesOn(u, home) => Home(t, home) = Home(u, home)
                    /\ Kind(t) = "componentTensor" => Of(Of(t).basis).space = Of(Of(t).head).space
  BY DEF OperandsBelongTogether
<1>1. t \in DOMAIN things /\ listed \subseteq DOMAIN things
  BY DEF HInv, HeapIsKept
<1>2. Fits(Kind(t), things[t])
  BY <1>1 DEF HInv, Shaped
<1>3. Kind(t) = "componentTensor" => Of(Of(t).basis).space = Of(Of(t).head).space
  BY <1>2 DEF Fits, Of
<1>4. ASSUME NEW home \in Homes, LivesOn(t, home), NEW u \in Closure({t}), LivesOn(u, home)
      PROVE  Home(t, home) = Home(u, home)
  <2>1. Kind(t) \in HomeKinds(home)
    <3>1. Kind(t) = home \/ home \in Roles(Kind(t))
      BY <1>4, <1>2 DEF LivesOn, Fits, Of
    <3> QED BY <3>1 DEF Homes, HomeKinds, Roles
  <2>2. PICK S \in SUBSET listed : Closed(S) /\ t \in S /\ SameHome(S, t, home)
    BY <2>1 DEF HInv, OneHome
  <2>3. Closure({t}) \subseteq S
    <3>1. IsFiniteSet(DOMAIN things) /\ \A v \in DOMAIN things : things[v].deps \subseteq DOMAIN things
      BY DEF HInv, HeapIsKept
    <3>2. {t} \in SUBSET DOMAIN things /\ S \in SUBSET DOMAIN things /\ {t} \subseteq S /\ DepsOf(S) \subseteq S
      BY <1>1, <2>2 DEF Closed
    <3> QED BY <3>1, <3>2, ClosureIsLeast
  <2> QED BY <1>4, <2>2, <2>3 DEF SameHome
<1> QED
  BY <1>3, <1>4 DEF Homes

\* Whatever an object was built from, through whatever chain of heads, lives on
\* its chart and in its algebra, and a component tensor's basis is one of its
\* head's space (check_pair, phy_component_tensor_create and the checks of each
\* head, which see their own operands only).
THEOREM BelongTogether == HeadsSpec => []OperandsBelongTogether
  BY TogetherByHomes, HeadsInductive, PTL
=============================================================================
