----------------------------- MODULE PermGroup -----------------------------
(***************************************************************************)
(* Signed permutation groups: src/src/permutation (perm.c, bsgs.c,         *)
(* orbit.c).  A group is created with a degree and limits, receives        *)
(* generators, and is built: a Schreier-Sims loop extends a list of strong *)
(* generators until every Schreier generator of every stabilizer level     *)
(* sifts to the identity.  Membership, orbits and the order are answered   *)
(* from the strong generators, and only while the group is built.          *)
(*                                                                         *)
(* Points are 0 .. Degree - 1, and the base is all of them in order, as in *)
(* the code: level l of the chain is the stabilizer of 0 .. l - 1.  The    *)
(* byte layout of the arrays is not modelled; running out of memory or of  *)
(* the step budget is Abandon, which may happen anywhere in a build.       *)
(***************************************************************************)
EXTENDS Integers, Sequences, FiniteSets, Accumulate

CONSTANTS Degree,         \* number of points
          MaxGenerators,  \* limits.max_generators
          MaxStrong,      \* limits.max_strong_generators
          Images          \* the permutations callers offer as generators

Points == 0 .. (Degree - 1)
Signs == {-1, 1}

\* phy_permutation_valid: every image in range and none repeated.
Valid(image) == /\ image \in [Points -> Points]
                /\ \A i, j \in Points : image[i] = image[j] => i = j

ASSUME DegreeAssumption == Degree \in Nat \ {0}
ASSUME LimitAssumption == MaxGenerators \in Nat \ {0} /\ MaxStrong \in Nat \ {0}
ASSUME ImagesAssumption == \A image \in Images : Valid(image)

Identity == [i \in Points |-> i]
Compose(left, right) == [i \in Points |-> left[right[i]]]
InverseOf(image) == [i \in Points |-> CHOOSE j \in Points : image[j] = i]

\* The first point an image moves, Degree for the identity.
Level(image) == IF image = Identity THEN Degree
                ELSE CHOOSE i \in Points : image[i] # i /\ \A j \in 0 .. (i - 1) : image[j] = j

SignedImages == [image : Images, sign : Signs]

\* Signed permutations, and what phy_perm_compose makes of two of them.
SignedPermutations == [image : {f \in [Points -> Points] : Valid(f)}, sign : Signs]
Unit == [image |-> Identity, sign |-> 1]
MinusUnit == [image |-> Identity, sign |-> -1]
Follow(left, right) == [image |-> Compose(left.image, right.image), sign |-> left.sign * right.sign]

VARIABLES generators,        \* sequence of signed permutations
          strong,            \* strong generators, with their levels
          negativeIdentity,  \* -1 times the identity belongs to the group
          built, order,      \* answers are valid
          chain,             \* transversals of the running build, <<>> outside one
          phase              \* "idle", "chain", "schreier" or "order"

vars == <<generators, strong, negativeIdentity, built, order, chain, phase>>

TypeOK ==
    /\ generators \in Seq(SignedImages) /\ Len(generators) <= MaxGenerators
    /\ Len(strong) <= MaxStrong
    /\ \A i \in DOMAIN strong : Valid(strong[i].image) /\ strong[i].sign \in Signs
    /\ negativeIdentity \in BOOLEAN /\ built \in BOOLEAN /\ order \in Nat
    /\ phase \in {"idle", "chain", "schreier", "order"}

Init == /\ generators = <<>> /\ strong = <<>> /\ negativeIdentity = FALSE
        /\ built = FALSE /\ order = 0 /\ chain = <<>> /\ phase = "idle"

-----------------------------------------------------------------------------
(* Strong generators and the chain *)

\* phy_perm_add_strong on the record [strong, negative, changed, failed].
AddStrong(acc, image, sign) ==
    LET same == {i \in DOMAIN acc.strong : acc.strong[i].image = image}
        clash == \E i \in same : acc.strong[i].sign # sign
    IN  IF image = Identity
        THEN [acc EXCEPT !.negative = @ \/ sign = -1,
                         !.changed = @ \/ (sign = -1 /\ ~acc.negative)]
        ELSE IF same # {}
        THEN [acc EXCEPT !.negative = @ \/ clash, !.changed = @ \/ (clash /\ ~acc.negative)]
        ELSE IF Len(acc.strong) >= MaxStrong
        THEN [acc EXCEPT !.failed = TRUE]
        ELSE [acc EXCEPT !.strong = Append(@, [image |-> image, sign |-> sign]), !.changed = TRUE]

Offer(acc, image, sign) == IF acc.failed THEN acc ELSE AddStrong(acc, image, sign)

\* A list of strong generators before anything is offered to it.
Listed(gens, negative) ==
    [strong |-> gens, negative |-> negative, changed |-> FALSE, failed |-> FALSE]

\* initialize_strong_generators: the caller's generators, and nothing else.
InitializeStrongGenerators ==
    LET after[n \in 0 .. Len(generators)] ==
            IF n = 0 THEN Listed(<<>>, FALSE)
            ELSE Offer(after[n - 1], generators[n].image, generators[n].sign)
    IN  after[Len(generators)]

\* One generator at one point of a level: skipped if it moves an earlier base
\* point; a point it reaches first is queued, with the product of generators
\* that led there and its sign.
ReachBy(gens, level, st, point, k) ==
    LET image == gens[k].image[point] IN
    IF Level(gens[k].image) < level \/ image \in DOMAIN st.reps THEN st
    ELSE [queue |-> Append(st.queue, image),
          reps  |-> [p \in DOMAIN st.reps \cup {image} |->
                       IF p = image THEN Follow(gens[k], st.reps[point]) ELSE st.reps[p]]]

\* The n-th point of the queue, if there is one, and every generator.
VisitPoint(gens, level, st, n) ==
    LET after[k \in 0 .. Len(gens)] ==
            IF k = 0 THEN st ELSE ReachBy(gens, level, after[k - 1], st.queue[n], k)
    IN  IF n > Len(st.queue) THEN st ELSE after[Len(gens)]

\* One level of phy_perm_chain_build: breadth first from the base point.
Transversal(gens, level) ==
    LET after[n \in 0 .. Degree] ==
            IF n = 0 THEN [queue |-> <<level>>, reps |-> [p \in {level} |-> Unit]]
            ELSE Evaluated(VisitPoint(gens, level, after[n - 1], n))
    IN  after[Degree].reps

ChainBuild(gens) == [level \in Points |-> Transversal(gens, level)]

\* An element divided by the representative of where it takes the base point,
\* or stuck where there is none.
Divide(ch, prior, level) ==
    LET image == prior.element.image[level]
        t == ch[level][image]
    IN  IF prior.stuck \/ image \notin DOMAIN ch[level]
        THEN [element |-> prior.element, stuck |-> TRUE]
        ELSE [element |-> [image |-> Compose(InverseOf(t.image), prior.element.image),
                           sign  |-> prior.element.sign * t.sign],
              stuck   |-> FALSE]

\* phy_perm_sift: divide by the transversal of each level until one has none.
Sift(ch, element, start) ==
    LET at[level \in start .. Degree] ==
            IF level = start THEN [element |-> element, stuck |-> FALSE]
            ELSE Evaluated(Divide(ch, at[level - 1], level - 1))
    IN  at[Degree].element

\* Variant: the sign of the representative divided out is forgotten.
SchreierUnsigned(ch, level, point, g) ==
    LET tx == ch[level][point]
        ty == ch[level][g.image[point]]
    IN  [image |-> Compose(InverseOf(ty.image), Compose(g.image, tx.image)),
         sign  |-> g.sign * tx.sign]

\* The Schreier generator of a level, a point of its orbit and a generator.
Schreier(ch, level, point, g) ==
    LET tx == ch[level][point]
        ty == ch[level][g.image[point]]
    IN  [image |-> Compose(InverseOf(ty.image), Compose(g.image, tx.image)),
         sign  |-> ty.sign * g.sign * tx.sign]

\* The n-th round of the three loops of a pass: its level, point and generator.
\* The generators are those the pass started with: the chain describes them.
Rounds(gens) == Degree * Degree * Len(gens)
LevelOf(gens, n) == (n - 1) \div (Degree * Len(gens))
PointOf(gens, n) == ((n - 1) \div Len(gens)) % Degree
GeneratorOf(gens, n) == gens[1 + ((n - 1) % Len(gens))]

\* A round is skipped at a point outside the orbit, and for a generator that
\* moves an earlier base point; another offers what is left of its element.
Round(ch, gens, acc, n) ==
    LET level == LevelOf(gens, n)
        point == PointOf(gens, n)
        g == GeneratorOf(gens, n)
        rest == Sift(ch, Schreier(ch, level, point, g), level + 1)
    IN  IF point \notin DOMAIN ch[level] \/ Level(g.image) < level THEN acc
        ELSE Offer(acc, rest.image, rest.sign)

\* add_schreier_generators up to a round: all of them unless the budget runs out.
AddSchreierGenerators(ch, gens, rounds) ==
    LET after[n \in 0 .. rounds] ==
            IF n = 0 THEN Listed(gens, negativeIdentity)
            ELSE Evaluated(Round(ch, gens, after[n - 1], n))
    IN  after[rounds]

\* compute_order: the orbit lengths multiplied, twice that when -1 is inside.
OrderOf(ch, negative) ==
    LET upTo[level \in 0 .. Degree] ==
            IF level = 0 THEN IF negative THEN 2 ELSE 1
            ELSE upTo[level - 1] * Cardinality(DOMAIN ch[level - 1])
    IN  upTo[Degree]

-----------------------------------------------------------------------------
(* The calls *)

\* phy_perm_group_add_generator: a repeated generator changes nothing, a new
\* one takes the answers away.
AddGenerator(image, sign) ==
    /\ phase = "idle"
    /\ \A i \in DOMAIN generators : generators[i] # [image |-> image, sign |-> sign]
    /\ Len(generators) < MaxGenerators
    /\ generators' = Append(generators, [image |-> image, sign |-> sign])
    /\ built' = FALSE /\ order' = 0
    /\ UNCHANGED <<strong, negativeIdentity, chain, phase>>

\* phy_perm_group_build_bsgs up to its loop.
StartBuild ==
    LET initial == InitializeStrongGenerators IN
    /\ phase = "idle"
    /\ built' = FALSE /\ order' = 0
    /\ strong' = initial.strong
    /\ negativeIdentity' = initial.negative
    /\ phase' = IF initial.failed THEN "idle" ELSE "chain"
    /\ chain' = <<>>
    /\ UNCHANGED generators

BuildChain ==
    /\ phase = "chain"
    /\ chain' = ChainBuild(strong)
    /\ phase' = "schreier"
    /\ UNCHANGED <<generators, strong, negativeIdentity, built, order>>

\* Variant: one pass is taken to be enough.
SchreierPassOnce ==
    LET pass == AddSchreierGenerators(chain, strong, Rounds(strong)) IN
    /\ phase = "schreier"
    /\ strong' = pass.strong
    /\ negativeIdentity' = pass.negative
    /\ phase' = IF pass.failed THEN "idle" ELSE "order"
    /\ chain' = IF pass.failed THEN <<>> ELSE chain
    /\ UNCHANGED <<generators, built, order>>

\* One Schreier pass; another follows exactly when this one changed something.
SchreierPass ==
    LET pass == AddSchreierGenerators(chain, strong, Rounds(strong)) IN
    /\ phase = "schreier"
    /\ strong' = pass.strong
    /\ negativeIdentity' = pass.negative
    /\ phase' = IF pass.failed THEN "idle" ELSE IF pass.changed THEN "chain" ELSE "order"
    /\ chain' = IF pass.failed THEN <<>> ELSE chain
    /\ UNCHANGED <<generators, built, order>>

\* The chain is built once more and the order read off it.
FinishBuild ==
    /\ phase = "order"
    /\ order' = OrderOf(ChainBuild(strong), negativeIdentity)
    /\ built' = TRUE /\ phase' = "idle" /\ chain' = <<>>
    /\ UNCHANGED <<generators, strong, negativeIdentity>>

\* The step budget or the memory ends somewhere in the build: what a pass had
\* added by then stays in the list, and the group is not built.
Abandon ==
    /\ phase # "idle"
    /\ IF phase = "schreier"
       THEN \E n \in 0 .. Rounds(strong) :
              LET pass == AddSchreierGenerators(chain, strong, n) IN
              strong' = pass.strong /\ negativeIdentity' = pass.negative
       ELSE UNCHANGED <<strong, negativeIdentity>>
    /\ phase' = "idle" /\ chain' = <<>>
    /\ UNCHANGED <<generators, built, order>>

Next == \/ \E image \in Images, sign \in Signs : AddGenerator(image, sign)
        \/ StartBuild \/ BuildChain \/ SchreierPass \/ FinishBuild
        \/ Abandon

Spec == Init /\ [][Next]_vars

-----------------------------------------------------------------------------
(* Queries *)

\* phy_perm_group_contains on a built group: the chain is rebuilt, and the
\* element belongs when it sifts to +1, or to -1 while -1 is inside.
IsMember(image, sign) ==
    LET r == Sift(ChainBuild(strong), [image |-> image, sign |-> sign], 0) IN
    r.image = Identity /\ (r.sign = 1 \/ negativeIdentity)

\* Where one strong generator takes a set of points, and the set itself.
Spread(seen) == seen \cup {strong[k].image[p] : k \in DOMAIN strong, p \in seen}

\* phy_perm_group_orbit: breadth first over all strong generators.
Orbit(point) ==
    LET seen[n \in 0 .. Degree] == IF n = 0 THEN {point} ELSE Spread(seen[n - 1])
    IN  seen[Degree]

-----------------------------------------------------------------------------
(* What the queries should answer *)

\* A set of elements and what the caller's generators make of it.
Extended(set) == set \cup {Follow(generators[k], e) : k \in DOMAIN generators, e \in set}

\* Everything the generators produce by repeated multiplication.
Generated ==
    LET closed[set \in SUBSET SignedPermutations] ==
            LET more == Extended(set) IN IF more = set THEN set ELSE closed[more]
    IN  closed[{Unit}]

\* A built group answers for exactly the group its generators produce: the
\* chain contains an element when and only when it is a product of generators,
\* with that sign (phy_perm_group_contains), the order counts those elements
\* (compute_order), and the orbit of a point is where they take it
\* (phy_perm_group_orbit).  A remainder that joined the list while the pass
\* still used the old chain must not be lost.
BuiltGroupIsGenerated ==
    built => LET group == Generated IN
             /\ \A e \in SignedPermutations : IsMember(e.image, e.sign) <=> e \in group
             /\ order = Cardinality(group)
             /\ \A p \in Points : Orbit(p) = {e.image[p] : e \in group}

\* Through every pass, and after one that was cut short, the strong generators
\* and the transversals stay inside the group, with signs the group knows: a
\* representative takes its level's base point where it is filed and fixes the
\* base points before it (phy_perm_chain_build, add_schreier_generators).
StaysInsideTheGroup ==
    LET group == Generated
    IN  /\ \A i \in DOMAIN strong : strong[i] \in group
        /\ negativeIdentity => MinusUnit \in group
        /\ \A level \in DOMAIN chain : \A p \in DOMAIN chain[level] :
             /\ chain[level][p] \in group
             /\ chain[level][p].image[level] = p
             /\ \A i \in 0 .. (level - 1) : chain[level][p].image[i] = i

\* A group that was built is the group its generators span, signs included,
\* and what it holds before that is never outside of it (bsgs.c).
GroupsAreGenerated == BuiltGroupIsGenerated /\ StaysInsideTheGroup
=============================================================================
