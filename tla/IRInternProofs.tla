-------------------------- MODULE IRInternProofs --------------------------
(***************************************************************************)
(* That phy_ir_validate finds nothing, that a failed call leaves the graph *)
(* as it was, that nothing is interned twice and that declarations agree:  *)
(* for every workload, every limit, and every allocation that may fail.    *)
(*                                                                         *)
(* One walk through the operations tells what a step does: nothing to the  *)
(* graph, or one node, one symbol or one declaration more, with accounts   *)
(* in which nothing shrank and room for what came.  Each of these keeps    *)
(* the invariant.                                                          *)
(***************************************************************************)
EXTENDS IRIntern, TLAPS, FiniteSetTheorems, NaturalsInduction, WellFoundedInduction

-----------------------------------------------------------------------------
(* Lists, tables and what files where *)

IsList(s) == s \in Seq({s[i] : i \in DOMAIN s})

\* A pool's elements have positions from 1.
LEMMA ListIs ==
  ASSUME NEW s, IsList(s)
  PROVE  Len(s) \in Nat /\ DOMAIN s = 1 .. Len(s)
  BY DEF IsList

\* An interval from 1 has one end.
LEMMA SameInterval ==
  ASSUME NEW k \in Nat, NEW n \in Nat, 1 .. k = 1 .. n
  PROVE  k = n
<1>1. k + 1 \notin 1 .. k /\ n + 1 \notin 1 .. n
  OBVIOUS
<1>2. k + 1 \notin 1 .. n /\ n + 1 \notin 1 .. k
  BY <1>1
<1> QED
  BY <1>2

\* What phy_ir_pool_push leaves.
LEMMA Appended ==
  ASSUME NEW s, IsList(s), NEW e
  PROVE  /\ IsList(Append(s, e)) /\ Len(Append(s, e)) = Len(s) + 1
         /\ DOMAIN Append(s, e) = 1 .. Len(s) + 1
         /\ \A i \in 1 .. Len(s) : Append(s, e)[i] = s[i]
         /\ Append(s, e)[Len(s) + 1] = e
<1> DEFINE S == {s[i] : i \in DOMAIN s} \cup {e}
           t == Append(s, e)
<1>1. s \in Seq(S)
  BY DEF IsList
<1>2. /\ t \in Seq(S) /\ Len(t) = Len(s) + 1 /\ Len(s) \in Nat
      /\ \A i \in 1 .. Len(s) : t[i] = s[i]
      /\ t[Len(s) + 1] = e
  BY <1>1
<1>3. DOMAIN t = 1 .. Len(s) + 1
  BY <1>2
<1>4. t \in Seq({t[i] : i \in DOMAIN t})
  <2>1. \A i \in 1 .. Len(t) : t[i] \in {t[j] : j \in DOMAIN t}
    BY <1>2, <1>3
  <2> HIDE DEF t
  <2> QED BY <1>2, <2>1
<1> QED
  BY <1>2, <1>3, <1>4 DEF IsList

\* Two lists in a row are one.
LEMMA Joined ==
  ASSUME NEW s, NEW t, IsList(s), IsList(t)
  PROVE  IsList(s \o t)
<1> DEFINE S == {s[i] : i \in DOMAIN s} \cup {t[i] : i \in DOMAIN t}
           u == s \o t
<1>1. s \in Seq(S) /\ t \in Seq(S)
  BY DEF IsList
<1>2. u \in Seq(S)
  BY <1>1
<1>3. \A i \in 1 .. Len(u) : u[i] \in {u[j] : j \in DOMAIN u}
  <2>1. DOMAIN u = 1 .. Len(u)
    BY <1>2
  <2> HIDE DEF u
  <2> QED BY <2>1
<1>4. u \in Seq({u[j] : j \in DOMAIN u})
  <2> HIDE DEF u
  <2> QED BY <1>2, <1>3
<1> QED
  BY <1>4 DEF IsList

\* So is what has as many elements as another list.
LEMMA Laid ==
  ASSUME NEW n \in Nat, NEW f
  PROVE  IsList([i \in 1 .. n |-> f[i]])
<1> DEFINE u == [i \in 1 .. n |-> f[i]]
<1>1. u \in Seq({f[i] : i \in 1 .. n})
  OBVIOUS
<1>2. {u[j] : j \in DOMAIN u} = {f[i] : i \in 1 .. n}
  OBVIOUS
<1> QED
  BY <1>1, <1>2 DEF IsList

\* The chains of a hash table.
IsTable(t) == \E size \in Nat \ {0} : DOMAIN t = 0 .. size - 1

\* So many numbers from zero, or from one.
LEMMA CountingUp ==
  ASSUME NEW k \in Nat
  PROVE  /\ IsFiniteSet(1 .. k) /\ Cardinality(1 .. k) = k
         /\ Cardinality(0 .. k - 1) = k
<1>1. \A a, b \in Int : IsFiniteSet(a .. b) /\ Cardinality(a .. b) = IF a > b THEN 0 ELSE b - a + 1
  BY FS_Interval
<1>2. 0 \in Int /\ 1 \in Int /\ k \in Int /\ k - 1 \in Int
  OBVIOUS
<1>3. /\ IsFiniteSet(1 .. k) /\ Cardinality(1 .. k) = IF 1 > k THEN 0 ELSE k - 1 + 1
      /\ Cardinality(0 .. k - 1) = IF 0 > k - 1 THEN 0 ELSE k - 1 - 0 + 1
  BY <1>1, <1>2, Zenon
<1> QED BY <1>3

\* A bucket number is in the table.
LEMMA TableIs ==
  ASSUME NEW t, IsTable(t)
  PROVE  /\ Buckets(t) \in Nat \ {0} /\ DOMAIN t = 0 .. Buckets(t) - 1
         /\ \A h \in Nat : h % Buckets(t) \in DOMAIN t
<1>1. PICK size \in Nat \ {0} : DOMAIN t = 0 .. size - 1
  BY DEF IsTable
<1>2. Cardinality(0 .. size - 1) = size
  BY CountingUp
<1>3. Buckets(t) = size
  BY <1>1, <1>2 DEF Buckets
<1> QED
  BY <1>1, <1>3

\* Every item is on the chain of its bucket, and on no other.
Files(t, hashes) ==
    /\ IsTable(t)
    /\ \A b \in DOMAIN t : t[b] = {i \in DOMAIN hashes : hashes[i] % Buckets(t) = b}

\* A new item goes in front of its chain.
LEMMA FiledFiles ==
  ASSUME NEW t, NEW hashes, NEW n \in Nat, DOMAIN hashes = 1 .. n, Files(t, hashes),
         NEW all, DOMAIN all = 1 .. n + 1, \A i \in 1 .. n : all[i] = hashes[i],
         NEW h \in Nat, all[n + 1] = h
  PROVE  Files(Filed(t, h, n + 1), all)
<1> DEFINE u == Filed(t, h, n + 1)
<1>1. IsTable(t) /\ h % Buckets(t) \in DOMAIN t
  BY TableIs DEF Files
<1>2. /\ DOMAIN u = DOMAIN t
      /\ \A b \in DOMAIN t : u[b] = IF b = h % Buckets(t) THEN t[b] \cup {n + 1} ELSE t[b]
  BY <1>1 DEF Filed
<1>3. IsTable(u) /\ Buckets(u) = Buckets(t)
  BY <1>1, <1>2 DEF IsTable, Buckets
<1>4. ASSUME NEW b \in DOMAIN t PROVE u[b] = {i \in DOMAIN all : all[i] % Buckets(t) = b}
  <2>1. t[b] = {i \in 1 .. n : hashes[i] % Buckets(t) = b}
    BY DEF Files
  <2>2. {i \in 1 .. n + 1 : all[i] % Buckets(t) = b}
          = {i \in 1 .. n : hashes[i] % Buckets(t) = b} \cup {i \in {n + 1} : h % Buckets(t) = b}
    OBVIOUS
  <2> HIDE DEF u
  <2> QED BY <1>2, <2>1, <2>2
<1> HIDE DEF u
<1>5. Files(u, all)
  BY <1>2, <1>3, <1>4 DEF Files
<1> QED
  BY <1>5 DEF u

\* A table that grows files everything anew; one that cannot is as it was.
LEMMA RehashedFiles ==
  ASSUME NEW mem, NEW pool, NEW t, NEW hashes, Files(t, hashes), NEW r \in Rehashed(mem, pool, t, hashes)
  PROVE  Files(r.table, hashes)
<1>1. CASE r.table = t
  BY <1>1
<1>2. CASE r.table = Refiled(2 * Buckets(t), hashes)
  <2> DEFINE u == Refiled(2 * Buckets(t), hashes)
  <2>1. Buckets(t) \in Nat \ {0}
    BY TableIs DEF Files
  <2>2. PICK size \in Nat \ {0} : size = 2 * Buckets(t)
    BY <2>1
  <2>3. /\ DOMAIN u = 0 .. size - 1
        /\ \A b \in 0 .. size - 1 : u[b] = {i \in DOMAIN hashes : hashes[i] % size = b}
    BY <2>2 DEF Refiled
  <2> HIDE DEF u
  <2>4. Buckets(u) = size
    BY <2>3, CountingUp DEF Buckets
  <2>5. Files(u, hashes)
    BY <2>3, <2>4 DEF Files, IsTable
  <2> QED BY <1>2, <2>5 DEF u
<1>3. r.table = t \/ r.table = Refiled(2 * Buckets(t), hashes)
  <2>1. \/ r = [mem |-> mem, table |-> t]
        \/ \E grown \in Reserve(mem, pool, 2 * Buckets(t)) :
              r = IF grown.ok THEN [mem |-> grown, table |-> Refiled(2 * Buckets(t), hashes)]
                  ELSE [mem |-> mem, table |-> t]
    BY DEF Rehashed
  <2> QED BY <2>1
<1> QED
  BY <1>1, <1>2, <1>3

-----------------------------------------------------------------------------
(* Lowest terms *)

Less == {p \in Nat \X Nat : p[1] < p[2]}

\* There is no endless descent among numbers.
LEMMA LessIsWellFounded == IsWellFoundedOn(Less, Nat)
  BY NatLessThanWellFounded DEF OpToRel, Less

\* A non-empty set of numbers has a least one.
LEMMA Least ==
  ASSUME NEW T, T \subseteq Nat, T # {}
  PROVE  \E x \in T : \A y \in T : x <= y
<1>1. \E x \in T : \A y \in T : <<y, x>> \notin Less
  BY LessIsWellFounded, WFMin
<1>2. \A x, y \in T : <<y, x>> \in Less <=> y < x
  BY DEF Less
<1>3. PICK x \in T : \A y \in T : ~(y < x)
  BY <1>1, <1>2
<1>4. ASSUME NEW y \in T PROVE x <= y
  <2>1. x \in Nat /\ y \in Nat /\ ~(y < x)
    BY <1>3
  <2> QED BY <2>1
<1> QED
  BY <1>4

Divides(d, m) == \E k \in Int : m = d * k
Common(m, n) == {d \in Nat : Divides(d, m) /\ Divides(d, n)}

\* The greatest of a set of numbers, and 0 of one without.
Greatest(S) == IF \E g \in S : \A d \in S : d <= g THEN CHOOSE g \in S : \A d \in S : d <= g ELSE 0

\* What divides two numbers divides the remainder, and back.
LEMMA CommonOfRemainder ==
  ASSUME NEW m \in Nat, NEW n \in Nat \ {0}
  PROVE  Common(m, n) = Common(n, m % n)
<1>1. PICK q \in Int, r \in Nat : q = m \div n /\ r = m % n /\ m = n * q + r
  <2>1. m \div n \in Int /\ m % n \in Nat /\ m = n * (m \div n) + (m % n)
    OBVIOUS
  <2> QED BY <2>1
<1>2. \A d, a, b \in Int : (a * d) - (b * d) * q = d * (a - b * q)
  OBVIOUS
<1>3. ASSUME NEW d \in Nat, Divides(d, m), Divides(d, n) PROVE Divides(d, r)
  <2>1. PICK a \in Int, b \in Int : m = d * a /\ n = d * b
    BY <1>3 DEF Divides
  <2>2. r = d * a - (d * b) * q
    <3>1. r = m - n * q
      BY <1>1
    <3> QED BY ONLY <3>1, <2>1
  <2>3. (d * b) * q = d * (b * q) /\ b * q \in Int
    OBVIOUS
  <2>4. r = d * (a - b * q)
    <3>1. \A c \in Int : d * a - d * c = d * (a - c)
      OBVIOUS
    <3> QED BY <3>1, <2>2, <2>3
  <2>5. a - b * q \in Int
    OBVIOUS
  <2> QED BY <2>4, <2>5 DEF Divides
<1>4. ASSUME NEW d \in Nat, Divides(d, n), Divides(d, r) PROVE Divides(d, m)
  <2>1. PICK a \in Int, b \in Int : r = d * a /\ n = d * b
    BY <1>4 DEF Divides
  <2>2. m = (d * b) * q + d * a
    BY <1>1, <2>1
  <2>3. (d * b) * q = d * (b * q) /\ b * q \in Int
    OBVIOUS
  <2>4. m = d * (b * q + a)
    <3>1. \A c \in Int : d * c + d * a = d * (c + a)
      OBVIOUS
    <3> QED BY <3>1, <2>2, <2>3
  <2>5. b * q + a \in Int
    OBVIOUS
  <2> QED BY <2>4, <2>5 DEF Divides
<1> QED
  BY <1>1, <1>3, <1>4 DEF Common

\* A number is the greatest divisor it has in common with 0.
LEMMA CommonWithZero == ASSUME NEW m \in Nat PROVE Greatest(Common(m, 0)) = m
<1>1. \A d \in Int : Divides(d, 0)
  BY DEF Divides
<1>2. CASE m = 0
  <2>1. Common(m, 0) = Nat
    BY <1>1, <1>2 DEF Common
  <2>2. \A g \in Nat : g + 1 \in Nat /\ ~(g + 1 <= g)
    OBVIOUS
  <2> QED BY <1>2, <2>1, <2>2 DEF Greatest
<1>3. CASE m > 0
  <2>1. m \in Common(m, 0)
    <3>1. m = m * 1
      OBVIOUS
    <3> QED BY <1>1, <3>1 DEF Common, Divides
  <2>2. ASSUME NEW d \in Nat, Divides(d, m) PROVE d <= m
    <3>1. PICK k \in Int : m = d * k
      BY <2>2 DEF Divides
    <3>2. k >= 1
      <4>1. ASSUME k <= 0 PROVE FALSE
        <5>1. d * k <= 0
          BY <4>1
        <5> QED BY <5>1, <3>1, <1>3
      <4> QED BY <4>1
    <3>3. d * k >= d
      <4>1. k - 1 \in Nat /\ d * k = d * (k - 1) + d
        BY <3>2
      <4>2. \A a \in Nat : d * a \in Nat
        OBVIOUS
      <4> QED BY <4>1, <4>2
    <3> QED BY <3>1, <3>3
  <2>3. \A d \in Common(m, 0) : d <= m
    BY <2>2 DEF Common
  <2>4. \A g \in Common(m, 0) : (\A d \in Common(m, 0) : d <= g) => g = m
    BY <2>1, <2>3 DEF Common
  <2> QED BY <2>1, <2>3, <2>4 DEF Greatest
<1> QED
  BY <1>2, <1>3

\* Euclid's steps end: the recursion of phy_gcd has a value.
LEMMA GcdIs ==
  ASSUME NEW m \in Nat, NEW n \in Nat
  PROVE  Gcd[<<m, n>>] = IF n = 0 THEN m ELSE Gcd[<<n, m % n>>]
<1> DEFINE P == Nat \X Nat
           h == [p \in P |-> Greatest(Common(p[1], p[2]))]
<1>1. \A a \in Nat, b \in Nat : h[<<a, b>>] = Greatest(Common(a, b))
  OBVIOUS
<1> HIDE DEF h
<1>2. ASSUME NEW a \in Nat, NEW b \in Nat
      PROVE  h[<<a, b>>] = IF b = 0 THEN a ELSE h[<<b, a % b>>]
  <2>1. CASE b = 0
    BY <2>1, <1>1, CommonWithZero
  <2>2. CASE b # 0
    <3>1. a % b \in Nat
      BY <2>2
    <3> QED BY <2>2, <3>1, <1>1, CommonOfRemainder, SMTT(30)
  <2> QED BY <2>1, <2>2
<1>3. h = [p \in P |-> IF p[2] = 0 THEN p[1] ELSE h[<<p[2], p[1] % p[2]>>]]
  <2>1. h = [p \in P |-> h[p]]
    BY DEF h
  <2>2. \A p \in P : h[p] = IF p[2] = 0 THEN p[1] ELSE h[<<p[2], p[1] % p[2]>>]
    BY <1>2
  <2> QED BY <2>1, <2>2
<1>4. \E g : g = [p \in P |-> IF p[2] = 0 THEN p[1] ELSE g[<<p[2], p[1] % p[2]>>]]
  BY <1>3
<1>5. Gcd = [p \in P |-> IF p[2] = 0 THEN p[1] ELSE Gcd[<<p[2], p[1] % p[2]>>]]
  BY <1>4 DEF Gcd
<1> HIDE DEF P
<1>6. <<m, n>> \in P /\ <<m, n>>[1] = m /\ <<m, n>>[2] = n
  BY DEF P
<1> QED
  BY <1>5, <1>6

\* What a divisor leaves of a number
Quotients(g, m) == {a \in Nat : m = g * a}

\* Bezout's identity: a number that divides both and is a sum of both.
IsGcd(g, m, n) ==
    /\ g \in Nat /\ Quotients(g, m) # {} /\ Quotients(g, n) # {}
    /\ \E x, y \in Int : g = m * x + n * y

\* It passes from the remainder to the number.
LEMMA GcdOfRemainder ==
  ASSUME NEW m \in Nat, NEW n \in Nat \ {0}, NEW g, IsGcd(g, n, m % n)
  PROVE  IsGcd(g, m, n)
<1>1. PICK q \in Nat, r \in Nat : r = m % n /\ m = n * q + r
  <2>1. m \div n \in Nat /\ m % n \in Nat /\ m = n * (m \div n) + (m % n)
    OBVIOUS
  <2> QED BY <2>1
<1>2. PICK a \in Nat, b \in Nat : n = g * a /\ r = g * b
  BY <1>1 DEF IsGcd, Quotients
<1>3. PICK x \in Int, y \in Int : g = n * x + r * y
  BY <1>1 DEF IsGcd
<1>4. g \in Nat
  BY DEF IsGcd
<1>5. m = g * (a * q + b)
  <2>1. m = (g * a) * q + g * b
    BY ONLY <1>1, <1>2
  <2>2. \A u, v, w, z \in Int : (u * v) * w + u * z = u * (v * w + z)
    OBVIOUS
  <2> QED BY <1>4, <2>1, <2>2
<1>6. a * q + b \in Nat
  <2>1. a * q \in Nat
    OBVIOUS
  <2> QED BY <2>1
<1>7. g = m * y + n * (x - q * y)
  <2>1. r = m - n * q
    BY <1>1
  <2>2. g = n * x + (m - n * q) * y
    BY ONLY <1>3, <2>1
  <2>3. \A u, v \in Int : v * x + (u - v * q) * y = u * y + v * (x - q * y)
    OBVIOUS
  <2> QED BY <2>2, <2>3
<1>8. x - q * y \in Int
  OBVIOUS
<1> QED
  BY <1>2, <1>4, <1>5, <1>6, <1>7, <1>8 DEF IsGcd, Quotients

\* Euclid's algorithm finds it.
LEMMA GcdIsGcd == \A n \in Nat : \A m \in Nat : IsGcd(Gcd[<<m, n>>], m, n)
<1> DEFINE Good(b) == \A a \in Nat : IsGcd(Gcd[<<a, b>>], a, b)
           T == {b \in Nat : ~Good(b)}
<1>1. SUFFICES ASSUME T # {} PROVE FALSE
  OBVIOUS
<1>2. PICK b \in T : \A y \in T : b <= y
  BY <1>1, Least
<1>3. b \in Nat /\ \A y \in Nat : y < b => Good(y)
  BY <1>2
<1>4. ASSUME NEW a \in Nat PROVE IsGcd(Gcd[<<a, b>>], a, b)
  <2>1. CASE b = 0
    <3>1. Gcd[<<a, b>>] = a
      BY <1>3, <2>1, GcdIs
    <3>2. a = a * 1 /\ 0 = a * 0 /\ a = a * 1 + 0 * 0
      OBVIOUS
    <3> QED BY <2>1, <3>1, <3>2 DEF IsGcd, Quotients
  <2>2. CASE b # 0
    <3>1. PICK r \in Nat : r = a % b /\ r < b
      BY <1>3, <2>2
    <3>2. Gcd[<<a, b>>] = Gcd[<<b, r>>]
      BY <1>3, <2>2, <3>1, GcdIs
    <3>3. IsGcd(Gcd[<<b, r>>], b, a % b)
      BY <1>3, <3>1
    <3> QED BY <1>3, <2>2, <3>2, <3>3, GcdOfRemainder
  <2> QED BY <2>1, <2>2
<1>5. Good(b)
  BY <1>4
<1> QED
  BY <1>2, <1>5

Coprime(a, b) == \E x, y \in Int : a * x + b * y = 1
SameValue(a, b, c, d) == a * d = c * b

\* A fraction in lowest terms.
IsLowest(q) ==
    /\ q = <<q[1], q[2]>> /\ q[1] \in Int /\ q[2] \in Nat \ {0}
    /\ Coprime(q[1], q[2])

\* What a whole number of times goes into a product.
LEMMA DivExact ==
  ASSUME NEW g \in Nat \ {0}, NEW a \in Nat
  PROVE  (g * a) \div g = a
<1>1. PICK m \in Nat : m = g * a
  <2>1. g * a \in Nat
    OBVIOUS
  <2> QED BY <2>1
<1>2. PICK q \in Int, r \in Nat : q = m \div g /\ r < g /\ m = g * q + r
  <2>1. m \div g \in Int /\ m % g \in Nat /\ m % g < g /\ m = g * (m \div g) + (m % g)
    BY <1>1
  <2> QED BY <2>1
<1>3. g * (a - q) = r
  <2>1. \A u, v \in Int : g * (u - v) = g * u - g * v
    OBVIOUS
  <2> QED BY <1>1, <1>2, <2>1
<1>4. \A u \in Int : u >= 1 => g * u >= g
  <2>1. ASSUME NEW u \in Int, u >= 1 PROVE g * u >= g
    <3>1. u - 1 \in Nat /\ g * u = g * (u - 1) + g
      BY <2>1
    <3>2. g * (u - 1) \in Nat
      BY <3>1
    <3> QED BY <3>1, <3>2
  <2> QED BY <2>1
<1>5. \A u \in Int : u <= -1 => g * u <= -g
  <2>1. ASSUME NEW u \in Int, u <= -1 PROVE g * u <= -g
    <3>1. -1 - u \in Nat /\ g * u = -(g * (-1 - u)) - g
      BY <2>1
    <3>2. g * (-1 - u) \in Nat
      BY <3>1
    <3> QED BY <3>1, <3>2
  <2> QED BY <2>1
<1>6. a - q = 0
  <2>1. a - q \in Int
    OBVIOUS
  <2>2. ~(a - q >= 1)
    BY <1>2, <1>3, <1>4, <2>1
  <2>3. ~(a - q <= -1)
    BY <1>2, <1>3, <1>5, <2>1
  <2> QED BY <2>1, <2>2, <2>3
<1> QED
  BY <1>1, <1>2, <1>6

\* phy_ir_rational writes lowest terms.
LEMMA ReducedIsLowest ==
  ASSUME NEW n \in Int, NEW d \in Int, d # 0
  PROVE  IsLowest(Reduced(n, d))
<1>1. PICK u \in Nat, v \in Nat \ {0} : u = Magnitude(n) /\ v = Magnitude(d)
  BY DEF Magnitude
<1>2. PICK g : g = Gcd[<<u, v>>]
  OBVIOUS
<1>3. IsGcd(g, u, v)
  BY <1>2, GcdIsGcd
<1>4. PICK a \in Nat, b \in Nat : u = g * a /\ v = g * b
  BY <1>3 DEF IsGcd, Quotients
<1>5. PICK x \in Int, y \in Int : g = u * x + v * y
  BY <1>3 DEF IsGcd
<1>6. g \in Nat \ {0} /\ b \in Nat \ {0}
  BY <1>3, <1>4 DEF IsGcd
<1>7. a * x + b * y = 1
  <2>1. g = (g * a) * x + (g * b) * y
    BY ONLY <1>4, <1>5
  <2>2. \A e \in Int : (e * a) * x + (e * b) * y = e * (a * x + b * y)
    OBVIOUS
  <2>3. PICK w \in Int : w = a * x + b * y
    OBVIOUS
  <2>4. g = g * w
    BY <1>6, <2>1, <2>2, <2>3
  <2>5. g * (w - 1) = 0
    <3>1. g * (w - 1) = g * w - g
      BY <1>6
    <3> QED BY <1>6, <2>4, <3>1
  <2>6. w = 1
    BY <1>6, <2>5
  <2> QED BY <2>3, <2>6
<1>8. u \div g = a /\ v \div g = b
  BY <1>4, <1>6, DivExact
<1>9. Reduced(n, d) = <<IF (n < 0) # (d < 0) THEN -a ELSE a, b>>
  BY <1>1, <1>2, <1>8 DEF Reduced
<1>10. PICK c \in Int : c = IF (n < 0) # (d < 0) THEN -a ELSE a
  OBVIOUS
<1>11. \E z \in Int : c * z + b * y = 1
  <2>1. CASE c = a
    BY <1>7, <2>1
  <2>2. CASE c = -a
    <3>1. (-a) * (-x) = a * x /\ -x \in Int
      OBVIOUS
    <3> QED BY <1>7, <2>2, <3>1
  <2> QED BY <1>10, <2>1, <2>2
<1> QED
  BY <1>6, <1>9, <1>10, <1>11 DEF IsLowest, Coprime

\* What divides a product and has nothing in common with one factor divides the
\* other.
LEMMA EuclidsLemma ==
  ASSUME NEW a \in Int, NEW b \in Nat \ {0}, NEW c \in Int, NEW d \in Nat \ {0},
         SameValue(a, b, c, d), Coprime(a, b)
  PROVE  \E k \in Nat : d = b * k /\ k # 0
<1>0. PICK x \in Int, y \in Int : a * x + b * y = 1 /\ a * d = c * b
  BY DEF SameValue, Coprime
<1>1. d = b * (c * x + d * y)
  <2>1. d = d * (a * x + b * y)
    BY <1>0
  <2>2. d * (a * x + b * y) = (a * d) * x + b * (d * y)
    OBVIOUS
  <2>3. (c * b) * x + b * (d * y) = b * (c * x + d * y)
    OBVIOUS
  <2> QED BY <1>0, <2>1, <2>2, <2>3
<1>2. PICK k \in Int : k = c * x + d * y
  OBVIOUS
<1>3. d = b * k
  BY <1>1, <1>2
<1>4. k > 0
  <2>1. SUFFICES ASSUME k <= 0 PROVE FALSE
    OBVIOUS
  <2>2. b * k <= 0
    BY <2>1
  <2> QED BY <1>3, <2>2
<1> QED
  BY <1>3, <1>4

\* Equal fractions in lowest terms are written alike.
LEMMA LowestIsUnique ==
  ASSUME NEW p, NEW q, IsLowest(p), IsLowest(q), p[1] * q[2] = q[1] * p[2]
  PROVE  p = q
<1>1. PICK a \in Int, b \in Nat \ {0} : p = <<a, b>> /\ a = p[1] /\ b = p[2]
  BY DEF IsLowest
<1>2. PICK c \in Int, d \in Nat \ {0} : q = <<c, d>> /\ c = q[1] /\ d = q[2]
  BY DEF IsLowest
<1>3. a * d = c * b
  BY <1>1, <1>2
<1>4. PICK k \in Nat : d = b * k /\ k # 0
  <2>1. Coprime(a, b) /\ SameValue(a, b, c, d)
    BY <1>1, <1>3 DEF IsLowest, SameValue
  <2> QED BY <2>1, EuclidsLemma
<1>5. PICK l \in Nat : b = d * l /\ l # 0
  <2>1. Coprime(c, d) /\ SameValue(c, d, a, b)
    BY <1>2, <1>3 DEF IsLowest, SameValue
  <2> QED BY <2>1, EuclidsLemma
<1>6. \A u, v \in Nat \ {0} : u * v >= u
  <2>1. ASSUME NEW u \in Nat \ {0}, NEW v \in Nat \ {0} PROVE u * v >= u
    <3>1. v - 1 \in Nat /\ u * v = u * (v - 1) + u
      OBVIOUS
    <3>2. u * (v - 1) \in Nat
      BY <3>1
    <3> QED BY <3>1, <3>2
  <2> QED BY <2>1
<1>7. d >= b /\ b >= d
  BY <1>4, <1>5, <1>6
<1>8. b = d
  BY <1>7
<1>9. a = c
  <2>1. a * b = c * b
    BY <1>3, <1>8
  <2>2. b * (a - c) = 0
    <3>1. b * (a - c) = a * b - c * b
      OBVIOUS
    <3> QED BY <2>1, <3>1
  <2> QED BY <2>2
<1> QED
  BY <1>1, <1>2, <1>8, <1>9

-----------------------------------------------------------------------------
(* Recursion along a list *)

\* What holds at 0 and from one place to the next holds as far as n.
LEMMA Along ==
  ASSUME NEW n \in Nat, NEW P, 0 \in P, \A i \in 1 .. n : i - 1 \in P => i \in P
  PROVE  \A i \in 0 .. n : i \in P
<1> DEFINE T == {i \in 0 .. n : i \notin P}
<1>1. SUFFICES ASSUME T # {} PROVE FALSE
  OBVIOUS
<1>2. PICK i \in T : \A y \in T : i <= y
  <2>1. T \subseteq Nat
    OBVIOUS
  <2> QED BY <1>1, <2>1, Least
<1>3. i \in 1 .. n /\ i - 1 \in 0 .. n /\ i - 1 \notin T
  BY <1>2
<1> QED
  BY <1>3

\* A function that goes on from its last value exists: F says how.
Iterates(s, zero, F, n) == s = [i \in 0 .. n |-> IF i = 0 THEN zero ELSE F[<<s[i - 1], i>>]]

LEMMA IteratesExist ==
  ASSUME NEW S, NEW zero \in S, NEW n \in Nat, NEW F \in [S \X (1 .. n) -> S]
  PROVE  \E s \in [0 .. n -> S] : Iterates(s, zero, F, n)
<1> DEFINE P == {k \in 0 .. n : \E s \in [0 .. k -> S] : Iterates(s, zero, F, k)}
<1>1. 0 \in P
  <2> DEFINE s == [i \in 0 .. 0 |-> zero]
  <2>1. s = [i \in 0 .. 0 |-> IF i = 0 THEN zero ELSE F[<<s[i - 1], i>>]]
    OBVIOUS
  <2>2. s \in [0 .. 0 -> S]
    OBVIOUS
  <2> HIDE DEF s
  <2>3. Iterates(s, zero, F, 0)
    BY <2>1 DEF Iterates
  <2> QED BY <2>2, <2>3
<1>2. ASSUME NEW k \in 1 .. n, k - 1 \in P PROVE k \in P
  <2>1. PICK s \in [0 .. k - 1 -> S] : Iterates(s, zero, F, k - 1)
    BY <1>2
  <2>2. s[k - 1] \in S /\ F[<<s[k - 1], k>>] \in S
    <3>1. k - 1 \in 0 .. k - 1
      OBVIOUS
    <3> QED BY <3>1
  <2> DEFINE u == [i \in 0 .. k |-> IF i = k THEN F[<<s[k - 1], k>>] ELSE s[i]]
             v == [i \in 0 .. k |-> IF i = 0 THEN zero ELSE F[<<u[i - 1], i>>]]
  <2>3. ASSUME NEW i \in 0 .. k - 1 PROVE s[i] = IF i = 0 THEN zero ELSE F[<<s[i - 1], i>>]
    <3>1. s = [j \in 0 .. k - 1 |-> IF j = 0 THEN zero ELSE F[<<s[j - 1], j>>]]
      BY <2>1 DEF Iterates
    <3> QED BY <3>1
  <2>4. ASSUME NEW i \in 0 .. k PROVE u[i] = v[i] /\ u[i] \in S
    <3>1. CASE i = k
      BY <2>2, <3>1, SMTT(30)
    <3>2. CASE i # k /\ i # 0
      <4>1. i \in 0 .. k - 1 /\ i - 1 \in 0 .. k /\ i - 1 # k
        BY <3>2
      <4>2. u[i] = s[i] /\ u[i - 1] = s[i - 1] /\ v[i] = F[<<u[i - 1], i>>]
        BY <3>2, <4>1
      <4> QED BY <3>2, <4>1, <4>2, <2>3
    <3>3. CASE i # k /\ i = 0
      <4>1. i \in 0 .. k - 1
        BY <3>3
      <4>2. s[i] = zero
        BY <2>3, <4>1, <3>3
      <4> QED BY <3>3, <4>2
    <3> QED BY <3>1, <3>2, <3>3
  <2>5. u = [i \in 0 .. k |-> u[i]] /\ v = [i \in 0 .. k |-> v[i]]
    OBVIOUS
  <2>6. u = v /\ u \in [0 .. k -> S]
    <3> HIDE DEF u, v
    <3> QED BY <2>4, <2>5
  <2>7. Iterates(u, zero, F, k)
    <3> HIDE DEF u
    <3> QED BY <2>6 DEF Iterates
  <2> HIDE DEF u, v
  <2>9. k \in 0 .. n
    OBVIOUS
  <2>8. \E s1 \in [0 .. k -> S] : Iterates(s1, zero, F, k)
    BY <2>6, <2>7
  <2> QED BY <2>8, <2>9
<1>3. n \in P
  <2> HIDE DEF P
  <2>1. n \in 0 .. n
    OBVIOUS
  <2> QED BY <1>1, <1>2, <2>1, Along
<1> QED
  BY <1>3

-----------------------------------------------------------------------------
(* The operands a sum or a product stages *)

\* A sum's operand that is no sum, and a sum's operands, are what it stages.
CanStage(kind, G, ref) ==
    IF Absorbs(kind, ref) THEN nodes[ref].children \in Seq(G) ELSE ref \in G

\* Operands, the children of an absorbed one in its place.
LEMMA FlattenedIn ==
  ASSUME NEW kind, NEW G, NEW operands, IsList(operands),
         \A i \in DOMAIN operands : CanStage(kind, G, operands[i])
  PROVE  Flattened(kind, operands) \in Seq(G)
<1> DEFINE Piece(i) == IF Absorbs(kind, operands[i]) THEN nodes[operands[i]].children
                       ELSE <<operands[i]>>
           n == Len(operands)
           L == Seq(G)
           F == [p \in L \X (1 .. n) |-> p[1] \o Piece(p[2])]
           s == CHOOSE s : s = [i \in 0 .. n |-> IF i = 0 THEN <<>> ELSE s[i - 1] \o Piece(i)]
<1>1. n \in Nat /\ DOMAIN operands = 1 .. n
  BY ListIs
<1>2. ASSUME NEW i \in 1 .. n PROVE Piece(i) \in L
  <2>1. CanStage(kind, G, operands[i])
    BY <1>1
  <2>2. CASE Absorbs(kind, operands[i])
    BY <2>1, <2>2 DEF CanStage
  <2>3. CASE ~Absorbs(kind, operands[i])
    <3>1. \A e \in G : <<e>> \in Seq(G)
      OBVIOUS
    <3> QED BY <2>1, <2>3, <3>1 DEF CanStage
  <2> QED BY <2>2, <2>3
<1> HIDE DEF Piece, n
<1>3. <<>> \in L /\ \A u, v \in L : u \o v \in L
  OBVIOUS
<1> HIDE DEF L
<1>4. F \in [L \X (1 .. n) -> L] /\ \A u \in L, i \in 1 .. n : F[<<u, i>>] = u \o Piece(i)
  BY <1>2, <1>3
<1> HIDE DEF F
<1>0. PICK t \in [0 .. n -> L] : Iterates(t, <<>>, F, n)
  BY <1>1, <1>3, <1>4, IteratesExist
<1>5. t = [i \in 0 .. n |-> IF i = 0 THEN <<>> ELSE F[<<t[i - 1], i>>]]
  BY <1>0 DEF Iterates
<1>6. \A i \in 0 .. n : i # 0 => i \in 1 .. n /\ t[i - 1] \in L
  BY <1>1
<1>7. t = [i \in 0 .. n |-> IF i = 0 THEN <<>> ELSE t[i - 1] \o Piece(i)]
  <2>1. [i \in 0 .. n |-> IF i = 0 THEN <<>> ELSE F[<<t[i - 1], i>>]]
          = [i \in 0 .. n |-> IF i = 0 THEN <<>> ELSE t[i - 1] \o Piece(i)]
    BY <1>4, <1>6
  <2> QED BY <1>5, <2>1
<1>8. s = [i \in 0 .. n |-> IF i = 0 THEN <<>> ELSE s[i - 1] \o Piece(i)]
  BY ONLY <1>7
<1> HIDE DEF s
<1>9. \A i \in 0 .. n : s[i] \in L
  <2> DEFINE P == {i \in 0 .. n : s[i] \in L}
  <2>1. 0 \in P
    BY <1>1, <1>3, <1>8
  <2>2. ASSUME NEW i \in 1 .. n, i - 1 \in P PROVE i \in P
    <3>1. i \in 0 .. n /\ i # 0
      BY <1>1
    <3>2. s[i] = s[i - 1] \o Piece(i)
      BY <1>8, <3>1
    <3> QED BY <1>2, <1>3, <2>2, <3>1, <3>2
  <2>3. \A i \in 0 .. n : i \in P
    <3> HIDE DEF P
    <3> QED BY <1>1, <2>1, <2>2, Along
  <2> QED BY <2>3
<1>10. s[n] \in L
  BY <1>1, <1>9
<1>11. Flattened(kind, operands) = s[n]
  BY ZenonT(40) DEF Flattened, n, s, Piece
<1> QED
  BY <1>10, <1>11 DEF L

\* A ref among others.
LEMMA InsertedIn ==
  ASSUME NEW G, NEW u \in Seq(G), NEW ref \in G
  PROVE  Inserted(u, ref) \in Seq(G)
<1> DEFINE front == {i \in DOMAIN u : Compare(u[i], ref) <= 0}
<1>1. Len(u) \in Nat /\ DOMAIN u = 1 .. Len(u)
  OBVIOUS
<1>2. IsFiniteSet(front) /\ Cardinality(front) \in Nat /\ Cardinality(front) <= Len(u)
  <2>1. IsFiniteSet(1 .. Len(u)) /\ Cardinality(1 .. Len(u)) = Len(u)
    BY <1>1, CountingUp
  <2>2. front \subseteq 1 .. Len(u)
    BY <1>1
  <2> HIDE DEF front
  <2> QED BY <2>1, <2>2, FS_Subset, FS_CardinalityType
<1> HIDE DEF front
<1>3. PICK k \in Nat : k = Cardinality(front) /\ k <= Len(u)
  BY <1>2
<1>4. SubSeq(u, 1, k) \in Seq(G) /\ SubSeq(u, k + 1, Len(u)) \in Seq(G) /\ <<ref>> \in Seq(G)
  BY <1>1, <1>3
<1>5. \A v, w \in Seq(G) : v \o w \in Seq(G)
  OBVIOUS
<1>6. Inserted(u, ref) = SubSeq(u, 1, k) \o <<ref>> \o SubSeq(u, k + 1, Len(u))
  BY <1>3 DEF Inserted, front
<1> QED
  BY <1>4, <1>5, <1>6

\* Sorting leaves the same refs.
LEMMA SortedIn ==
  ASSUME NEW G, NEW refs \in Seq(G)
  PROVE  Sorted(refs) \in Seq(G)
<1> DEFINE n == Len(refs)
           L == Seq(G)
           F == [p \in L \X (1 .. n) |-> Inserted(p[1], refs[p[2]])]
           s == CHOOSE s : s = [i \in 0 .. n |-> IF i = 0 THEN <<>> ELSE Inserted(s[i - 1], refs[i])]
<1>1. n \in Nat /\ \A i \in 1 .. n : refs[i] \in G
  OBVIOUS
<1>2. <<>> \in L /\ \A u \in L, i \in 1 .. n : Inserted(u, refs[i]) \in L
  <2>1. \A u \in Seq(G), ref \in G : Inserted(u, ref) \in Seq(G)
    BY InsertedIn
  <2> HIDE DEF n
  <2> QED BY <1>1, <2>1
<1> HIDE DEF n, L
<1>3. F \in [L \X (1 .. n) -> L] /\ \A u \in L, i \in 1 .. n : F[<<u, i>>] = Inserted(u, refs[i])
  BY <1>2
<1> HIDE DEF F
<1>0. PICK t \in [0 .. n -> L] : Iterates(t, <<>>, F, n)
  BY <1>1, <1>2, <1>3, IteratesExist
<1>4. t = [i \in 0 .. n |-> IF i = 0 THEN <<>> ELSE F[<<t[i - 1], i>>]]
  BY <1>0 DEF Iterates
<1>5. \A i \in 0 .. n : i # 0 => i \in 1 .. n /\ t[i - 1] \in L
  BY <1>1
<1>6. t = [i \in 0 .. n |-> IF i = 0 THEN <<>> ELSE Inserted(t[i - 1], refs[i])]
  <2>1. [i \in 0 .. n |-> IF i = 0 THEN <<>> ELSE F[<<t[i - 1], i>>]]
          = [i \in 0 .. n |-> IF i = 0 THEN <<>> ELSE Inserted(t[i - 1], refs[i])]
    BY <1>3, <1>5
  <2> QED BY <1>4, <2>1
<1>7. s = [i \in 0 .. n |-> IF i = 0 THEN <<>> ELSE Inserted(s[i - 1], refs[i])]
  BY ONLY <1>6
<1> HIDE DEF s
<1>8. \A i \in 0 .. n : s[i] \in L
  <2> DEFINE P == {i \in 0 .. n : s[i] \in L}
  <2>1. 0 \in P
    BY <1>1, <1>2, <1>7
  <2>2. ASSUME NEW i \in 1 .. n, i - 1 \in P PROVE i \in P
    <3>1. i \in 0 .. n /\ i # 0
      BY <1>1
    <3>2. s[i] = Inserted(s[i - 1], refs[i])
      BY <1>7, <3>1
    <3> QED BY <1>2, <2>2, <3>1, <3>2
  <2>3. \A i \in 0 .. n : i \in P
    <3> HIDE DEF P
    <3> QED BY <1>1, <2>1, <2>2, Along
  <2> QED BY <2>3
<1>9. s[n] \in L
  BY <1>1, <1>8
<1> QED
  BY <1>9 DEF Sorted, L, n, s

\* What make_nary stages
LEMMA StagedIn ==
  ASSUME NEW kind, NEW G, NEW operands, IsList(operands),
         \A i \in DOMAIN operands : CanStage(kind, G, operands[i])
  PROVE  Staged(kind, operands) \in Seq(G)
  BY FlattenedIn, SortedIn DEF Staged

-----------------------------------------------------------------------------
(* Sums *)

\* s holds the sums of the first claims, as far as n.
Adds(s, f, n) == s = [i \in 0 .. n |-> IF i = 0 THEN 0 ELSE s[i - 1] + f[i]]

\* They exist.
LEMMA AddsExist ==
  ASSUME NEW n \in Nat, NEW f, \A i \in 1 .. n : f[i] \in Int
  PROVE  \E s : Adds(s, f, n)
<1> DEFINE F == [p \in Int \X (1 .. n) |-> p[1] + f[p[2]]]
<1>1. F \in [Int \X (1 .. n) -> Int] /\ \A k \in Int, i \in 1 .. n : F[<<k, i>>] = k + f[i]
  OBVIOUS
<1> HIDE DEF F
<1>2. PICK s \in [0 .. n -> Int] : Iterates(s, 0, F, n)
  <2>1. PICK Z, zero : Z = Int /\ zero = 0
    OBVIOUS
  <2>2. zero \in Z /\ F \in [Z \X (1 .. n) -> Z]
    BY <1>1, <2>1
  <2>3. \E s \in [0 .. n -> Z] : Iterates(s, zero, F, n)
    BY <2>2, IteratesExist
  <2> QED BY <2>1, <2>3
<1>3. s = [i \in 0 .. n |-> IF i = 0 THEN 0 ELSE F[<<s[i - 1], i>>]]
  BY <1>2 DEF Iterates
<1>4. \A i \in 0 .. n : i # 0 => i \in 1 .. n /\ s[i - 1] \in Int
  OBVIOUS
<1>5. [i \in 0 .. n |-> IF i = 0 THEN 0 ELSE F[<<s[i - 1], i>>]]
        = [i \in 0 .. n |-> IF i = 0 THEN 0 ELSE s[i - 1] + f[i]]
  BY <1>1, <1>4
<1> QED
  BY <1>3, <1>5 DEF Adds

\* A list of claims and another that differs at one place, if at all.
Changed(f, g, n, k, delta) ==
    /\ k \in 1 .. n + 1 /\ delta \in Int
    /\ \A i \in 1 .. n : f[i] \in Int /\ g[i] = IF i = k THEN f[i] + delta ELSE f[i]

\* One claim more, or one that changed, is what the sum changes by.
LEMMA AddsDiffer ==
  ASSUME NEW n \in Nat, NEW m \in Nat, n <= m, NEW f, NEW g, NEW k, NEW delta,
         Changed(f, g, n, k, delta), NEW s, NEW t, Adds(s, f, n), Adds(t, g, m)
  PROVE  \A i \in 0 .. n : s[i] \in Int /\ t[i] = IF i < k THEN s[i] ELSE s[i] + delta
<1> DEFINE Good(i) == s[i] \in Int /\ t[i] = IF i < k THEN s[i] ELSE s[i] + delta
           T == {i \in 0 .. n : ~Good(i)}
<1>0. /\ k \in 1 .. n + 1 /\ delta \in Int
      /\ \A i \in 1 .. n : f[i] \in Int /\ g[i] = IF i = k THEN f[i] + delta ELSE f[i]
  BY DEF Changed
<1>1. SUFFICES ASSUME T # {} PROVE FALSE
  OBVIOUS
<1>2. PICK i \in T : \A y \in T : i <= y
  <2>1. T \subseteq Nat
    OBVIOUS
  <2> QED BY <1>1, <2>1, Least
<1>3. /\ s[i] = IF i = 0 THEN 0 ELSE s[i - 1] + f[i]
      /\ t[i] = IF i = 0 THEN 0 ELSE t[i - 1] + g[i]
  <2>1. /\ s = [j \in 0 .. n |-> IF j = 0 THEN 0 ELSE s[j - 1] + f[j]]
        /\ t = [j \in 0 .. m |-> IF j = 0 THEN 0 ELSE t[j - 1] + g[j]]
    BY DEF Adds
  <2>2. i \in 0 .. n /\ i \in 0 .. m
    OBVIOUS
  <2> QED BY <2>1, <2>2
<1>4. CASE i = 0
  BY <1>0, <1>2, <1>3, <1>4
<1>5. CASE i # 0
  <2>1. i \in 1 .. n /\ i - 1 \in 0 .. n /\ i - 1 \notin T
    BY <1>2, <1>5
  <2>2. Good(i - 1)
    BY <2>1
  <2>3. s[i] = s[i - 1] + f[i] /\ t[i] = t[i - 1] + g[i]
    BY <1>3, <1>5
  <2>4. PICK a \in Int, b \in Int : a = s[i - 1] /\ b = f[i]
    BY <1>0, <2>1, <2>2
  <2>5. CASE i < k
    BY <1>0, <1>2, <2>1, <2>2, <2>3, <2>4, <2>5
  <2>6. CASE i = k
    BY <1>0, <1>2, <2>1, <2>2, <2>3, <2>4, <2>6
  <2>7. CASE i > k
    <3>1. t[i - 1] = a + delta /\ g[i] = b
      BY <1>0, <2>1, <2>2, <2>4, <2>7
    <3> QED BY <1>0, <1>2, <2>1, <2>3, <2>4, <2>7, <3>1
  <2> QED BY <1>0, <2>1, <2>5, <2>6, <2>7
<1> QED
  BY <1>4, <1>5

\* Nothing less than nothing comes out.
LEMMA AddsOfNumbers ==
  ASSUME NEW n \in Nat, NEW f, \A i \in 1 .. n : f[i] \in Nat, NEW s, Adds(s, f, n)
  PROVE  \A i \in 0 .. n : s[i] \in Nat
<1> DEFINE P == {i \in 0 .. n : s[i] \in Nat}
<1>1. s = [i \in 0 .. n |-> IF i = 0 THEN 0 ELSE s[i - 1] + f[i]]
  BY DEF Adds
<1>2. 0 \in P
  BY <1>1
<1>3. ASSUME NEW i \in 1 .. n, i - 1 \in P PROVE i \in P
  <2>1. i \in 0 .. n /\ i # 0
    OBVIOUS
  <2>2. s[i] = s[i - 1] + f[i]
    BY <1>1, <2>1
  <2> QED BY <1>3, <2>1, <2>2
<1>4. \A i \in 0 .. n : i \in P
  <2> HIDE DEF P
  <2> QED BY <1>2, <1>3, Along
<1> QED
  BY <1>4

\* The sum of so many claims.
LEMMA ClaimedIs ==
  ASSUME NEW n \in Nat, NEW f, IsList(f), DOMAIN f = 1 .. n, \A i \in 1 .. n : f[i] \in Int
  PROVE  \E s : Adds(s, f, n) /\ Claimed(f) = s[n]
<1> DEFINE s == CHOOSE s : s = [i \in 0 .. Len(f) |-> IF i = 0 THEN 0 ELSE s[i - 1] + f[i]]
<1>1. Len(f) = n
  <2>1. Len(f) \in Nat /\ 1 .. Len(f) = 1 .. n
    BY ListIs
  <2> QED BY <2>1, SameInterval
<1>2. \E t : t = [i \in 0 .. Len(f) |-> IF i = 0 THEN 0 ELSE t[i - 1] + f[i]]
  <2>1. PICK t : Adds(t, f, n)
    BY AddsExist
  <2> QED BY <1>1, <2>1 DEF Adds
<1>3. s = [i \in 0 .. Len(f) |-> IF i = 0 THEN 0 ELSE s[i - 1] + f[i]]
  BY <1>2
<1>4. Claimed(f) = s[n]
  BY <1>1 DEF Claimed
<1> HIDE DEF s
<1>5. Adds(s, f, n)
  BY <1>1, <1>3 DEF Adds
<1> QED
  BY <1>4, <1>5

\* It is a number.
LEMMA ClaimedIsNumber ==
  ASSUME NEW n \in Nat, NEW f, IsList(f), DOMAIN f = 1 .. n, \A i \in 1 .. n : f[i] \in Nat
  PROVE  Claimed(f) \in Nat
<1>1. PICK s : Adds(s, f, n) /\ Claimed(f) = s[n]
  BY ClaimedIs
<1>2. n \in 0 .. n
  OBVIOUS
<1> QED
  BY <1>1, <1>2, AddsOfNumbers

\* A claim that grew
LEMMA ClaimChanged ==
  ASSUME NEW n \in Nat, NEW f, IsList(f), DOMAIN f = 1 .. n,
         NEW g, IsList(g), DOMAIN g = 1 .. n, NEW k, NEW delta, Changed(f, g, n, k, delta), k <= n
  PROVE  Claimed(f) \in Int /\ Claimed(g) = Claimed(f) + delta
<1>0. \A i \in 1 .. n : f[i] \in Int /\ g[i] \in Int
  BY DEF Changed
<1>1. PICK s : Adds(s, f, n) /\ Claimed(f) = s[n]
  BY <1>0, ClaimedIs
<1>2. PICK t : Adds(t, g, n) /\ Claimed(g) = t[n]
  BY <1>0, ClaimedIs
<1>3. \A i \in 0 .. n : s[i] \in Int /\ t[i] = IF i < k THEN s[i] ELSE s[i] + delta
  <2>1. n <= n
    OBVIOUS
  <2> QED BY <1>1, <1>2, <2>1, AddsDiffer
<1>4. n \in 0 .. n /\ ~(n < k)
  BY DEF Changed
<1> QED
  BY <1>1, <1>2, <1>3, <1>4

\* A new claim
LEMMA ClaimAdded ==
  ASSUME NEW n \in Nat, NEW f, IsList(f), DOMAIN f = 1 .. n, \A i \in 1 .. n : f[i] \in Int,
         NEW g, IsList(g), DOMAIN g = 1 .. n + 1, \A i \in 1 .. n : g[i] = f[i], g[n + 1] \in Int
  PROVE  Claimed(f) \in Int /\ Claimed(g) = Claimed(f) + g[n + 1]
<1>1. PICK s : Adds(s, f, n) /\ Claimed(f) = s[n]
  BY ClaimedIs
<1>2. PICK t : Adds(t, g, n + 1) /\ Claimed(g) = t[n + 1]
  <2>1. \A i \in 1 .. n + 1 : g[i] \in Int
    <3>1. \A i \in 1 .. n + 1 : i \in 1 .. n \/ i = n + 1
      OBVIOUS
    <3> QED BY <3>1
  <2> QED BY <2>1, ClaimedIs
<1>3. \A i \in 0 .. n : s[i] \in Int /\ t[i] = IF i < n + 1 THEN s[i] ELSE s[i] + 0
  <2>1. n <= n + 1 /\ n + 1 \in Nat
    OBVIOUS
  <2>2. Changed(f, g, n, n + 1, 0)
    BY DEF Changed
  <2> QED BY <1>1, <1>2, <2>1, <2>2, AddsDiffer
<1>4. t[n + 1] = t[n] + g[n + 1]
  <2>1. t = [i \in 0 .. n + 1 |-> IF i = 0 THEN 0 ELSE t[i - 1] + g[i]]
    BY <1>2 DEF Adds
  <2> QED BY <2>1
<1>5. s[n] \in Int /\ t[n] = s[n]
  BY <1>3
<1> QED
  BY <1>1, <1>2, <1>4, <1>5

-----------------------------------------------------------------------------
(* The capacity a pool doubles to *)

\* What doubling comes to.
Doublings(room) ==
    {x \in Nat : \A S \in SUBSET Nat : room \in S /\ (\A y \in S : 2 * y \in S) => x \in S}
LeastOf(T) == CHOOSE x \in T : \A y \in T : x <= y

\* Doubling never takes away,
LEMMA DoublingsGrow ==
  ASSUME NEW r \in Nat
  PROVE  r \in Doublings(r) /\ \A x \in Doublings(r) : r <= x
<1>1. r \in Doublings(r)
  BY DEF Doublings
<1> DEFINE S == {x \in Nat : r <= x}
<1>2. S \in SUBSET Nat /\ r \in S /\ \A y \in S : 2 * y \in S
  OBVIOUS
<1>3. \A x \in Doublings(r) : x \in S
  <2> HIDE DEF S
  <2> QED BY <1>2 DEF Doublings
<1> QED
  BY <1>1, <1>3

\* and goes on from the double.
LEMMA DoublingsGoOn ==
  ASSUME NEW r \in Nat
  PROVE  Doublings(r) = {r} \cup Doublings(2 * r)
<1>1. ASSUME NEW x \in Doublings(2 * r) PROVE x \in Doublings(r)
  <2>1. ASSUME NEW S \in SUBSET Nat, r \in S, \A y \in S : 2 * y \in S PROVE x \in S
    <3>1. 2 * r \in S
      BY <2>1
    <3> QED BY <2>1, <3>1 DEF Doublings
  <2> QED BY <2>1 DEF Doublings
<1> DEFINE S == {r} \cup Doublings(2 * r)
<1>2. S \in SUBSET Nat
  BY DEF Doublings
<1>3. 2 * r \in S
  BY DoublingsGrow
<1>4. ASSUME NEW y \in Doublings(2 * r) PROVE 2 * y \in Doublings(2 * r)
  <2>1. y \in Nat /\ 2 * y \in Nat
    BY DEF Doublings
  <2>2. \A Q \in SUBSET Nat : 2 * r \in Q /\ (\A z \in Q : 2 * z \in Q) => 2 * y \in Q
    BY DEF Doublings
  <2> QED BY <2>1, <2>2 DEF Doublings
<1>5. \A y \in S : 2 * y \in S
  BY <1>3, <1>4
<1>6. \A x \in Doublings(r) : x \in S
  <2> HIDE DEF S
  <2>1. r \in S
    BY DEF S
  <2> QED BY <1>2, <1>5, <2>1 DEF Doublings
<1>7. r \in Doublings(r)
  BY DoublingsGrow
<1> QED
  BY <1>1, <1>6, <1>7

\* The doublings of phy_ir_pool_reserve end.
LEMMA DoubledIs ==
  ASSUME NEW r \in Nat \ {0}, NEW n \in Nat
  PROVE  Doubled[<<r, n>>] = IF r >= n THEN r ELSE Doubled[<<2 * r, n>>]
<1> DEFINE P == (Nat \ {0}) \X Nat
           From(a, b) == {x \in Doublings(a) : x >= b}
           h == [p \in P |-> LeastOf(From(p[1], p[2]))]
<1>1. \A a \in Nat \ {0}, b \in Nat : h[<<a, b>>] = LeastOf(From(a, b))
  OBVIOUS
<1> HIDE DEF h
<1>2. ASSUME NEW a \in Nat \ {0}, NEW b \in Nat
      PROVE  h[<<a, b>>] = IF a >= b THEN a ELSE h[<<2 * a, b>>]
  <2>1. CASE a >= b
    <3>1. a \in From(a, b) /\ \A x \in From(a, b) : a <= x
      BY <2>1, DoublingsGrow
    <3>2. \A x \in From(a, b) : x \in Nat
      BY DEF Doublings
    <3>3. \A x \in From(a, b) : (\A y \in From(a, b) : x <= y) => x = a
      BY <3>1, <3>2
    <3> HIDE DEF From
    <3>4. LeastOf(From(a, b)) = a
      BY <3>1, <3>3 DEF LeastOf
    <3> QED BY <1>1, <2>1, <3>4
  <2>2. CASE ~(a >= b)
    <3>1. From(a, b) = From(2 * a, b)
      BY <2>2, DoublingsGoOn
    <3>2. 2 * a \in Nat \ {0}
      OBVIOUS
    <3> HIDE DEF From
    <3> QED BY <1>1, <2>2, <3>1, <3>2
  <2> QED BY <2>1, <2>2
<1>3. h = [p \in P |-> IF p[1] >= p[2] THEN p[1] ELSE h[<<2 * p[1], p[2]>>]]
  <2>1. h = [p \in P |-> h[p]]
    BY DEF h
  <2>2. \A p \in P : h[p] = IF p[1] >= p[2] THEN p[1] ELSE h[<<2 * p[1], p[2]>>]
    BY <1>2
  <2> QED BY <2>1, <2>2
<1>4. \E g : g = [p \in P |-> IF p[1] >= p[2] THEN p[1] ELSE g[<<2 * p[1], p[2]>>]]
  BY <1>3
<1>5. Doubled = [p \in P |-> IF p[1] >= p[2] THEN p[1] ELSE Doubled[<<2 * p[1], p[2]>>]]
  BY <1>4 DEF Doubled
<1> HIDE DEF P
<1>6. <<r, n>> \in P /\ <<r, n>>[1] = r /\ <<r, n>>[2] = n
  BY DEF P
<1> QED
  BY <1>5, <1>6

\* They end with room enough.
LEMMA DoubledIsEnough ==
  ASSUME NEW n \in Nat
  PROVE  \A r \in Nat \ {0} : Doubled[<<r, n>>] \in Nat /\ Doubled[<<r, n>>] >= n /\ Doubled[<<r, n>>] >= r
<1> DEFINE Good(r) == Doubled[<<r, n>>] \in Nat /\ Doubled[<<r, n>>] >= n /\ Doubled[<<r, n>>] >= r
           T == {d \in Nat : \E r \in Nat \ {0} : ~Good(r) /\ r < n /\ d = n - r}
<1>1. ASSUME NEW r \in Nat \ {0}, r >= n PROVE Good(r)
  <2>1. Doubled[<<r, n>>] = r
    BY <1>1, DoubledIs
  <2> QED BY <1>1, <2>1
<1>2. T = {}
  <2>1. SUFFICES ASSUME T # {} PROVE FALSE
    OBVIOUS
  <2> HIDE DEF Good
  <2>2. PICK d \in T : \A y \in T : d <= y
    BY <2>1, Least
  <2>3. PICK r \in Nat \ {0} : ~Good(r) /\ r < n /\ d = n - r
    BY <2>2
  <2>4. Good(2 * r)
    <3>1. CASE 2 * r >= n
      BY <1>1, <3>1
    <3>2. CASE ~(2 * r >= n)
      <4>1. n - 2 * r \in Nat /\ n - 2 * r < d /\ 2 * r \in Nat \ {0} /\ 2 * r < n
        BY <2>3, <3>2
      <4> QED BY <2>2, <4>1
    <3> QED BY <3>1, <3>2
  <2>5. Doubled[<<r, n>>] = Doubled[<<2 * r, n>>]
    BY <2>3, DoubledIs
  <2>6. Good(r)
    <3>1. PICK x : x = Doubled[<<2 * r, n>>] /\ x \in Nat /\ x >= n /\ x >= 2 * r
      BY <2>4 DEF Good
    <3>2. x >= r
      BY <3>1
    <3> QED BY <2>5, <3>1, <3>2 DEF Good
  <2> QED BY <2>3, <2>6
<1>3. ASSUME NEW r \in Nat \ {0}, ~(r >= n) PROVE Good(r)
  <2> HIDE DEF Good
  <2>1. r < n /\ n - r \in Nat
    BY <1>3
  <2> QED BY <1>2, <2>1
<1> QED
  BY <1>1, <1>3

-----------------------------------------------------------------------------
(* What is charged *)

\* Each pool is counted once.
LEMMA PoolListIs ==
  /\ Len(PoolList) = 11
  /\ \A i \in 1 .. 11, j \in 1 .. 11 : PoolList[i] = PoolList[j] => i = j
  /\ Pools = {PoolList[i] : i \in 1 .. 11}
<1>1. Len(PoolList) = 11 /\ DOMAIN PoolList = 1 .. 11
  BY DEF PoolList
<1>2. ASSUME NEW i \in 1 .. 11, NEW j \in 1 .. 11, PoolList[i] = PoolList[j] PROVE i = j
  BY <1>2 DEF PoolList
<1> QED
  BY <1>1, <1>2 DEF Pools

Charges(c) == [i \in 1 .. 11 |-> c[PoolList[i]] * ElementSize[PoolList[i]]]

\* What the pools are charged is a number.
LEMMA ChargesAre ==
  ASSUME NEW c \in [Pools -> Nat]
  PROVE  /\ IsList(Charges(c)) /\ DOMAIN Charges(c) = 1 .. 11
         /\ \A i \in 1 .. 11 : Charges(c)[i] = c[PoolList[i]] * ElementSize[PoolList[i]]
         /\ \A i \in 1 .. 11 : Charges(c)[i] \in Nat
         /\ PoolBytes(c) = Claimed(Charges(c)) /\ PoolBytes(c) \in Nat
<1>1. ASSUME NEW i \in 1 .. 11 PROVE Charges(c)[i] \in Nat
  <2>1. PoolList[i] \in Pools
    BY PoolListIs
  <2>2. PICK a \in Nat, b \in Nat : a = c[PoolList[i]] /\ b = ElementSize[PoolList[i]]
    BY <2>1, LimitAssumption
  <2>3. a * b \in Nat
    OBVIOUS
  <2> QED BY <2>2, <2>3 DEF Charges
<1>2. DOMAIN Charges(c) = 1 .. 11
  BY DEF Charges
<1>3. IsList(Charges(c))
  <2>1. Charges(c) = [i \in 1 .. 11 |-> Charges(c)[i]]
    BY DEF Charges
  <2>2. \A f : IsList([i \in 1 .. 11 |-> f[i]])
    BY Laid
  <2> QED BY <2>1, <2>2
<1>4. PoolBytes(c) = Claimed(Charges(c))
  BY PoolListIs DEF PoolBytes, Charges
<1>5. Claimed(Charges(c)) \in Nat
  BY <1>1, <1>2, <1>3, ClaimedIsNumber
<1> QED
  BY <1>1, <1>2, <1>3, <1>4, <1>5 DEF Charges

\* discharge and charge: one pool's change is the change of the whole.
LEMMA OnePoolChanged ==
  ASSUME NEW c \in [Pools -> Nat], NEW pool \in Pools, NEW room \in Nat, c[pool] <= room
  PROVE  LET d == [c EXCEPT ![pool] = room] IN
         /\ d \in [Pools -> Nat]
         /\ PoolBytes(d) = PoolBytes(c) + (room - c[pool]) * ElementSize[pool]
         /\ PoolBytes(c) <= PoolBytes(d)
<1> DEFINE d == [c EXCEPT ![pool] = room]
<1>1. d \in [Pools -> Nat] /\ \A p \in Pools : d[p] = IF p = pool THEN room ELSE c[p]
  OBVIOUS
<1> HIDE DEF d
<1>2. PICK k \in 1 .. 11 : PoolList[k] = pool
  BY PoolListIs
<1>3. PICK e \in Nat, old \in Nat : e = ElementSize[pool] /\ old = c[pool]
  BY LimitAssumption
<1> DEFINE delta == (room - old) * e
<1>4. room - old \in Nat /\ delta \in Nat /\ room * e = old * e + delta
  <2>1. room - old \in Nat
    BY <1>3
  <2>2. \A a, b \in Nat : a * b \in Nat
    OBVIOUS
  <2>3. \A a, b, x \in Int : a * x = b * x + (a - b) * x
    OBVIOUS
  <2> QED BY <2>1, <2>2, <2>3
<1> HIDE DEF delta
<1>5. /\ \A i \in 1 .. 11 : Charges(c)[i] = c[PoolList[i]] * ElementSize[PoolList[i]] /\ Charges(c)[i] \in Nat
      /\ IsList(Charges(c)) /\ DOMAIN Charges(c) = 1 .. 11
      /\ PoolBytes(c) = Claimed(Charges(c)) /\ PoolBytes(c) \in Nat
  BY ChargesAre
<1>6. /\ \A i \in 1 .. 11 : Charges(d)[i] = d[PoolList[i]] * ElementSize[PoolList[i]]
      /\ IsList(Charges(d)) /\ DOMAIN Charges(d) = 1 .. 11
      /\ PoolBytes(d) = Claimed(Charges(d))
  BY <1>1, ChargesAre
<1>7. ASSUME NEW i \in 1 .. 11
      PROVE  Charges(d)[i] = IF i = k THEN Charges(c)[i] + delta ELSE Charges(c)[i]
  <2>1. CASE i = k
    <3>1. Charges(c)[i] = old * e /\ Charges(d)[i] = room * e
      BY <1>1, <1>2, <1>3, <1>5, <1>6, <2>1
    <3> QED BY <1>4, <2>1, <3>1
  <2>2. CASE i # k
    <3>1. PoolList[i] \in Pools /\ PoolList[i] # pool
      BY <1>2, <2>2, PoolListIs
    <3>2. d[PoolList[i]] = c[PoolList[i]]
      BY <1>1, <3>1
    <3> QED BY <1>5, <1>6, <2>2, <3>2
  <2> QED BY <2>1, <2>2
<1>8. Claimed(Charges(d)) = Claimed(Charges(c)) + delta
  <2>1. Changed(Charges(c), Charges(d), 11, k, delta)
    BY <1>4, <1>5, <1>7 DEF Changed
  <2>2. PICK n \in Nat : n = 11
    OBVIOUS
  <2>3. PICK f, g : f = Charges(c) /\ g = Charges(d)
    OBVIOUS
  <2>4. IsList(f) /\ IsList(g) /\ DOMAIN f = 1 .. n /\ DOMAIN g = 1 .. n /\ k <= n
    BY <1>5, <1>6, <2>2, <2>3
  <2>5. Changed(f, g, n, k, delta)
    BY <2>1, <2>2, <2>3
  <2>6. Claimed(g) = Claimed(f) + delta
    BY <2>4, <2>5, ClaimChanged
  <2> QED BY <2>3, <2>6
<1>9. PoolBytes(d) = PoolBytes(c) + delta
  BY <1>5, <1>6, <1>8
<1>10. delta = (room - c[pool]) * ElementSize[pool]
  BY <1>3 DEF delta
<1>11. PoolBytes(c) <= PoolBytes(d)
  BY <1>4, <1>5, <1>9
<1> QED
  BY <1>1, <1>9, <1>10, <1>11 DEF d

-----------------------------------------------------------------------------
(* Room *)

\* The accounts before a call
IsMem(m) == {"capacity", "bytes", "failed", "ok"} \subseteq DOMAIN m
Solvent == capacity \in [Pools -> Nat] /\ bytes = PoolBytes(capacity)

\* and in one: nothing shrank, what grew was affordable with the old buffer, and
\* no error is set while it may go on.
MemOK(m) ==
    /\ IsMem(m) /\ (m.ok => m.failed = failed)
    /\ m.capacity \in [Pools -> Nat] /\ m.bytes = PoolBytes(m.capacity)
    /\ bytes <= m.bytes
    /\ \A p \in Pools : capacity[p] <= m.capacity[p]
    /\ \A p \in Pools : m.capacity[p] # capacity[p] => bytes + m.capacity[p] * ElementSize[p] <= MaxBytes

Grows(m, r) == \A p \in Pools : m.capacity[p] <= r.capacity[p]

\* Growing is transitive.
LEMMA GrowsOn ==
  ASSUME NEW a, NEW b, NEW c, MemOK(a), MemOK(b), MemOK(c), Grows(a, b), Grows(b, c)
  PROVE  Grows(a, c)
<1>1. ASSUME NEW p \in Pools PROVE a.capacity[p] <= c.capacity[p]
  <2>1. PICK x \in Nat, y \in Nat, z \in Nat :
           x = a.capacity[p] /\ y = b.capacity[p] /\ z = c.capacity[p]
    BY DEF MemOK
  <2>2. x <= y /\ y <= z
    BY <2>1 DEF Grows
  <2> QED BY <2>1, <2>2
<1> QED
  BY <1>1 DEF Grows

\* phy_ir_pool_reserve: when it succeeds there is room for what is needed.
LEMMA ReservedIsRoom ==
  ASSUME Solvent, NEW mem, MemOK(mem), NEW pool \in Pools, NEW needed \in Nat,
         NEW r \in Reserve(mem, pool, needed)
  PROVE  MemOK(r) /\ Grows(mem, r) /\ (r.ok => needed <= r.capacity[pool])
<1> DEFINE c == mem.capacity
           room == NewCapacity(c[pool], needed)
<1>1. /\ IsMem(mem) /\ (mem.ok => mem.failed = failed) /\ c \in [Pools -> Nat] /\ mem.bytes = PoolBytes(c) /\ PoolBytes(c) \in Nat
      /\ bytes \in Nat /\ bytes <= mem.bytes /\ capacity \in [Pools -> Nat]
  BY ChargesAre DEF MemOK, Solvent
<1>2. \A p \in Pools : c[p] <= c[p]
  BY <1>1
<1>3. CASE r = mem /\ needed <= c[pool]
  BY <1>2, <1>3 DEF Grows
<1>4. CASE r = Refused(mem)
  <2>1. DOMAIN r = DOMAIN mem /\ r.ok = FALSE /\ r.capacity = mem.capacity /\ r.bytes = mem.bytes
    BY <1>1, <1>4 DEF Refused, IsMem
  <2> QED BY <1>1, <1>2, <2>1 DEF MemOK, Grows, IsMem
<1>5. CASE r = Grown(mem, pool, room) /\ Affordable(mem, room * ElementSize[pool])
  <2>1. room \in Nat /\ needed <= room /\ c[pool] <= room
    <3>1. PICK x \in Nat : x = c[pool]
      BY <1>1
    <3>2. CASE x = 0
      <4>1. room = Doubled[<<FirstCapacity, needed>>]
        BY <3>1, <3>2 DEF NewCapacity
      <4> QED BY <3>1, <3>2, <4>1, DoubledIsEnough, LimitAssumption
    <3>3. CASE x # 0
      <4>1. room = Doubled[<<x, needed>>]
        BY <3>1, <3>3 DEF NewCapacity
      <4>2. x \in Nat \ {0}
        BY <3>3
      <4> QED BY <3>1, <4>1, <4>2, DoubledIsEnough
    <3> QED BY <3>2, <3>3
  <2> HIDE DEF room
  <2> DEFINE d == [c EXCEPT ![pool] = room]
  <2>2. /\ DOMAIN r = DOMAIN mem /\ r.ok = mem.ok /\ r.failed = mem.failed
        /\ r.capacity = d /\ r.bytes = mem.bytes + (room - c[pool]) * ElementSize[pool]
    BY <1>1, <1>5 DEF Grown, IsMem
  <2>3. d \in [Pools -> Nat] /\ r.bytes = PoolBytes(d) /\ mem.bytes <= r.bytes
    <3>1. /\ d \in [Pools -> Nat]
          /\ PoolBytes(d) = PoolBytes(c) + (room - c[pool]) * ElementSize[pool]
          /\ PoolBytes(c) <= PoolBytes(d)
      BY <1>1, <2>1, OnePoolChanged
    <3> QED BY <1>1, <2>2, <3>1
  <2>4. \A p \in Pools : d[p] = IF p = pool THEN room ELSE c[p]
    BY <1>1
  <2> HIDE DEF d
  <2>5. r.bytes \in Nat
    BY <2>3, ChargesAre
  <2>6. ASSUME NEW p \in Pools
        PROVE  capacity[p] <= d[p] /\ c[p] <= d[p]
    <3>1. PICK x \in Nat, y \in Nat : x = capacity[p] /\ y = c[p] /\ x <= y
      BY <1>1 DEF MemOK
    <3> QED BY <2>1, <2>4, <3>1
  <2>7. ASSUME NEW p \in Pools, d[p] # capacity[p]
        PROVE  bytes + d[p] * ElementSize[p] <= MaxBytes
    <3>1. CASE p = pool
      <4>1. PICK size \in Nat : size = room * ElementSize[pool]
        <5>1. PICK e \in Nat : e = ElementSize[pool]
          BY LimitAssumption
        <5>2. room * e \in Nat
          BY <2>1
        <5> QED BY <5>1, <5>2
      <4>2. size <= MaxBytes - mem.bytes
        BY <1>5, <4>1 DEF Affordable
      <4>3. d[p] * ElementSize[p] = size
        BY <2>4, <3>1, <4>1
      <4>4. PICK u \in Nat, v \in Nat, w \in Nat : u = bytes /\ v = mem.bytes /\ w = MaxBytes
        BY <1>1, LimitAssumption
      <4>5. u + size <= w
        BY <1>1, <4>2, <4>4
      <4> QED BY <4>3, <4>4, <4>5
    <3>2. CASE p # pool
      <4>1. d[p] = c[p]
        BY <2>4, <3>2
      <4> QED BY <2>7, <4>1 DEF MemOK
    <3> QED BY <3>1, <3>2
  <2>8. bytes <= r.bytes
    BY <1>1, <2>3, <2>5
  <2>9. MemOK(r)
    BY <1>1, <2>2, <2>3, <2>6, <2>7, <2>8 DEF MemOK, IsMem
  <2>10. Grows(mem, r)
    BY <2>2, <2>6 DEF Grows
  <2>11. needed <= r.capacity[pool]
    BY <2>1, <2>2, <2>4
  <2> QED BY <2>9, <2>10, <2>11
<1>6. \/ r = mem /\ needed <= c[pool]
      \/ r = Refused(mem)
      \/ r = Grown(mem, pool, room) /\ Affordable(mem, room * ElementSize[pool])
  BY DEF Reserve
<1> QED
  BY <1>3, <1>4, <1>5, <1>6

\* Memory has the accounts as they are.
LEMMA MemoryOK ==
  ASSUME Solvent
  PROVE  MemOK(Memory) /\ Memory.ok
<1>1. \A p \in Pools : capacity[p] <= capacity[p]
  BY DEF Solvent
<1>2. bytes <= bytes
  BY ChargesAre DEF Solvent
<1> QED
  BY <1>1, <1>2 DEF Solvent, MemOK, IsMem, Memory

\* A table that doubles was charged for; one that cannot, costs nothing.
LEMMA RehashedIsRoom ==
  ASSUME Solvent, NEW mem, MemOK(mem), NEW pool \in Pools, NEW t, IsTable(t), NEW hashes,
         NEW r \in Rehashed(mem, pool, t, hashes)
  PROVE  MemOK(r.mem) /\ Grows(mem, r.mem) /\ (mem.ok => r.mem.ok)
<1>1. PICK size \in Nat : size = 2 * Buckets(t)
  BY TableIs
<1>2. \/ r = [mem |-> mem, table |-> t]
      \/ \E grown \in Reserve(mem, pool, size) :
            r = IF grown.ok THEN [mem |-> grown, table |-> Refiled(size, hashes)]
                ELSE [mem |-> mem, table |-> t]
  BY <1>1 DEF Rehashed
<1>3. r.mem = mem \/ \E grown \in Reserve(mem, pool, size) : grown.ok /\ r.mem = grown
  BY <1>2
<1>4. Grows(mem, mem)
  BY DEF Grows, MemOK
<1> QED
  BY <1>3, <1>4, ReservedIsRoom

\* A call that was refused keeps its accounts.
LEMMA RefusedOK ==
  ASSUME NEW mem, MemOK(mem)
  PROVE  MemOK(Refused(mem))
<1>1. DOMAIN Refused(mem) = DOMAIN mem /\ Refused(mem).ok = FALSE
      /\ Refused(mem).capacity = mem.capacity /\ Refused(mem).bytes = mem.bytes
  BY DEF Refused, MemOK, IsMem
<1> HIDE DEF Refused
<1> QED
  BY <1>1 DEF MemOK, IsMem

-----------------------------------------------------------------------------
(* The inductive invariant *)

\* A declared pair of slots, in order.
IsPair(d) == \E lo, hi \in Nat : \E how : lo < hi /\ d = [pair |-> <<lo, hi>>, how |-> how]

\* A symbol's record, with declarations that agree.
SymbolOK(x) ==
    /\ x = [name |-> x.name, assumed |-> x.assumed, symmetries |-> x.symmetries]
    /\ x.name \in Names
    /\ ~({"positive", "negative"} \subseteq x.assumed)
    /\ IsFiniteSet(x.symmetries)
    /\ \A d \in x.symmetries : IsPair(d)
    /\ \A d, e \in x.symmetries : d.pair = e.pair => d = e

\* A number is in lowest terms, and inline if and only if it fits.
NumberOK(n) ==
    /\ IsBig(n) => n.kind \in Exact
    /\ n.kind \in Exact => \E q : IsLowest(q) /\ n = NumberNode(q, IF FitsInline(q) THEN "" ELSE "big")

\* A node by itself
NodeOK(n) ==
    /\ n.kind \in DOMAIN Rank /\ n.head \in SomeSymbol /\ n.space \in SomeSymbol
    /\ n.number[1] \in Int /\ n.number[2] \in Int
    /\ IsList(n.children) /\ Len(n.children) <= MaxChildren
    /\ n.depth \in 1 .. workload.maxDepth
    /\ NumberOK(n)

\* and over the first nodes: what it refers to was there, is less deep, and is
\* not what it would absorb.
Over(n, last) ==
    \A i \in DOMAIN n.children :
        /\ n.children[i] \in 1 .. last
        /\ nodes[n.children[i]].depth < n.depth
        /\ ~Absorbs(n.kind, n.children[i])

SymbolsInOrder == IsList(symbols) /\ \A s \in SymbolIds : SymbolOK(symbols[s])
NodesInOrder ==
    /\ IsList(nodes) /\ Len(nodes) <= workload.maxNodes
    /\ \A r \in Refs : NodeOK(nodes[r]) /\ Over(nodes[r], r - 1)

\* What the tables file by.
NamesNow == [s \in SymbolIds |-> symbols[s].name]
HashesNow == [r \in Refs |-> HashOf(nodes[r])]
TablesInOrder == Files(nodeTable, HashesNow) /\ Files(symbolTable, NamesNow)

\* No symbol has another's name, no node another's structure.
NamesDiffer == \A s, t \in SymbolIds : symbols[s].name = symbols[t].name => s = t
NodesDiffer == \A r, s \in Refs : nodes[r] = nodes[s] => r = s

\* What a node claims of a payload pool, whatever the pools hold.
Amount(n, pool) ==
    CASE pool = "exactText" /\ IsBig(n) -> TextBytes(n)
      [] pool = "bigExacts" /\ IsBig(n) -> 1
      [] pool = "rationals" /\ n.kind = "RATIONAL" /\ ~IsBig(n) -> 1
      [] pool = "children" -> Len(n.children)
      [] OTHER -> 0

\* What is claimed, by whom.
NodePools == {"children", "rationals", "bigExacts", "exactText"}
PayloadPools == NodePools \cup {"strings", "symmetries"}
NameBytes == [s \in SymbolIds |-> NameLength[symbols[s].name] + 1]
Declared == [s \in SymbolIds |-> Cardinality(symbols[s].symmetries)]
Amounts(pool) == [r \in Refs |-> Amount(nodes[r], pool)]

\* The pools hold that, and have room for it.
Counted ==
    /\ filled \in [PayloadPools -> Nat]
    /\ filled.strings = Claimed(NameBytes)
    /\ filled.symmetries = Claimed(Declared)
    /\ \A pool \in NodePools : filled[pool] = Claimed(Amounts(pool))
HasRoom(m, want) == \A p \in PayloadPools : want[p] \in Nat /\ want[p] <= m.capacity[p]

IInv ==
    /\ workload \in Workloads
    /\ SymbolsInOrder /\ NodesInOrder /\ TablesInOrder /\ NamesDiffer /\ NodesDiffer
    /\ Solvent /\ Counted /\ HasRoom(Memory, filled)

\* A node's hash is a number.
LEMMA HashIsNumber ==
  ASSUME SymbolsInOrder, NEW n, NodeOK(n)
  PROVE  HashOf(n) \in Nat
<1>1. \A s \in SomeSymbol : NameOf(s) \in Nat
  BY DataAssumption DEF SomeSymbol, NameOf, SymbolsInOrder, SymbolOK, Null
<1>2. Rank[n.kind] \in Nat
  <2>1. n.kind \in DOMAIN Rank
    BY DEF NodeOK
  <2>2. \A kind \in DOMAIN Rank : Rank[kind] \in Nat
    BY DEF Rank
  <2> QED BY <2>1, <2>2
<1>3. Len(n.children) \in Nat
  BY ListIs DEF NodeOK
<1>4. PICK k \in Int : k = n.number[1]
  BY DEF NodeOK
<1>5. PICK a \in Nat, b \in Nat, c \in Nat, d \in Nat :
         a = Rank[n.kind] /\ b = NameOf(n.head) /\ c = NameOf(n.space) /\ d = Len(n.children)
  BY <1>1, <1>2, <1>3 DEF NodeOK
<1>6. HashOf(n) = a + b + c + d + (IF k < 0 THEN 1 - k ELSE k)
  BY <1>4, <1>5 DEF HashOf
<1> QED
  BY <1>6

\* What a node claims is a number, and what same_payload compares of it.
LEMMA AmountIsNumber ==
  ASSUME NEW n, NodeOK(n), NEW pool
  PROVE  Amount(n, pool) \in Nat
<1>1. Len(n.children) \in Nat
  BY ListIs DEF NodeOK
<1>2. TextBytes(n) \in Nat
  BY DEF TextBytes, Digits
<1> QED
  BY <1>1, <1>2 DEF Amount

\* A node's payload goes to the pools of its kind.
LEMMA PayloadIs ==
  ASSUME Counted, NEW n, NodeOK(n)
  PROVE  /\ DOMAIN WithPayload(n) = PayloadPools
         /\ \A pool \in PayloadPools :
              /\ WithPayload(n)[pool] = filled[pool] + Amount(n, pool)
              /\ WithPayload(n)[pool] \in Nat
<1>1. DOMAIN filled = PayloadPools /\ \A pool \in PayloadPools : filled[pool] \in Nat
  BY DEF Counted
<1>2. ASSUME NEW pool \in PayloadPools PROVE WithPayload(n)[pool] = filled[pool] + Amount(n, pool)
  BY <1>1 DEF WithPayload, Payload, Amount
<1> QED
  BY <1>1, <1>2, AmountIsNumber DEF WithPayload

\* Room stays while pools grow.
LEMMA RoomStays ==
  ASSUME NEW a, NEW b, MemOK(a), MemOK(b), Grows(a, b)
  PROVE  /\ \A p \in Pools, k \in Nat : k <= a.capacity[p] => k <= b.capacity[p]
         /\ \A want : HasRoom(a, want) => HasRoom(b, want)
<1>1. ASSUME NEW p \in Pools, NEW k \in Nat, k <= a.capacity[p] PROVE k <= b.capacity[p]
  <2>1. PICK x \in Nat, y \in Nat : x = a.capacity[p] /\ y = b.capacity[p] /\ x <= y
    BY DEF MemOK, Grows
  <2> QED BY <1>1, <2>1
<1>2. PayloadPools \subseteq Pools
  <2>1. Pools = {PoolList[i] : i \in 1 .. 11}
    BY PoolListIs
  <2>2. /\ PoolList[2] = "children" /\ PoolList[3] = "rationals" /\ PoolList[4] = "bigExacts"
        /\ PoolList[5] = "exactText" /\ PoolList[7] = "strings" /\ PoolList[8] = "symmetries"
    BY DEF PoolList
  <2> QED BY <2>1, <2>2 DEF PayloadPools, NodePools
<1> QED
  BY <1>1, <1>2 DEF HasRoom

\* The room there is before a call is there in it.
LEMMA RoomBefore ==
  ASSUME IInv, NEW mem, MemOK(mem)
  PROVE  HasRoom(mem, filled)
<1>1. MemOK(Memory)
  BY MemoryOK DEF IInv
<1>2. Grows(Memory, mem)
  BY DEF Grows, MemOK, Memory
<1> QED
  BY <1>1, <1>2, RoomStays DEF IInv

\* The accounts of Memory are the accounts.
LEMMA MemoryIs == Memory.capacity = capacity /\ Memory.bytes = bytes /\ Memory.failed = failed /\ Memory.ok = TRUE
  BY DEF Memory

-----------------------------------------------------------------------------
(* What a step does *)

\* The call paid for what it published and set no error.
Paid == \E m : MemOK(m) /\ m.ok /\ Account(m) /\ HasRoom(m, filled')

NodeStep ==
    /\ \E mem, n : /\ NodeOK(n) /\ Over(n, Len(nodes)) /\ Holding(n) = {} /\ Len(nodes) < workload.maxNodes
                   /\ PublishNode(mem, n)
    /\ Paid
SymbolStep ==
    /\ \E mem : \E name \in Names : SymbolNamed(name) = {} /\ PublishSymbol(mem, name)
    /\ Paid
Redeclared(sym, x, k) ==
    /\ SymbolOK(x) /\ x.name = symbols[sym].name
    /\ Cardinality(x.symmetries) = Cardinality(symbols[sym].symmetries) + k
    /\ symbols' = [symbols EXCEPT ![sym] = x]
    /\ filled' = [filled EXCEPT !.symmetries = filled.symmetries + k]
DeclareStep ==
    /\ \E sym \in SymbolIds : \E x : \E k \in {0, 1} : Redeclared(sym, x, k)
    /\ UNCHANGED <<nodes, nodeTable, symbolTable>>
    /\ Paid
IdleStep == UNCHANGED Graph /\ \E m : MemOK(m) /\ capacity' = m.capacity /\ bytes' = m.bytes

Kept == IdleStep \/ NodeStep

\* A call that publishes nothing
LEMMA ReturnKeeps ==
  ASSUME NEW mem, MemOK(mem), Return(mem) \/ Fail(mem)
  PROVE  Kept
<1>1. CASE Return(mem)
  BY <1>1 DEF Return, Account, Kept, IdleStep
<1>2. CASE Fail(mem)
  <2>1. PICK m : m = Refused(mem) /\ MemOK(m)
    BY RefusedOK
  <2>2. Return(m)
    BY <1>2, <2>1 DEF Fail
  <2> QED BY <2>1, <2>2 DEF Return, Account, Kept, IdleStep
<1> QED
  BY <1>1, <1>2

\* A node's payload finds room in the pools of its kind.
LEMMA PayloadHasRoom ==
  ASSUME IInv, NEW mem, MemOK(mem), NEW n, NodeOK(n), NEW p \in ReservePayload(mem, n)
  PROVE  MemOK(p) /\ (p.ok => HasRoom(p, WithPayload(n)))
<1>1. Solvent /\ Counted
  BY DEF IInv
<1>2. /\ {"exactText", "bigExacts", "rationals", "children"} \subseteq PayloadPools
      /\ "exactText" \in Pools /\ "bigExacts" \in Pools /\ "rationals" \in Pools /\ "children" \in Pools
  <2>1. Pools = {PoolList[i] : i \in 1 .. 11}
    BY PoolListIs
  <2>2. /\ PoolList[2] = "children" /\ PoolList[3] = "rationals" /\ PoolList[4] = "bigExacts"
        /\ PoolList[5] = "exactText"
    BY DEF PoolList
  <2> QED BY <2>1, <2>2 DEF PayloadPools, NodePools
<1>3. /\ \A pool \in PayloadPools : WithPayload(n)[pool] = filled[pool] + Amount(n, pool)
      /\ \A pool \in PayloadPools : WithPayload(n)[pool] \in Nat /\ filled[pool] \in Nat
  BY <1>1, PayloadIs DEF Counted
<1>4. \A m : HasRoom(m, filled) => \A pool \in PayloadPools :
          Amount(n, pool) = 0 => WithPayload(n)[pool] <= m.capacity[pool]
  BY <1>3 DEF HasRoom
<1>5. n.kind \in Exact => Len(n.children) = 0
  <2>1. SUFFICES ASSUME n.kind \in Exact PROVE Len(n.children) = 0
    OBVIOUS
  <2>2. PICK q, aux : n = NumberNode(q, aux)
    BY <2>1 DEF NodeOK, NumberOK
  <2>3. \A kind, head, a, space, number : Atom(kind, head, a, space, number).children = <<>>
    BY DEF Atom
  <2>4. n.children = <<>>
    BY <2>2, <2>3 DEF NumberNode
  <2> QED BY <2>4
<1>6. CASE IsBig(n)
  <2>1. PICK t \in Reserve(mem, "exactText", WithPayload(n)["exactText"]) :
           p \in IF t.ok THEN Reserve(t, "bigExacts", WithPayload(n)["bigExacts"]) ELSE {t}
    BY <1>6 DEF ReservePayload
  <2>2. MemOK(t) /\ (t.ok => WithPayload(n)["exactText"] <= t.capacity["exactText"])
    BY <1>1, <1>2, <1>3, <2>1, ReservedIsRoom
  <2>3. CASE ~t.ok
    BY <2>1, <2>2, <2>3
  <2>4. CASE t.ok
    <3>1. MemOK(p) /\ Grows(t, p) /\ (p.ok => WithPayload(n)["bigExacts"] <= p.capacity["bigExacts"])
      BY <1>1, <1>2, <1>3, <2>1, <2>2, <2>4, ReservedIsRoom
    <3>2. WithPayload(n)["exactText"] <= p.capacity["exactText"]
      BY <1>2, <1>3, <2>2, <2>4, <3>1, RoomStays
    <3>3. \A pool \in PayloadPools \ {"exactText", "bigExacts"} : Amount(n, pool) = 0
      <4>1. n.kind \in Exact
        BY <1>6 DEF NodeOK, NumberOK
      <4> QED BY <1>5, <1>6, <4>1 DEF Amount
    <3>4. HasRoom(p, filled)
      BY <3>1, RoomBefore
    <3> QED BY <1>3, <1>4, <3>1, <3>2, <3>3, <3>4 DEF HasRoom
  <2> QED BY <2>3, <2>4
<1>7. CASE ~IsBig(n)
  <2> DEFINE home == IF n.kind = "RATIONAL" THEN "rationals" ELSE "children"
  <2>1. p \in Reserve(mem, home, WithPayload(n)[home])
    BY <1>7 DEF ReservePayload
  <2>2. MemOK(p) /\ (p.ok => WithPayload(n)[home] <= p.capacity[home])
    BY <1>1, <1>2, <1>3, <2>1, ReservedIsRoom
  <2>3. \A pool \in PayloadPools \ {home} : Amount(n, pool) = 0
    <3>1. n.kind = "RATIONAL" => Len(n.children) = 0
      BY <1>5 DEF Exact
    <3> QED BY <1>7, <3>1 DEF Amount
  <2>4. HasRoom(p, filled)
    BY <2>2, RoomBefore
  <2> HIDE DEF home
  <2> QED BY <1>3, <1>4, <2>2, <2>3, <2>4 DEF HasRoom
<1> QED
  BY <1>6, <1>7

\* intern_node publishes what the table does not hold.
LEMMA InternNodeKeeps ==
  ASSUME IInv, NEW mem, MemOK(mem), mem.ok, NEW n, NodeOK(n), Over(n, Len(nodes)), InternNode(mem, n)
  PROVE  Kept
<1>1. Solvent /\ Counted
  BY DEF IInv
<1>2. CASE Return(mem) \/ Fail(mem)
  BY <1>2, ReturnKeeps
<1>3. CASE ~(Return(mem) \/ Fail(mem))
  <2>1. Holding(n) = {} /\ ~(Len(nodes) >= workload.maxNodes)
    BY <1>3 DEF InternNode
  <2>2. PICK p \in ReservePayload(mem, n) :
           IF ~p.ok THEN Fail(p)
           ELSE \E r \in Reserve(p, "nodes", Len(nodes) + 2) :
                IF r.ok THEN PublishNode(r, n) ELSE Unpublished(r, n)
    BY <1>3, <2>1 DEF InternNode
  <2>3. MemOK(p) /\ (p.ok => HasRoom(p, WithPayload(n)))
    BY <2>2, PayloadHasRoom
  <2>4. CASE ~p.ok
    BY <2>2, <2>3, <2>4, ReturnKeeps
  <2>5. CASE p.ok
    <3>1. PICK r \in Reserve(p, "nodes", Len(nodes) + 2) :
             IF r.ok THEN PublishNode(r, n) ELSE Unpublished(r, n)
      BY <2>2, <2>5
    <3>2. "nodes" \in Pools /\ "nodeBuckets" \in Pools
      <4>1. PoolList[1] = "nodes" /\ PoolList[9] = "nodeBuckets"
        BY DEF PoolList
      <4> QED BY <4>1, PoolListIs
    <3>3. PICK len \in Nat : len = Len(nodes)
      BY ListIs DEF IInv, NodesInOrder
    <3>4. MemOK(r) /\ Grows(p, r)
      BY <1>1, <2>3, <3>1, <3>2, <3>3, ReservedIsRoom
    <3>5. CASE ~r.ok
      BY <3>1, <3>4, <3>5 DEF Unpublished, Account, Kept, IdleStep, Graph
    <3>6. CASE r.ok
      <4>1. PublishNode(r, n)
        BY <3>1, <3>6
      <4> DEFINE all == Append(nodes, n)
                 filed == Filed(nodeTable, HashOf(n), Len(all))
                 hashes == [i \in DOMAIN all |-> HashOf(all[i])]
      <4>2. PICK q \in Rehashed(r, "nodeBuckets", filed, hashes) : Account(q.mem) /\ filled' = WithPayload(n)
        BY <4>1 DEF PublishNode
      <4>3. IsTable(filed)
        <5>1. IsTable(nodeTable)
          BY DEF IInv, TablesInOrder, Files
        <5>2. DOMAIN filed = DOMAIN nodeTable
          BY DEF Filed
        <5> HIDE DEF filed
        <5> QED BY <5>1, <5>2 DEF IsTable
      <4> HIDE DEF filed, hashes
      <4>4. MemOK(q.mem) /\ Grows(r, q.mem) /\ q.mem.ok
        BY <1>1, <3>2, <3>4, <3>6, <4>2, <4>3, RehashedIsRoom
      <4>5. HasRoom(q.mem, filled')
        BY <2>3, <2>5, <3>4, <4>2, <4>4, RoomStays
      <4>6. Len(nodes) < workload.maxNodes
        <5>1. workload.maxNodes \in Nat
          BY DataAssumption DEF IInv
        <5> QED BY <2>1, <3>3, <5>1
      <4>7. Paid
        BY <4>2, <4>4, <4>5 DEF Paid
      <4> QED BY <2>1, <4>1, <4>6, <4>7 DEF Kept, NodeStep
    <3> QED BY <3>5, <3>6
  <2> QED BY <2>4, <2>5
<1> QED
  BY <1>2, <1>3

\* phy_ir_intern_n publishes a name the table does not hold.
LEMMA InternKeeps ==
  ASSUME IInv, NEW name \in workload.names \cup {Null}, Intern(name)
  PROVE  Kept \/ SymbolStep
<1>1. Solvent /\ Counted /\ MemOK(Memory) /\ Memory.ok
  BY MemoryOK DEF IInv
<1>2. CASE Return(Memory) \/ Fail(Memory)
  BY <1>1, <1>2, ReturnKeeps
<1>3. CASE ~(Return(Memory) \/ Fail(Memory))
  <2>1. name # Null /\ SymbolNamed(name) = {}
    BY <1>3 DEF Intern
  <2>2. name \in Names
    BY <2>1, DataAssumption DEF IInv
  <2>3. PICK needed \in Nat : needed = filled.strings + NameLength[name] + 1
    <3>1. filled.strings \in Nat /\ NameLength[name] \in Nat
      BY <1>1, <2>2, DataAssumption DEF Counted, PayloadPools
    <3> QED BY <3>1
  <2>4. PICK s \in Reserve(Memory, "strings", needed) :
           IF ~s.ok THEN Fail(s)
           ELSE \E r \in Reserve(s, "symbols", Len(symbols) + 2) :
                IF r.ok THEN PublishSymbol(r, name) ELSE Fail(r)
    BY <1>3, <2>1, <2>3 DEF Intern
  <2>5. "strings" \in Pools /\ "symbols" \in Pools /\ "symbolBuckets" \in Pools
    <3>1. PoolList[7] = "strings" /\ PoolList[6] = "symbols" /\ PoolList[10] = "symbolBuckets"
      BY DEF PoolList
    <3> QED BY <3>1, PoolListIs
  <2>6. MemOK(s) /\ (s.ok => needed <= s.capacity["strings"])
    BY <1>1, <2>4, <2>5, ReservedIsRoom
  <2>7. CASE ~s.ok
    BY <2>4, <2>6, <2>7, ReturnKeeps
  <2>8. CASE s.ok
    <3>1. PICK r \in Reserve(s, "symbols", Len(symbols) + 2) :
             IF r.ok THEN PublishSymbol(r, name) ELSE Fail(r)
      BY <2>4, <2>8
    <3>2. PICK len \in Nat : len = Len(symbols)
      BY ListIs DEF IInv, SymbolsInOrder
    <3>3. MemOK(r) /\ Grows(s, r)
      BY <1>1, <2>5, <2>6, <3>1, <3>2, ReservedIsRoom
    <3>4. CASE ~r.ok
      BY <3>1, <3>3, <3>4, ReturnKeeps
    <3>5. CASE r.ok
      <4>1. PublishSymbol(r, name)
        BY <3>1, <3>5
      <4> DEFINE all == Append(symbols, NewSymbol(name))
                 filed == Filed(symbolTable, name, Len(all))
                 names == [i \in DOMAIN all |-> all[i].name]
      <4>2. PICK q \in Rehashed(r, "symbolBuckets", filed, names) :
               Account(q.mem) /\ filled' = [filled EXCEPT !.strings = @ + NameLength[name] + 1]
        BY <4>1 DEF PublishSymbol
      <4>3. IsTable(filed)
        <5>1. IsTable(symbolTable)
          BY DEF IInv, TablesInOrder, Files
        <5>2. DOMAIN filed = DOMAIN symbolTable
          BY DEF Filed
        <5> HIDE DEF filed
        <5> QED BY <5>1, <5>2 DEF IsTable
      <4> HIDE DEF filed, names
      <4>4. MemOK(q.mem) /\ Grows(r, q.mem) /\ q.mem.ok
        BY <1>1, <2>5, <3>3, <3>5, <4>2, <4>3, RehashedIsRoom
      <4>5. HasRoom(s, filled')
        <5>1. HasRoom(s, filled)
          BY <2>6, RoomBefore
        <5>2. \A p \in PayloadPools : filled'[p] = IF p = "strings" THEN needed ELSE filled[p]
          BY <1>1, <2>3, <4>2 DEF Counted
        <5> QED BY <2>6, <2>8, <5>1, <5>2 DEF HasRoom
      <4>6. HasRoom(q.mem, filled')
        BY <2>6, <3>3, <4>4, <4>5, RoomStays
      <4>7. Paid
        BY <4>2, <4>4, <4>6 DEF Paid
      <4> QED BY <2>1, <2>2, <4>1, <4>7 DEF SymbolStep
    <3> QED BY <3>4, <3>5
  <2> QED BY <2>7, <2>8
<1> QED
  BY <1>2, <1>3

\* phy_ir_assume adds to what is assumed of a symbol.
LEMMA AssumeKeeps ==
  ASSUME IInv, NEW sym, NEW flags, Assume(sym, flags)
  PROVE  Kept \/ DeclareStep
<1>0. MemOK(Memory) /\ Memory.ok
  BY MemoryOK DEF IInv
<1>1. CASE Fail(Memory)
  BY <1>0, <1>1, ReturnKeeps
<1>2. CASE ~Fail(Memory)
  <2>1. /\ sym \in SymbolIds /\ ~Contradictory(sym, flags)
        /\ symbols' = [symbols EXCEPT ![sym].assumed = @ \cup flags]
        /\ UNCHANGED <<nodes, filled, nodeTable, symbolTable, capacity, bytes, failed>>
    BY <1>2 DEF Assume
  <2>2. PICK old : old = symbols[sym] /\ SymbolOK(old)
    BY <2>1 DEF IInv, SymbolsInOrder
  <2> DEFINE x == [name |-> old.name, assumed |-> old.assumed \cup flags, symmetries |-> old.symmetries]
  <2>3. \A f : [old EXCEPT !.assumed = f]
                 = [name |-> old.name, assumed |-> f, symmetries |-> old.symmetries]
    <3>1. \A a, b, c, f : old = [name |-> a, assumed |-> b, symmetries |-> c]
            => [old EXCEPT !.assumed = f] = [name |-> a, assumed |-> f, symmetries |-> c]
      OBVIOUS
    <3> QED BY <2>2, <3>1 DEF SymbolOK
  <2>4. symbols' = [symbols EXCEPT ![sym] = x]
    <3>1. symbols' = [symbols EXCEPT ![sym] = [symbols[sym] EXCEPT !.assumed = symbols[sym].assumed \cup flags]]
      BY <2>1
    <3> QED BY <3>1, <2>2, <2>3
  <2>5. SymbolOK(x)
    BY <2>1, <2>2 DEF SymbolOK, Contradictory
  <2>6. x.name = symbols[sym].name /\ x.symmetries = symbols[sym].symmetries
    BY <2>2
  <2> HIDE DEF x
  <2>7. Cardinality(x.symmetries) = Cardinality(symbols[sym].symmetries) + 0
    <3>1. Cardinality(x.symmetries) \in Nat
      BY <2>5, FS_CardinalityType DEF SymbolOK
    <3> QED BY <2>6, <3>1
  <2>8. filled' = [filled EXCEPT !.symmetries = filled.symmetries + 0]
    <3>1. PICK f : f = filled /\ f \in [PayloadPools -> Nat]
      BY DEF IInv, Counted
    <3>2. "symmetries" \in PayloadPools
      BY DEF PayloadPools
    <3>3. f = [f EXCEPT !["symmetries"] = f["symmetries"] + 0]
      BY <3>1, <3>2
    <3> QED BY <2>1, <3>1, <3>3
  <2>9. Paid
    <3>1. Account(Memory)
      BY <2>1, MemoryIs DEF Account
    <3>2. HasRoom(Memory, filled')
      BY <2>1 DEF IInv
    <3> QED BY <1>0, <3>1, <3>2 DEF Paid
  <2>10. Redeclared(sym, x, 0)
    BY <2>4, <2>5, <2>6, <2>7, <2>8 DEF Redeclared
  <2> QED BY <2>1, <2>9, <2>10 DEF DeclareStep
<1> QED
  BY <1>1, <1>2

\* phy_ir_declare_symmetry adds a pair that was not declared.
LEMMA DeclareSymmetryKeeps ==
  ASSUME IInv, NEW sym, NEW a \in workload.slots, NEW b \in workload.slots, NEW how,
         DeclareSymmetry(sym, a, b, how)
  PROVE  Kept \/ DeclareStep
<1>0. Solvent /\ Counted /\ MemOK(Memory) /\ Memory.ok
  BY MemoryOK DEF IInv
<1>1. CASE Return(Memory) \/ Fail(Memory)
  BY <1>0, <1>1, ReturnKeeps
<1>2. CASE ~(Return(Memory) \/ Fail(Memory))
  <2> DEFINE d == [pair |-> SlotPair(a, b), how |-> how]
  <2>1. /\ sym \in SymbolIds /\ a # b
        /\ {e \in symbols[sym].symmetries : e.pair = SlotPair(a, b)} = {}
        /\ \E r \in Reserve(Memory, "symmetries", filled.symmetries + 2) :
              IF ~r.ok THEN Fail(r)
              ELSE /\ Account(r)
                   /\ symbols' = [symbols EXCEPT ![sym].symmetries = @ \cup {d}]
                   /\ filled' = [filled EXCEPT !.symmetries = @ + 1]
                   /\ UNCHANGED <<nodes, nodeTable, symbolTable>>
    BY <1>2 DEF DeclareSymmetry
  <2>2. PICK r \in Reserve(Memory, "symmetries", filled.symmetries + 2) :
              IF ~r.ok THEN Fail(r)
              ELSE /\ Account(r)
                   /\ symbols' = [symbols EXCEPT ![sym].symmetries = @ \cup {d}]
                   /\ filled' = [filled EXCEPT !.symmetries = @ + 1]
                   /\ UNCHANGED <<nodes, nodeTable, symbolTable>>
    BY <2>1
  <2>3. PICK k \in Nat : k = filled.symmetries
    BY <1>0 DEF Counted, PayloadPools
  <2>4. MemOK(r) /\ (r.ok => k + 2 <= r.capacity["symmetries"])
    <3>1. "symmetries" \in Pools
      <4>1. PoolList[8] = "symmetries"
        BY DEF PoolList
      <4> QED BY <4>1, PoolListIs
    <3> QED BY <1>0, <2>2, <2>3, <3>1, ReservedIsRoom
  <2>5. CASE ~r.ok
    BY <2>2, <2>4, <2>5, ReturnKeeps
  <2>6. CASE r.ok
    <3>1. /\ Account(r)
          /\ symbols' = [symbols EXCEPT ![sym].symmetries = @ \cup {d}]
          /\ filled' = [filled EXCEPT !.symmetries = @ + 1]
          /\ UNCHANGED <<nodes, nodeTable, symbolTable>>
      BY <2>2, <2>6
    <3>2. PICK old : old = symbols[sym] /\ SymbolOK(old)
      BY <2>1 DEF IInv, SymbolsInOrder
    <3>3. a \in Nat /\ b \in Nat
      BY DataAssumption DEF IInv
    <3>4. IsPair(d)
      <4>1. CASE a < b
        BY <4>1, <3>3 DEF SlotPair, IsPair
      <4>2. CASE ~(a < b)
        <5>1. b < a
          BY <4>2, <2>1, <3>3
        <5> QED BY <4>2, <5>1, <3>3 DEF SlotPair, IsPair
      <4> QED BY <4>1, <4>2
    <3>5. d.pair = SlotPair(a, b)
      OBVIOUS
    <3> HIDE DEF d
    <3> DEFINE x == [name |-> old.name, assumed |-> old.assumed, symmetries |-> old.symmetries \cup {d}]
    <3>6. \A f : [old EXCEPT !.symmetries = f]
                   = [name |-> old.name, assumed |-> old.assumed, symmetries |-> f]
      <4>1. \A u, v, w, f : old = [name |-> u, assumed |-> v, symmetries |-> w]
              => [old EXCEPT !.symmetries = f] = [name |-> u, assumed |-> v, symmetries |-> f]
        OBVIOUS
      <4> QED BY <3>2, <4>1 DEF SymbolOK
    <3>7. symbols' = [symbols EXCEPT ![sym] = x]
      <4>1. symbols' = [symbols EXCEPT ![sym] = [symbols[sym] EXCEPT !.symmetries = symbols[sym].symmetries \cup {d}]]
        BY <3>1
      <4> QED BY <4>1, <3>2, <3>6
    <3>8. \A e \in old.symmetries : e.pair # d.pair
      BY <2>1, <3>2, <3>5
    <3>9. /\ IsFiniteSet(old.symmetries \cup {d})
          /\ Cardinality(old.symmetries \cup {d}) = Cardinality(old.symmetries) + 1
      <4>1. d \notin old.symmetries /\ IsFiniteSet(old.symmetries)
        BY <3>2, <3>8 DEF SymbolOK
      <4> QED BY <4>1, FS_AddElement
    <3>10. SymbolOK(x)
      BY <3>8, <3>9, <3>2, <3>4 DEF SymbolOK
    <3>11. /\ x.name = symbols[sym].name
           /\ Cardinality(x.symmetries) = Cardinality(symbols[sym].symmetries) + 1
      BY <3>2, <3>9
    <3> HIDE DEF x
    <3>12. filled' = [filled EXCEPT !.symmetries = filled.symmetries + 1]
      BY <3>1
    <3>13. Paid
      <4>1. HasRoom(r, filled)
        BY <2>4, RoomBefore
      <4>2. \A p \in PayloadPools : filled'[p] = IF p = "symmetries" THEN k + 1 ELSE filled[p]
        BY <1>0, <2>3, <3>12 DEF Counted
      <4>3. k + 1 <= r.capacity["symmetries"]
        <5>1. r.capacity["symmetries"] \in Nat
          <6>1. PoolList[8] = "symmetries"
            BY DEF PoolList
          <6>2. "symmetries" \in Pools
            BY <6>1, PoolListIs
          <6> QED BY <2>4, <6>2 DEF MemOK
        <5> QED BY <2>4, <2>6, <5>1
      <4>4. HasRoom(r, filled')
        BY <4>1, <4>2, <4>3 DEF HasRoom
      <4> QED BY <2>4, <2>6, <3>1, <4>4 DEF Paid
    <3>14. Redeclared(sym, x, 1)
      BY <3>7, <3>10, <3>11, <3>12 DEF Redeclared
    <3> QED BY <2>1, <3>1, <3>13, <3>14 DEF DeclareStep
  <2> QED BY <2>5, <2>6
<1> QED
  BY <1>1, <1>2

\* What the builders of atoms intern.
LEMMA AtomOK ==
  ASSUME IInv, NEW kind \in DOMAIN Rank, NEW head \in SomeSymbol, NEW aux, NEW space \in SomeSymbol,
         NEW number, number[1] \in Int, number[2] \in Int,
         NumberOK(Atom(kind, head, aux, space, number))
  PROVE  /\ NodeOK(Atom(kind, head, aux, space, number))
         /\ \A last : Over(Atom(kind, head, aux, space, number), last)
<1> DEFINE n == Atom(kind, head, aux, space, number)
<1>1. /\ n.kind = kind /\ n.head = head /\ n.space = space /\ n.number = number
      /\ n.children = <<>> /\ n.depth = 1
  BY DEF Atom
<1>2. IsList(<<>>) /\ Len(<<>>) = 0 /\ DOMAIN <<>> = {}
  BY DEF IsList
<1>3. workload.maxDepth \in Nat \ {0} /\ MaxChildren \in Nat
  BY DataAssumption, LimitAssumption DEF IInv
<1> HIDE DEF n
<1>4. NodeOK(n)
  <2>1. NumberOK(n)
    BY DEF n
  <2>2. 1 \in 1 .. workload.maxDepth
    BY <1>3
  <2> QED BY <1>1, <1>2, <1>3, <2>1, <2>2 DEF NodeOK
<1>5. \A last : Over(n, last)
  BY <1>1, <1>2 DEF Over
<1> QED
  BY <1>4, <1>5 DEF n

\* What is no number is no promoted one.
LEMMA OtherAtomOK ==
  ASSUME IInv, NEW kind \in DOMAIN Rank \ Exact, NEW head \in SomeSymbol, NEW aux, aux # "big",
         NEW space \in SomeSymbol, NEW number, number[1] \in Int, number[2] \in Int
  PROVE  /\ NodeOK(Atom(kind, head, aux, space, number))
         /\ \A last : Over(Atom(kind, head, aux, space, number), last)
<1>1. NumberOK(Atom(kind, head, aux, space, number))
  BY DEF NumberOK, IsBig, Atom
<1> QED
  BY <1>1, AtomOK

\* Numbers are written in lowest terms.
LEMMA NumberNodeOK ==
  ASSUME IInv, NEW q, IsLowest(q)
  PROVE  LET n == NumberNode(q, IF FitsInline(q) THEN "" ELSE "big")
         IN  NodeOK(n) /\ \A last : Over(n, last)
<1> DEFINE aux == IF FitsInline(q) THEN "" ELSE "big"
           kind == IF q[2] = 1 THEN "INTEGER" ELSE "RATIONAL"
<1>1. kind \in DOMAIN Rank /\ kind \in Exact /\ Null \in SomeSymbol
  BY DEF Rank, Exact, SomeSymbol
<1>2. q[1] \in Int /\ q[2] \in Int
  BY DEF IsLowest
<1> HIDE DEF kind
<1>3. Atom(kind, Null, aux, Null, q) = NumberNode(q, aux)
  BY DEF NumberNode, kind
<1>4. Atom(kind, Null, aux, Null, q).kind \in Exact
  BY <1>1 DEF Atom
<1>5. NumberOK(Atom(kind, Null, aux, Null, q))
  BY <1>3, <1>4 DEF NumberOK
<1> HIDE DEF aux
<1>6. /\ NodeOK(Atom(kind, Null, aux, Null, q))
      /\ \A last : Over(Atom(kind, Null, aux, Null, q), last)
  BY <1>1, <1>2, <1>5, AtomOK
<1> QED
  BY <1>3, <1>6 DEF aux

\* phy_ir_integer, phy_ir_rational, phy_ir_rational_text_n, phy_ir_real,
\* phy_ir_symbol, phy_ir_index and phy_ir_error
LEMMA AtomKeeps ==
  ASSUME IInv, MakeAtom
  PROVE  Kept
<1>0. MemOK(Memory) /\ Memory.ok
  BY MemoryOK DEF IInv
<1>1. Null \in SomeSymbol
  BY DEF SomeSymbol
<1>2. ASSUME NEW q, IsLowest(q), InternNode(Memory, NumberNode(q, IF FitsInline(q) THEN "" ELSE "big"))
      PROVE  Kept
  <2>1. PICK n : n = NumberNode(q, IF FitsInline(q) THEN "" ELSE "big")
    OBVIOUS
  <2>2. NodeOK(n) /\ Over(n, Len(nodes))
    BY <1>2, <2>1, NumberNodeOK
  <2> QED BY <1>0, <1>2, <2>1, <2>2, InternNodeKeeps
<1>3. CASE \E k \in workload.integers : MakeInteger(k)
  <2>1. PICK k \in workload.integers : MakeInteger(k)
    BY <1>3
  <2>2. k \in Int /\ k \in Inline /\ 1 <= IntMax
    BY DataAssumption DEF IInv, Inline
  <2>3. PICK q : q = <<k, 1>>
    OBVIOUS
  <2>4. IsLowest(q) /\ FitsInline(q)
    <3>1. k * 0 + 1 * 1 = 1
      BY <2>2
    <3> QED BY <2>2, <2>3, <3>1 DEF IsLowest, Coprime, FitsInline
  <2> QED BY <1>2, <2>1, <2>3, <2>4 DEF MakeInteger
<1>4. CASE \E q \in workload.fractions : MakeRational(q[1], q[2])
  <2>1. PICK q \in workload.fractions : MakeRational(q[1], q[2])
    BY <1>4
  <2>2. q[1] \in Int /\ q[2] \in Int
    BY DataAssumption DEF IInv, Inline
  <2>3. CASE Fail(Memory)
    BY <1>0, <2>3, ReturnKeeps
  <2>4. CASE ~Fail(Memory)
    <3>1. PICK p : p = Reduced(q[1], q[2])
      OBVIOUS
    <3>2. q[2] # 0 /\ FitsInline(p) /\ InternNode(Memory, NumberNode(p, ""))
      BY <2>1, <2>4, <3>1 DEF MakeRational
    <3>3. IsLowest(p)
      BY <2>2, <3>1, <3>2, ReducedIsLowest
    <3> QED BY <1>2, <3>2, <3>3
  <2> QED BY <2>3, <2>4
<1>5. CASE \E q \in workload.decimals : MakeFromText(q[1], q[2])
  <2>1. PICK q \in workload.decimals : MakeFromText(q[1], q[2])
    BY <1>5
  <2>2. q[1] \in Int /\ q[2] \in Int
    BY DataAssumption DEF IInv
  <2>3. CASE Fail(Memory)
    BY <1>0, <2>3, ReturnKeeps
  <2>4. CASE ~Fail(Memory)
    <3>1. PICK p : p = Reduced(q[1], q[2])
      OBVIOUS
    <3>2. q[2] # 0 /\ InternNode(Memory, NumberNode(p, IF FitsInline(p) THEN "" ELSE "big"))
      BY <2>1, <2>4, <3>1 DEF MakeFromText
    <3>3. IsLowest(p)
      BY <2>2, <3>1, <3>2, ReducedIsLowest
    <3> QED BY <1>2, <3>2, <3>3
  <2> QED BY <2>3, <2>4
<1>6. ASSUME NEW kind \in DOMAIN Rank \ Exact, NEW head \in SomeSymbol, NEW aux, aux # "big",
             NEW space \in SomeSymbol, NEW number, number[1] \in Int, number[2] \in Int,
             InternNode(Memory, Atom(kind, head, aux, space, number))
      PROVE  Kept
  <2>1. PICK n : n = Atom(kind, head, aux, space, number)
    OBVIOUS
  <2>2. NodeOK(n) /\ Over(n, Len(nodes))
    BY <1>6, <2>1, OtherAtomOK
  <2> QED BY <1>0, <1>6, <2>1, <2>2, InternNodeKeeps
<1>7. {"REAL", "SYMBOL", "INDEX", "ERROR"} \subseteq DOMAIN Rank \ Exact
  BY DEF Rank, Exact
<1>8. NoNumber[1] \in Int /\ NoNumber[2] \in Int /\ <<1, 1>>[1] \in Int /\ <<1, 1>>[2] \in Int
  BY DEF NoNumber
<1>9. CASE \E value \in {"zero", "minus zero", "one", "not finite"} : MakeReal(value)
  <2>1. PICK value : MakeReal(value)
    BY <1>9
  <2>2. CASE Fail(Memory)
    BY <1>0, <2>2, ReturnKeeps
  <2>3. CASE ~Fail(Memory)
    <3>1. PICK number : /\ number[1] \in Int /\ number[2] \in Int
                        /\ InternNode(Memory, Atom("REAL", Null, "", Null, number))
      BY <1>8, <2>1, <2>3 DEF MakeReal
    <3> QED BY <1>1, <1>6, <1>7, <3>1
  <2> QED BY <2>2, <2>3
<1>10. CASE \E sym \in SomeSymbol : MakeSymbol(sym)
  <2>1. PICK sym \in SomeSymbol : MakeSymbol(sym)
    BY <1>10
  <2>2. CASE Fail(Memory)
    BY <1>0, <2>2, ReturnKeeps
  <2>3. CASE ~Fail(Memory)
    <3>1. InternNode(Memory, Atom("SYMBOL", sym, "", Null, NoNumber))
      BY <2>1, <2>3 DEF MakeSymbol
    <3> QED BY <1>1, <1>6, <1>7, <1>8, <3>1
  <2> QED BY <2>2, <2>3
<1>11. CASE \E sym \in SomeSymbol, variance \in {"lower", "upper"}, space \in SomeSymbol :
              MakeIndex(sym, variance, space)
  <2>1. PICK sym \in SomeSymbol, variance \in {"lower", "upper"}, space \in SomeSymbol :
              MakeIndex(sym, variance, space)
    BY <1>11
  <2>2. CASE Fail(Memory)
    BY <1>0, <2>2, ReturnKeeps
  <2>3. CASE ~Fail(Memory)
    <3>1. InternNode(Memory, Atom("INDEX", sym, variance, space, NoNumber))
      BY <2>1, <2>3 DEF MakeIndex
    <3>2. variance # "big"
      OBVIOUS
    <3> QED BY <1>6, <1>7, <1>8, <3>1, <3>2
  <2> QED BY <2>2, <2>3
<1>12. CASE \E code \in {"PHY_OK", "PHY_ERR_DOMAIN", "PHY_ERR_TYPE"} : MakeError(code)
  <2>1. PICK code \in {"PHY_OK", "PHY_ERR_DOMAIN", "PHY_ERR_TYPE"} : MakeError(code)
    BY <1>12
  <2>2. CASE Fail(Memory)
    BY <1>0, <2>2, ReturnKeeps
  <2>3. CASE ~Fail(Memory)
    <3>1. InternNode(Memory, Atom("ERROR", Null, code, Null, NoNumber))
      BY <2>1, <2>3 DEF MakeError
    <3>2. code # "big"
      OBVIOUS
    <3> QED BY <1>1, <1>6, <1>7, <1>8, <3>1, <3>2
  <2> QED BY <2>2, <2>3
<1> QED
  BY <1>3, <1>4, <1>5, <1>9, <1>10, <1>11, <1>12 DEF MakeAtom

\* operands_ok finds the deepest operand.
LEMMA DeepestIs ==
  ASSUME IInv, NEW operands, \A i \in DOMAIN operands : operands[i] \in Refs
  PROVE  /\ Deepest(operands) \in 0 .. workload.maxDepth
         /\ \A i \in DOMAIN operands : nodes[operands[i]].depth <= Deepest(operands)
         /\ \/ Deepest(operands) = 0
            \/ \E i \in DOMAIN operands : nodes[operands[i]].depth = Deepest(operands)
<1> DEFINE T == {d \in 0 .. workload.maxDepth : \A i \in DOMAIN operands : nodes[operands[i]].depth <= d}
           Is(d) == /\ \A i \in DOMAIN operands : nodes[operands[i]].depth <= d
                    /\ d = 0 \/ \E i \in DOMAIN operands : nodes[operands[i]].depth = d
<1>1. workload.maxDepth \in Nat
  BY DataAssumption DEF IInv
<1>2. \A i \in DOMAIN operands : nodes[operands[i]].depth \in 1 .. workload.maxDepth
  BY DEF IInv, NodesInOrder, NodeOK
<1>3. PICK d \in T : \A e \in T : d <= e
  <2>1. workload.maxDepth \in T
    BY <1>1, <1>2
  <2>2. T \subseteq Nat
    BY <1>1
  <2> QED BY <2>1, <2>2, Least
<1>4. Is(d)
  <2>1. SUFFICES ASSUME d # 0, \A i \in DOMAIN operands : nodes[operands[i]].depth # d PROVE FALSE
    BY <1>3
  <2>2. d - 1 \in 0 .. workload.maxDepth
    BY <1>1, <1>3, <2>1
  <2>3. \A i \in DOMAIN operands : nodes[operands[i]].depth <= d - 1
    BY <1>1, <1>2, <1>3, <2>1
  <2>4. d - 1 \in T
    BY <2>2, <2>3
  <2> QED BY <1>1, <1>3, <2>4
<1>5. \E e \in 0 .. workload.maxDepth : Is(e)
  BY <1>3, <1>4
<1>6. Deepest(operands) = CHOOSE e \in 0 .. workload.maxDepth : Is(e)
  BY DEF Deepest
<1>7. Deepest(operands) \in 0 .. workload.maxDepth /\ Is(Deepest(operands))
  <2> HIDE DEF Is
  <2> QED BY <1>5, <1>6
<1> QED
  BY <1>7

\* make_compound interns a node over the operands it is given.
LEMMA CompoundKeeps ==
  ASSUME IInv, NEW mem, MemOK(mem), mem.ok, NEW kind \in DOMAIN Rank \ Exact, NEW head \in SomeSymbol,
         NEW operands, IsList(operands),
         \A i \in DOMAIN operands : operands[i] \in Refs => ~Absorbs(kind, operands[i]),
         MakeCompound(mem, kind, head, operands)
  PROVE  Kept
<1>1. Null \in SomeSymbol /\ NoNumber[1] \in Int /\ NoNumber[2] \in Int
  BY DEF SomeSymbol, NoNumber
<1>2. CASE Fail(mem)
  BY <1>2, ReturnKeeps
<1>3. CASE ~Fail(mem)
  <2> DEFINE top == IF kind \in HeadedKinds THEN head ELSE Null
  <2>1. OperandsOk(operands)
    BY <1>3 DEF MakeCompound
  <2>2. PICK d \in 0 .. workload.maxDepth :
           /\ d = Deepest(operands) /\ d + 1 <= workload.maxDepth
           /\ \A i \in DOMAIN operands : nodes[operands[i]].depth <= d
    BY <2>1, DeepestIs DEF OperandsOk
  <2>3. workload.maxDepth \in Nat
    BY DataAssumption DEF IInv
  <2>4. top \in SomeSymbol
    BY <1>1
  <2> HIDE DEF top
  <2>5. PICK n : n = [kind |-> kind, head |-> top, aux |-> "", space |-> Null, number |-> NoNumber,
                      children |-> operands, depth |-> d + 1]
    OBVIOUS
  <2>6. InternNode(mem, n)
    BY <1>3, <2>2, <2>5 DEF MakeCompound, top
  <2>7. /\ n.kind = kind /\ n.head = top /\ n.aux = "" /\ n.space = Null /\ n.number = NoNumber
        /\ n.children = operands /\ n.depth = d + 1
    BY <2>5
  <2> HIDE <2>5
  <2>8. NodeOK(n)
    <3>1. NumberOK(n)
      BY <2>7 DEF NumberOK, IsBig
    <3>2. n.depth \in 1 .. workload.maxDepth
      <4>1. PICK m \in Nat : m = workload.maxDepth
        BY <2>3
      <4>2. d \in 0 .. m /\ d + 1 <= m
        BY <2>2, <4>1
      <4>3. d + 1 \in 1 .. m
        BY <4>2
      <4> QED BY <2>7, <4>1, <4>3
    <3>3. Len(operands) <= MaxChildren
      BY <2>1 DEF OperandsOk
    <3> QED BY <1>1, <2>4, <2>7, <3>1, <3>2, <3>3 DEF NodeOK
  <2>9. Over(n, Len(nodes))
    <3>1. ASSUME NEW i \in DOMAIN operands
          PROVE  /\ operands[i] \in 1 .. Len(nodes) /\ ~Absorbs(kind, operands[i])
                 /\ nodes[operands[i]].depth < d + 1
      <4>1. operands[i] \in Refs
        BY <2>1 DEF OperandsOk
      <4>2. nodes[operands[i]].depth \in Int
        BY <4>1, <2>3 DEF IInv, NodesInOrder, NodeOK
      <4> QED BY <2>2, <2>3, <4>1, <4>2 DEF Refs
    <3> QED BY <2>7, <3>1 DEF Over
  <2> QED BY <2>6, <2>8, <2>9, InternNodeKeeps
<1> QED
  BY <1>2, <1>3

\* A sum absorbs the operands of a sum; what is left are no sums.
LEMMA StagedOK ==
  ASSUME IInv, NEW kind \in Associative, NEW operands, IsList(operands),
         \A i \in DOMAIN operands : operands[i] \in Refs
  PROVE  /\ IsList(Staged(kind, operands))
         /\ \A i \in DOMAIN Staged(kind, operands) : ~Absorbs(kind, Staged(kind, operands)[i])
<1> DEFINE G == {ref \in Refs : ~Absorbs(kind, ref)}
<1>1. ASSUME NEW i \in DOMAIN operands PROVE CanStage(kind, G, operands[i])
  <2>1. CASE ~Absorbs(kind, operands[i])
    BY <2>1 DEF CanStage
  <2>2. CASE Absorbs(kind, operands[i])
    <3>1. PICK ref \in Refs : ref = operands[i]
      OBVIOUS
    <3>2. PICK c : c = nodes[ref].children
      OBVIOUS
    <3>3. nodes[ref].kind = kind
      BY <2>2, <3>1 DEF Absorbs, KindOf
    <3>4. IsList(c) /\ \A j \in DOMAIN c : c[j] \in 1 .. ref - 1 /\ ~Absorbs(kind, c[j])
      BY <3>2, <3>3 DEF IInv, NodesInOrder, NodeOK, Over
    <3>5. Len(nodes) \in Nat
      BY ListIs DEF IInv, NodesInOrder
    <3>6. \A j \in 1 .. Len(c) : c[j] \in G
      <4>1. DOMAIN c = 1 .. Len(c)
        BY <3>4, ListIs
      <4>2. \A k \in 1 .. ref - 1 : k \in Refs
        BY <3>1, <3>5 DEF Refs
      <4> QED BY <3>4, <4>1, <4>2
    <3>7. c \in Seq(G)
      <4> HIDE DEF G
      <4>1. PICK H : H = {c[j] : j \in DOMAIN c}
        OBVIOUS
      <4>2. c \in Seq(H)
        BY <3>4, <4>1 DEF IsList
      <4> QED BY <3>6, <4>2
    <3> QED BY <2>2, <3>1, <3>2, <3>7 DEF CanStage
  <2> QED BY <2>1, <2>2
<1>2. PICK staged : staged = Staged(kind, operands) /\ staged \in Seq(G)
  <2> HIDE DEF G
  <2> QED BY <1>1, StagedIn
<1>3. \A i \in 1 .. Len(staged) : staged[i] \in G
  <2> HIDE DEF G
  <2> QED BY <1>2
<1>4. DOMAIN staged = 1 .. Len(staged)
  <2> HIDE DEF G
  <2> QED BY <1>2
<1>5. IsList(staged)
  <2> HIDE DEF G
  <2>1. \A i \in 1 .. Len(staged) : staged[i] \in {staged[j] : j \in DOMAIN staged}
    BY <1>4
  <2> QED BY <1>2, <2>1 DEF IsList
<1> QED
  BY <1>2, <1>3, <1>4, <1>5

\* So do the builders of compounds.
LEMMA TreeKeeps ==
  ASSUME IInv, MakeTree
  PROVE  Kept
<1>0. Solvent /\ MemOK(Memory) /\ Memory.ok
  BY MemoryOK DEF IInv
<1>1. Null \in SomeSymbol
  BY DEF SomeSymbol
<1>2. \A operands \in Operands : IsList(operands)
  <2>1. ASSUME NEW n \in 0 .. MaxOperands, NEW s \in [1 .. n -> Refs \cup {Null}] PROVE IsList(s)
    <3>1. CASE n \in Nat
      BY <3>1 DEF IsList
    <3>2. CASE n \notin Nat
      BY <3>2
    <3> QED BY <3>1, <3>2
  <2> QED BY <2>1 DEF Operands
<1>3. \A e, f : IsList(<<e>>) /\ IsList(<<e, f>>)
  BY DEF IsList
<1>4. "scratch" \in Pools
  <2>1. PoolList[11] = "scratch"
    BY DEF PoolList
  <2> QED BY <2>1, PoolListIs
<1>5. \A kind : kind \notin Associative => \A ref : ~Absorbs(kind, ref)
  BY DEF Absorbs
<1>6. CASE \E kind \in workload.kinds \cap Associative, operands \in Operands : MakeNary(kind, operands)
  <2>1. PICK kind \in workload.kinds \cap Associative, operands \in Operands : MakeNary(kind, operands)
    BY <1>6
  <2>2. kind \in DOMAIN Rank \ Exact
    BY DEF Rank, Associative, Exact
  <2>3. CASE Fail(Memory)
    BY <1>0, <2>3, ReturnKeeps
  <2>4. CASE ~Fail(Memory)
    <3>1. PICK staged : staged = Staged(kind, operands)
      OBVIOUS
    <3>2. \A i \in DOMAIN operands : operands[i] \in Refs
      BY <2>1, <2>4 DEF MakeNary
    <3>3. IsList(staged) /\ \A i \in DOMAIN staged : ~Absorbs(kind, staged[i])
      BY <1>2, <3>1, <3>2, StagedOK
    <3>4. PICK s \in Reserve(Memory, "scratch", Len(staged)) :
             IF ~s.ok THEN Fail(s)
             ELSE IF Len(staged) = 1 THEN Return(s)
             ELSE MakeCompound(s, kind, Null, staged)
      BY <2>1, <2>4, <3>1 DEF MakeNary
    <3>5. MemOK(s)
      BY <1>0, <1>4, <3>3, <3>4, ListIs, ReservedIsRoom
    <3>6. CASE Return(s) \/ Fail(s)
      BY <3>5, <3>6, ReturnKeeps
    <3>7. CASE ~(Return(s) \/ Fail(s))
      <4>1. s.ok /\ MakeCompound(s, kind, Null, staged)
        BY <3>4, <3>7
      <4> QED BY <1>1, <2>2, <3>3, <3>5, <4>1, CompoundKeeps
    <3> QED BY <3>6, <3>7
  <2> QED BY <2>3, <2>4
<1>7. CASE \E kind \in workload.kinds \cap {"POW", "EQUATION"}, first \in SomeRef, second \in SomeRef :
              MakePair(kind, first, second)
  <2>1. PICK kind \in {"POW", "EQUATION"} : \E first, second : MakePair(kind, first, second)
    BY <1>7
  <2>2. kind \in DOMAIN Rank \ Exact /\ kind \notin Associative
    BY DEF Rank, Associative, Exact
  <2>3. PICK first, second : MakePair(kind, first, second)
    BY <2>1
  <2> QED BY <1>0, <1>1, <1>3, <1>5, <2>2, <2>3, CompoundKeeps DEF MakePair
<1>8. CASE \E kind \in workload.kinds \cap HeadedKinds, sym \in SomeSymbol, operands \in Operands :
              MakeHeaded(kind, sym, operands)
  <2>1. PICK kind \in HeadedKinds, sym \in SomeSymbol, operands \in Operands : MakeHeaded(kind, sym, operands)
    BY <1>8
  <2>2. kind \in DOMAIN Rank \ Exact /\ kind \notin Associative
    BY DEF HeadedKinds, Rank, Associative, Exact
  <2>3. CASE Fail(Memory)
    BY <1>0, <2>3, ReturnKeeps
  <2>4. CASE ~Fail(Memory)
    <3>1. MakeCompound(Memory, kind, sym, operands)
      BY <2>1, <2>4 DEF MakeHeaded
    <3> QED BY <1>0, <1>2, <1>5, <2>1, <2>2, <3>1, CompoundKeeps
  <2> QED BY <2>3, <2>4
<1>9. CASE \E expr \in SomeRef, variables \in Operands : MakeDerivative(expr, variables)
  <2>1. PICK expr \in SomeRef, variables \in Operands : MakeDerivative(expr, variables)
    BY <1>9
  <2>2. "DERIVATIVE" \in DOMAIN Rank \ Exact /\ "DERIVATIVE" \notin Associative
    BY DEF Rank, Associative, Exact
  <2>3. CASE Fail(Memory)
    BY <1>0, <2>3, ReturnKeeps
  <2>4. CASE ~Fail(Memory)
    <3>1. PICK s \in Reserve(Memory, "scratch", Len(variables) + 1) :
             IF s.ok THEN MakeCompound(s, "DERIVATIVE", Null, <<expr>> \o variables) ELSE Fail(s)
      BY <2>1, <2>4 DEF MakeDerivative
    <3>2. MemOK(s)
      <4>1. Len(variables) + 1 \in Nat
        BY <1>2, <2>1, ListIs
      <4> QED BY <1>0, <1>4, <3>1, <4>1, ReservedIsRoom
    <3>3. CASE ~s.ok
      BY <3>1, <3>2, <3>3, ReturnKeeps
    <3>4. CASE s.ok
      <4>1. PICK list : list = <<expr>> \o variables /\ IsList(list)
        BY <1>2, <1>3, <2>1, Joined
      <4>2. MakeCompound(s, "DERIVATIVE", Null, list)
        BY <3>1, <3>4, <4>1
      <4> QED BY <1>1, <1>5, <2>2, <3>2, <3>4, <4>1, <4>2, CompoundKeeps
    <3> QED BY <3>3, <3>4
  <2> QED BY <2>3, <2>4
<1> QED
  BY <1>6, <1>7, <1>8, <1>9 DEF MakeTree

\* What a step does.
Steps == IdleStep \/ NodeStep \/ SymbolStep \/ DeclareStep

\* Every operation does one of these.
LEMMA StepsOfNext ==
  ASSUME IInv, Next
  PROVE  Steps
<1>1. CASE \E name \in workload.names \cup {Null} : Intern(name)
  BY <1>1, InternKeeps DEF Kept, Steps
<1>2. CASE \E sym \in SomeSymbol, flags \in workload.flags : Assume(sym, flags)
  BY <1>2, AssumeKeeps DEF Kept, Steps
<1>3. CASE \E sym \in SomeSymbol, a \in workload.slots, b \in workload.slots :
           \E how \in {"symmetric", "antisymmetric"} : DeclareSymmetry(sym, a, b, how)
  BY <1>3, DeclareSymmetryKeeps DEF Kept, Steps
<1>4. CASE ClearError
  <2>1. MemOK(Memory)
    BY MemoryOK DEF IInv
  <2> QED BY <1>4, <2>1, MemoryIs DEF ClearError, IdleStep, Graph, Steps
<1> QED
  BY <1>1, <1>2, <1>3, <1>4, AtomKeeps, TreeKeeps DEF Next, Declare, Kept, Steps

-----------------------------------------------------------------------------
(* They keep the invariant *)

\* There are so many symbols and nodes.
LEMMA CountIs == (SymbolsInOrder => Len(symbols) \in Nat) /\ (NodesInOrder => Len(nodes) \in Nat)
  BY ListIs DEF SymbolsInOrder, NodesInOrder

\* What is a function of the first numbers is a list.
LEMMA Listed ==
  ASSUME NEW n \in Nat, NEW f, f = [i \in 1 .. n |-> f[i]]
  PROVE  IsList(f) /\ DOMAIN f = 1 .. n
<1>1. IsList([i \in 1 .. n |-> f[i]])
  BY Laid
<1> QED
  BY <1>1

\* The accounts of a call become the context's.
LEMMA AccountsKept ==
  ASSUME IInv, NEW m, MemOK(m), capacity' = m.capacity, bytes' = m.bytes
  PROVE  Solvent'
  BY DEF MemOK, Solvent

\* What was paid for has room.
LEMMA PaidKeeps ==
  ASSUME IInv, Paid
  PROVE  Solvent' /\ HasRoom(Memory, filled)' /\ failed' = failed
<1>1. PICK m : MemOK(m) /\ m.ok /\ Account(m) /\ HasRoom(m, filled')
  BY DEF Paid
<1>2. capacity' = m.capacity /\ bytes' = m.bytes /\ failed' = m.failed /\ m.failed = failed
  BY <1>1 DEF Account, MemOK
<1>3. HasRoom(Memory, filled)'
  BY <1>1, <1>2 DEF HasRoom, Memory
<1> QED
  BY <1>1, <1>2, <1>3, AccountsKept

\* More names leave the nodes there are.
LEMMA HashStays ==
  ASSUME SymbolsInOrder, SymbolsInOrder', Len(symbols) <= Len(symbols'), workload' = workload,
         \A s \in SymbolIds : symbols'[s].name = symbols[s].name
  PROVE  \A n : NodeOK(n) => NodeOK(n)' /\ HashOf(n)' = HashOf(n)
<1>1. Len(symbols) \in Nat /\ Len(symbols') \in Nat
  <2>1. (Len(symbols) \in Nat)'
    BY CountIs, PTL
  <2> QED BY <2>1, CountIs
<1>2. \A s \in SomeSymbol : s \in SomeSymbol' /\ NameOf(s)' = NameOf(s)
  BY <1>1 DEF SomeSymbol, SymbolIds, NameOf, Null
<1> TAKE n
<1> HAVE NodeOK(n)
<1>3. NodeOK(n)'
  BY <1>2 DEF NodeOK
<1>4. HashOf(n)' = HashOf(n)
  BY <1>2 DEF NodeOK, HashOf
<1> QED
  BY <1>3, <1>4

\* More nodes leave what there is below a node.
LEMMA OverStays ==
  ASSUME NEW n, NEW last \in Nat, last <= Len(nodes), Len(nodes) \in Nat, Len(nodes') \in Nat,
         Len(nodes) <= Len(nodes'), \A r \in Refs : nodes'[r] = nodes[r], Over(n, last)
  PROVE  Over(n, last)'
<1>1. ASSUME NEW i \in DOMAIN n.children
      PROVE  /\ n.children[i] \in 1 .. last
             /\ nodes'[n.children[i]].depth < n.depth
             /\ ~Absorbs(n.kind, n.children[i])'
  <2>1. PICK c \in 1 .. last : c = n.children[i] /\ nodes[c].depth < n.depth /\ ~Absorbs(n.kind, c)
    BY DEF Over
  <2>2. c \in Refs /\ c \in Refs'
    BY DEF Refs
  <2>3. nodes'[c] = nodes[c]
    BY <2>2
  <2>4. Absorbs(n.kind, c)' <=> Absorbs(n.kind, c)
    BY <2>2, <2>3 DEF Absorbs, KindOf
  <2>5. Absorbs(n.kind, n.children[i])' <=> Absorbs(n.kind, c)'
    BY <2>1 DEF Absorbs, KindOf
  <2> QED BY <2>1, <2>3, <2>4, <2>5
<1> QED
  BY <1>1 DEF Over

\* So a table of nodes stays in order while no node comes.
LEMMA NodesStay ==
  ASSUME IInv, SymbolsInOrder', Len(symbols) <= Len(symbols'), workload' = workload,
         \A s \in SymbolIds : symbols'[s].name = symbols[s].name,
         UNCHANGED <<nodes, nodeTable>>
  PROVE  /\ NodesInOrder' /\ Files(nodeTable, HashesNow)' /\ NodesDiffer'
         /\ \A pool : Amounts(pool)' = Amounts(pool)
<1>1. \A n : NodeOK(n) => NodeOK(n)' /\ HashOf(n)' = HashOf(n)
  BY HashStays DEF IInv
<1>2. Refs' = Refs
  BY DEF Refs
<1>3. ASSUME NEW r \in Refs
      PROVE  NodeOK(nodes[r])' /\ HashOf(nodes[r])' = HashOf(nodes[r]) /\ Over(nodes[r], r - 1)'
  <2>1. PICK n : n = nodes[r] /\ n = nodes'[r] /\ NodeOK(n) /\ Over(n, r - 1)
    BY <1>3 DEF IInv, NodesInOrder
  <2>2. NodeOK(n)' /\ HashOf(n)' = HashOf(n)
    BY <1>1, <2>1
  <2>3. NodeOK(nodes[r])' <=> NodeOK(n)'
    BY <2>1 DEF NodeOK
  <2>4. HashOf(nodes[r])' = HashOf(n)' /\ HashOf(nodes[r]) = HashOf(n)
    BY <2>1 DEF HashOf
  <2>5. Len(nodes) \in Nat
    BY CountIs DEF IInv
  <2>6. Over(n, r - 1)'
    <3>1. r - 1 \in Nat /\ r - 1 <= Len(nodes) /\ Len(nodes) <= Len(nodes')
      BY <2>5 DEF Refs
    <3> QED BY <2>1, <2>5, <3>1, OverStays
  <2>7. Over(nodes[r], r - 1)' <=> Over(n, r - 1)'
    BY <2>1 DEF Over
  <2> QED BY <2>2, <2>3, <2>4, <2>6, <2>7
<1>4. NodesInOrder'
  BY <1>2, <1>3 DEF IInv, NodesInOrder
<1>5. HashesNow' = HashesNow
  BY <1>2, <1>3 DEF HashesNow
<1>6. PICK t, h : t = nodeTable /\ h = HashesNow /\ t = nodeTable' /\ h = HashesNow'
  BY <1>5
<1>7. Files(nodeTable, HashesNow)'
  <2>1. Files(t, h)
    BY <1>6 DEF IInv, TablesInOrder
  <2>2. Files(t, h) => Files(nodeTable', HashesNow')
    BY <1>6
  <2> QED BY <2>1, <2>2
<1>8. NodesDiffer'
  BY <1>2 DEF IInv, NodesDiffer
<1>9. \A pool : Amounts(pool)' = Amounts(pool)
  BY <1>2 DEF Amounts
<1> QED
  BY <1>4, <1>7, <1>8, <1>9

\* What the symbols claim are numbers.
LEMMA SymbolClaims ==
  ASSUME SymbolsInOrder
  PROVE  /\ IsList(NameBytes) /\ DOMAIN NameBytes = 1 .. Len(symbols)
         /\ IsList(Declared) /\ DOMAIN Declared = 1 .. Len(symbols)
         /\ \A s \in 1 .. Len(symbols) : NameBytes[s] \in Nat /\ Declared[s] \in Nat
<1>1. PICK len \in Nat : len = Len(symbols) /\ SymbolIds = 1 .. len
  BY CountIs DEF SymbolIds
<1>2. /\ NameBytes = [s \in 1 .. len |-> NameBytes[s]]
      /\ Declared = [s \in 1 .. len |-> Declared[s]]
  BY <1>1 DEF NameBytes, Declared
<1>3. ASSUME NEW s \in 1 .. len PROVE NameBytes[s] \in Nat /\ Declared[s] \in Nat
  <2>1. SymbolOK(symbols[s])
    BY <1>1 DEF SymbolsInOrder
  <2>2. NameLength[symbols[s].name] \in Nat /\ Cardinality(symbols[s].symmetries) \in Nat
    BY <2>1, DataAssumption, FS_CardinalityType DEF SymbolOK
  <2> QED BY <1>1, <2>2 DEF NameBytes, Declared
<1> QED
  BY <1>1, <1>2, <1>3, Listed

\* What the nodes claim are numbers.
LEMMA NodeClaims ==
  ASSUME NodesInOrder, NEW pool
  PROVE  /\ IsList(Amounts(pool)) /\ DOMAIN Amounts(pool) = 1 .. Len(nodes)
         /\ \A r \in 1 .. Len(nodes) : Amounts(pool)[r] \in Nat
<1>1. PICK len \in Nat : len = Len(nodes) /\ Refs = 1 .. len
  BY CountIs DEF Refs
<1>2. PICK f : f = Amounts(pool) /\ f = [r \in 1 .. len |-> f[r]]
  BY <1>1 DEF Amounts
<1>3. \A r \in 1 .. len : Amounts(pool)[r] \in Nat
  BY <1>1, AmountIsNumber DEF NodesInOrder, Amounts
<1> QED
  BY <1>1, <1>2, <1>3, Listed

\* What the invariant says of the graph.
GraphInOrder == SymbolsInOrder /\ NodesInOrder /\ TablesInOrder /\ NamesDiffer /\ NodesDiffer /\ Counted

\* A new symbol
LEMMA SymbolStepKeeps ==
  ASSUME IInv, SymbolStep, workload' = workload
  PROVE  GraphInOrder'
<1>1. PICK name \in Names : SymbolNamed(name) = {} /\ \E m : PublishSymbol(m, name)
  BY DEF SymbolStep
<1>2. PICK mem : PublishSymbol(mem, name)
  BY <1>1
<1> DEFINE all == Append(symbols, NewSymbol(name))
           names == [i \in DOMAIN all |-> all[i].name]
           filed == Filed(symbolTable, name, Len(all))
<1>3. /\ symbols' = all /\ UNCHANGED <<nodes, nodeTable>>
      /\ filled' = [filled EXCEPT !.strings = @ + NameLength[name] + 1]
      /\ \E r \in Rehashed(mem, "symbolBuckets", filed, names) : symbolTable' = r.table
  BY <1>2 DEF PublishSymbol
<1>4. PICK len \in Nat : len = Len(symbols) /\ DOMAIN symbols = 1 .. len
  BY ListIs DEF IInv, SymbolsInOrder
<1>5. /\ IsList(all) /\ Len(all) = len + 1 /\ DOMAIN all = 1 .. len + 1
      /\ \A i \in 1 .. len : all[i] = symbols[i]
      /\ all[len + 1] = NewSymbol(name)
  BY <1>4, Appended DEF IInv, SymbolsInOrder
<1>6. /\ SymbolOK(NewSymbol(name)) /\ NewSymbol(name).name = name
      /\ Cardinality(NewSymbol(name).symmetries) = 0
  BY FS_EmptySet DEF SymbolOK, NewSymbol
<1>7. /\ DOMAIN names = 1 .. len + 1 /\ names[len + 1] = name
      /\ \A i \in 1 .. len : names[i] = symbols[i].name
  BY <1>5, <1>6
<1> HIDE DEF all
<1>8. \A i \in 1 .. len + 1 : SymbolOK(all[i])
  <2>1. \A i \in 1 .. len : SymbolOK(symbols[i])
    BY <1>4 DEF IInv, SymbolsInOrder, SymbolIds
  <2>2. \A i \in 1 .. len + 1 : i \in 1 .. len \/ i = len + 1
    OBVIOUS
  <2> QED BY <1>5, <1>6, <2>1, <2>2
<1>9. SymbolsInOrder'
  <2>1. SymbolIds' = 1 .. len + 1
    BY <1>3, <1>5 DEF SymbolIds
  <2> QED BY <1>3, <1>5, <1>8, <2>1 DEF SymbolsInOrder
<1>10. /\ NodesInOrder' /\ Files(nodeTable, HashesNow)' /\ NodesDiffer'
       /\ \A pool : Amounts(pool)' = Amounts(pool)
  <2>1. Len(symbols) <= Len(symbols') /\ \A s \in SymbolIds : symbols'[s].name = symbols[s].name
    BY <1>3, <1>4, <1>5 DEF SymbolIds
  <2> QED BY <1>3, <1>9, <2>1, NodesStay
<1>11. /\ Files(symbolTable, NamesNow) /\ DOMAIN NamesNow = 1 .. len
       /\ \A i \in 1 .. len : NamesNow[i] = symbols[i].name
  BY <1>4 DEF IInv, TablesInOrder, NamesNow, SymbolIds
<1> HIDE DEF names
<1>12. Files(filed, names)
  <2>1. name \in Nat
    BY DataAssumption
  <2>2. \A i \in 1 .. len : names[i] = NamesNow[i]
    BY <1>7, <1>11
  <2>3. Files(Filed(symbolTable, name, len + 1), names)
    BY <1>7, <1>11, <2>1, <2>2, FiledFiles
  <2> QED BY <2>3, <1>5
<1> HIDE DEF filed
<1>13. Files(symbolTable', names)
  BY <1>3, <1>12, RehashedFiles
<1>14. NamesNow' = names
  <2>1. SymbolIds' = DOMAIN all
    BY <1>3, <1>5 DEF SymbolIds
  <2> QED BY <1>3, <2>1 DEF NamesNow, names
<1>15. TablesInOrder'
  <2>1. Files(symbolTable', NamesNow')
    BY <1>13, <1>14
  <2> QED BY <1>10, <2>1 DEF TablesInOrder
<1>16. \A s \in 1 .. len : symbols[s].name # name
  <2>1. SUFFICES ASSUME NEW s \in 1 .. len, symbols[s].name = name PROVE FALSE
    OBVIOUS
  <2>2. name \in Nat
    BY DataAssumption
  <2>3. name % Buckets(symbolTable) \in DOMAIN symbolTable
    BY <1>11, <2>2, TableIs DEF Files
  <2>4. s \in symbolTable[name % Buckets(symbolTable)]
    BY <1>11, <2>1, <2>3 DEF Files
  <2> QED BY <1>1, <2>1, <2>4 DEF SymbolNamed
<1>17. NamesDiffer'
  <2>1. \A s, t \in 1 .. len + 1 : all[s].name = all[t].name => s = t
    <3>1. \A s, t \in 1 .. len : symbols[s].name = symbols[t].name => s = t
      BY <1>4 DEF IInv, NamesDiffer, SymbolIds
    <3>2. \A s \in 1 .. len + 1 : s \in 1 .. len \/ s = len + 1
      OBVIOUS
    <3>3. all[len + 1].name = name
      BY <1>5, <1>6
    <3> QED BY <1>5, <1>16, <3>1, <3>2, <3>3
  <2> QED BY <1>3, <1>5, <2>1 DEF NamesDiffer, SymbolIds
<1>18. PICK more \in Nat : more = NameLength[name] + 1 /\ more # 0
  BY DataAssumption
<1>19. PICK f, g : f = NameBytes /\ g = NameBytes'
  OBVIOUS
<1>20. PICK u, v : u = Declared /\ v = Declared'
  OBVIOUS
<1>21. /\ IsList(f) /\ DOMAIN f = 1 .. len /\ IsList(u) /\ DOMAIN u = 1 .. len
       /\ \A s \in 1 .. len : f[s] \in Int /\ u[s] \in Int
  BY <1>4, <1>19, <1>20, SymbolClaims DEF IInv
<1>22. /\ IsList(g) /\ DOMAIN g = 1 .. len + 1 /\ IsList(v) /\ DOMAIN v = 1 .. len + 1
  <2>1. (SymbolsInOrder => /\ IsList(NameBytes) /\ DOMAIN NameBytes = 1 .. Len(symbols)
                           /\ IsList(Declared) /\ DOMAIN Declared = 1 .. Len(symbols))'
    BY SymbolClaims, PTL
  <2> QED BY <1>3, <1>5, <1>9, <1>19, <1>20, <2>1
<1>23. /\ SymbolIds = 1 .. len /\ SymbolIds' = 1 .. len + 1
       /\ \A s \in 1 .. len : symbols'[s] = symbols[s]
       /\ symbols'[len + 1] = NewSymbol(name)
  BY <1>3, <1>4, <1>5 DEF SymbolIds
<1>24. /\ \A s \in 1 .. len : s \in 1 .. len + 1 /\ g[s] = f[s] /\ v[s] = u[s]
       /\ g[len + 1] = more /\ v[len + 1] = 0
  BY <1>6, <1>18, <1>19, <1>20, <1>23 DEF NameBytes, Declared
<1>25. Claimed(f) \in Int /\ Claimed(g) = Claimed(f) + more
  <2>1. g[len + 1] \in Int /\ \A s \in 1 .. len : f[s] \in Int /\ g[s] = f[s]
    BY <1>21, <1>24
  <2>2. Claimed(f) \in Int /\ Claimed(g) = Claimed(f) + g[len + 1]
    BY <1>21, <1>22, <2>1, ClaimAdded
  <2> QED BY <1>24, <2>2
<1>26. Claimed(u) \in Int /\ Claimed(v) = Claimed(u) + 0
  BY <1>21, <1>22, <1>24, ClaimAdded, SMTT(30)
<1>27. Counted'
  <2>1. PICK old : old = filled /\ old \in [PayloadPools -> Nat]
    BY DEF IInv, Counted
  <2>2. PICK new : new = filled' /\ new = [old EXCEPT !["strings"] = old["strings"] + NameLength[name] + 1]
    BY <1>3, <2>1
  <2>3. old["strings"] \in Nat /\ NameLength[name] \in Nat
    BY <2>1, DataAssumption DEF PayloadPools
  <2>4. /\ DOMAIN new = PayloadPools /\ new["strings"] = old["strings"] + more
        /\ \A p \in PayloadPools : p # "strings" => new[p] = old[p]
    BY <1>18, <2>1, <2>2, <2>3 DEF PayloadPools
  <2>5. new \in [PayloadPools -> Nat]
    <3>1. \A p \in PayloadPools : new[p] \in Nat
      BY <2>1, <2>3, <2>4
    <3>2. new = [p \in PayloadPools |-> new[p]]
      BY <2>1, <2>2
    <3> QED BY <3>1, <3>2
  <2>6. new["strings"] = Claimed(g)
    BY <1>19, <1>25, <2>1, <2>4 DEF IInv, Counted
  <2>7. new["symmetries"] = Claimed(v)
    BY <1>20, <1>26, <2>1, <2>4 DEF IInv, Counted, PayloadPools
  <2>8. \A p \in NodePools : new[p] = Claimed(Amounts(p)')
    BY <1>10, <2>1, <2>4 DEF IInv, Counted, PayloadPools, NodePools
  <2> QED BY <1>19, <1>20, <2>2, <2>5, <2>6, <2>7, <2>8 DEF Counted
<1> QED
  BY <1>9, <1>10, <1>15, <1>17, <1>27 DEF GraphInOrder

\* A declaration renames nothing.
LEMMA DeclareStepKeeps ==
  ASSUME IInv, DeclareStep, workload' = workload
  PROVE  GraphInOrder'
<1>a. PICK sym \in SymbolIds : \E x : \E k \in {0, 1} : Redeclared(sym, x, k)
  BY DEF DeclareStep
<1>b. PICK x : \E k \in {0, 1} : Redeclared(sym, x, k)
  BY <1>a
<1>0. PICK k \in {0, 1} : Redeclared(sym, x, k)
  BY <1>b
<1>1. SymbolOK(x) /\ x.name = symbols[sym].name /\ symbols' = [symbols EXCEPT ![sym] = x]
  BY <1>0 DEF Redeclared
<1>2. UNCHANGED <<nodes, nodeTable, symbolTable>>
  BY DEF DeclareStep
<1>3. PICK len \in Nat : len = Len(symbols) /\ DOMAIN symbols = 1 .. len
  BY ListIs DEF IInv, SymbolsInOrder
<1>4. PICK old : old = symbols /\ IsList(old) /\ \A s \in 1 .. len : SymbolOK(old[s])
  BY <1>3 DEF IInv, SymbolsInOrder, SymbolIds
<1>5. PICK new : new = symbols' /\ new = [old EXCEPT ![sym] = x]
  BY <1>1, <1>4
<1>6. DOMAIN new = 1 .. len /\ \A s \in 1 .. len : new[s] = IF s = sym THEN x ELSE old[s]
  BY <1>3, <1>4, <1>5
<1>7. IsList(new) /\ Len(new) = len
  <2>1. new = [s \in 1 .. len |-> new[s]]
    BY <1>3, <1>4, <1>5
  <2>2. IsList([s \in 1 .. len |-> new[s]])
    BY Laid
  <2>3. IsList(new)
    BY <2>1, <2>2
  <2>4. Len(new) \in Nat /\ 1 .. Len(new) = 1 .. len
    BY <1>6, <2>3, ListIs
  <2> QED BY <2>3, <2>4, SameInterval
<1>8. \A s \in 1 .. len : new[s].name = old[s].name /\ SymbolOK(new[s])
  BY <1>1, <1>4, <1>6
<1>9. SymbolIds = 1 .. len /\ SymbolIds' = 1 .. len
  BY <1>3, <1>5, <1>7 DEF SymbolIds
<1>10. SymbolsInOrder'
  BY <1>5, <1>7, <1>8, <1>9 DEF SymbolsInOrder
<1>11. /\ NodesInOrder' /\ Files(nodeTable, HashesNow)' /\ NodesDiffer'
       /\ \A pool : Amounts(pool)' = Amounts(pool)
  <2>1. Len(symbols) <= Len(symbols') /\ \A s \in SymbolIds : symbols'[s].name = symbols[s].name
    BY <1>3, <1>4, <1>5, <1>7, <1>8, <1>9
  <2> QED BY <1>2, <1>10, <2>1, NodesStay
<1>12. NamesNow' = NamesNow
  BY <1>4, <1>5, <1>8, <1>9 DEF NamesNow
<1>13. TablesInOrder'
  <2>1. Files(symbolTable', NamesNow')
    BY <1>2, <1>12 DEF IInv, TablesInOrder
  <2> QED BY <1>11, <2>1 DEF TablesInOrder
<1>14. NamesDiffer'
  BY <1>4, <1>5, <1>8, <1>9 DEF IInv, NamesDiffer
<1>15. NameBytes' = NameBytes
  BY <1>4, <1>5, <1>8, <1>9 DEF NameBytes
<1>16. PICK u, v : u = Declared /\ v = Declared'
  OBVIOUS
<1>17. /\ IsList(u) /\ DOMAIN u = 1 .. len
       /\ \A s \in 1 .. len : u[s] \in Int
  BY <1>3, <1>16, SymbolClaims DEF IInv
<1>18. IsList(v) /\ DOMAIN v = 1 .. len
  <2>1. (SymbolsInOrder => IsList(Declared) /\ DOMAIN Declared = 1 .. Len(symbols))'
    BY SymbolClaims, PTL
  <2> QED BY <1>5, <1>7, <1>10, <1>16, <2>1
<1>19. \A s \in 1 .. len : v[s] = IF s = sym THEN u[s] + k ELSE u[s]
  <2>1. \A s \in 1 .. len : u[s] = Cardinality(old[s].symmetries) /\ v[s] = Cardinality(new[s].symmetries)
    BY <1>4, <1>5, <1>9, <1>16 DEF Declared
  <2>2. Cardinality(x.symmetries) = Cardinality(old[sym].symmetries) + k
    BY <1>0, <1>4 DEF Redeclared
  <2> QED BY <1>6, <1>9, <2>1, <2>2
<1>20. Claimed(u) \in Int /\ Claimed(v) = Claimed(u) + k
  <2>1. k \in Int /\ sym \in 1 .. len + 1 /\ sym <= len
    BY <1>9
  <2>2. Changed(u, v, len, sym, k)
    BY <1>17, <1>19, <2>1 DEF Changed
  <2> QED BY <1>17, <1>18, <2>1, <2>2, ClaimChanged
<1>21. Counted'
  <2>1. PICK before : before = filled /\ before \in [PayloadPools -> Nat]
    BY DEF IInv, Counted
  <2>2. PICK after : after = filled' /\ after = [before EXCEPT !["symmetries"] = before["symmetries"] + k]
    BY <1>0, <2>1 DEF Redeclared
  <2>3. before["symmetries"] \in Nat /\ k \in Nat
    BY <2>1 DEF PayloadPools
  <2>4. /\ DOMAIN after = PayloadPools /\ after["symmetries"] = before["symmetries"] + k
        /\ \A p \in PayloadPools : p # "symmetries" => after[p] = before[p]
    BY <2>1, <2>2, <2>3 DEF PayloadPools
  <2>5. after \in [PayloadPools -> Nat]
    <3>1. \A p \in PayloadPools : after[p] \in Nat
      BY <2>1, <2>3, <2>4
    <3>2. after = [p \in PayloadPools |-> after[p]]
      BY <2>1, <2>2
    <3> QED BY <3>1, <3>2
  <2>6. after["symmetries"] = Claimed(v)
    BY <1>16, <1>20, <2>1, <2>4 DEF IInv, Counted
  <2>7. after["strings"] = Claimed(NameBytes')
    BY <1>15, <2>1, <2>4 DEF IInv, Counted, PayloadPools
  <2>8. \A p \in NodePools : after[p] = Claimed(Amounts(p)')
    BY <1>11, <2>1, <2>4 DEF IInv, Counted, PayloadPools, NodePools
  <2> QED BY <1>16, <2>2, <2>5, <2>6, <2>7, <2>8 DEF Counted
<1> QED
  BY <1>10, <1>11, <1>13, <1>14, <1>21 DEF GraphInOrder

\* A new node
LEMMA NodeStepKeeps ==
  ASSUME IInv, NodeStep, workload' = workload
  PROVE  GraphInOrder'
<1>1. PICK n, mem : /\ NodeOK(n) /\ Over(n, Len(nodes)) /\ Holding(n) = {} /\ Len(nodes) < workload.maxNodes
                    /\ PublishNode(mem, n)
  BY DEF NodeStep
<1> DEFINE all == Append(nodes, n)
           hashes == [i \in DOMAIN all |-> HashOf(all[i])]
           filed == Filed(nodeTable, HashOf(n), Len(all))
<1>2. /\ nodes' = all /\ UNCHANGED <<symbols, symbolTable>> /\ filled' = WithPayload(n)
      /\ \E r \in Rehashed(mem, "nodeBuckets", filed, hashes) : nodeTable' = r.table
  BY <1>1 DEF PublishNode
<1>3. PICK len \in Nat : len = Len(nodes) /\ DOMAIN nodes = 1 .. len
  BY ListIs DEF IInv, NodesInOrder
<1>4. /\ IsList(all) /\ Len(all) = len + 1 /\ DOMAIN all = 1 .. len + 1
      /\ \A i \in 1 .. len : all[i] = nodes[i]
      /\ all[len + 1] = n
  BY <1>3, Appended DEF IInv, NodesInOrder
<1>5. /\ DOMAIN hashes = 1 .. len + 1 /\ hashes[len + 1] = HashOf(n)
      /\ \A i \in 1 .. len : hashes[i] = HashOf(nodes[i])
  BY <1>4
<1> HIDE DEF all
<1>6. SymbolsInOrder' /\ NamesDiffer' /\ Files(symbolTable, NamesNow)'
  <2>1. SymbolsInOrder' /\ NamesDiffer'
    BY <1>2 DEF IInv, SymbolsInOrder, NamesDiffer, SymbolIds
  <2>2. NamesNow' = NamesNow
    BY <1>2 DEF NamesNow, SymbolIds
  <2> QED BY <1>2, <2>1, <2>2 DEF IInv, TablesInOrder
<1>7. \A m : (NodeOK(m)' <=> NodeOK(m)) /\ HashOf(m)' = HashOf(m)
  BY <1>2 DEF NodeOK, HashOf, NameOf, SomeSymbol, SymbolIds
<1>0. Len(nodes) <= Len(nodes') /\ Len(nodes) \in Nat /\ Len(nodes') \in Nat /\ Refs = 1 .. len
      /\ \A r \in Refs : nodes'[r] = nodes[r]
  BY <1>2, <1>3, <1>4 DEF Refs
<1>8. \A i \in 1 .. len + 1 : NodeOK(all[i])
  <2>1. \A i \in 1 .. len : NodeOK(nodes[i])
    BY <1>3 DEF IInv, NodesInOrder, Refs
  <2>2. \A i \in 1 .. len + 1 : i \in 1 .. len \/ i = len + 1
    OBVIOUS
  <2> QED BY <1>1, <1>4, <2>1, <2>2
<1>9. Refs' = 1 .. len + 1
  BY <1>2, <1>4 DEF Refs
<1>10. NodesInOrder'
  <2>1. ASSUME NEW r \in 1 .. len + 1 PROVE NodeOK(nodes[r])' /\ Over(nodes[r], r - 1)'
    <3>1. PICK m : m = all[r] /\ NodeOK(m) /\ Over(m, r - 1)
      <4>1. CASE r = len + 1
        BY <1>1, <1>3, <1>4, <4>1
      <4>2. CASE r # len + 1
        <5>1. r \in 1 .. len
          BY <4>2
        <5>2. NodeOK(nodes[r]) /\ Over(nodes[r], r - 1)
          BY <1>0, <5>1 DEF IInv, NodesInOrder
        <5> QED BY <1>4, <5>1, <5>2
      <4> QED BY <4>1, <4>2
    <3>2. NodeOK(m)' /\ m = nodes'[r]
      BY <1>2, <1>7, <3>1
    <3>3. Over(m, r - 1)'
      <4>1. r - 1 \in Nat /\ r - 1 <= Len(nodes)
        BY <1>3
      <4> QED BY <1>0, <3>1, <4>1, OverStays
    <3>4. NodeOK(nodes[r])'
      BY <3>2 DEF NodeOK
    <3>5. Over(nodes[r], r - 1)'
      BY <3>2, <3>3 DEF Over
    <3> QED BY <3>4, <3>5
  <2>2. len + 1 <= workload'.maxNodes
    <3>1. PICK most \in Nat : most = workload.maxNodes
      BY DataAssumption DEF IInv
    <3> QED BY <1>1, <1>3, <3>1
  <2> QED BY <1>2, <1>4, <1>9, <2>1, <2>2 DEF NodesInOrder
<1>11. /\ Files(nodeTable, HashesNow) /\ DOMAIN HashesNow = 1 .. len
       /\ \A i \in 1 .. len : HashesNow[i] = HashOf(nodes[i])
  BY <1>3 DEF IInv, TablesInOrder, HashesNow, Refs
<1>12. PICK h \in Nat : h = HashOf(n)
  BY <1>1, HashIsNumber DEF IInv
<1>13. \A i \in 1 .. len : hashes[i] = HashesNow[i]
  BY <1>5, <1>11
<1>14. HashesNow' = hashes
  <2>1. ASSUME NEW r \in 1 .. len + 1 PROVE HashOf(nodes[r])' = hashes[r]
    <3>1. PICK m : m = all[r]
      OBVIOUS
    <3>2. HashOf(m)' = HashOf(m) /\ m = nodes'[r]
      BY <1>2, <1>7, <3>1
    <3>3. HashOf(nodes[r])' = HashOf(m)'
      BY <3>2 DEF HashOf
    <3>4. hashes[r] = HashOf(m)
      BY <1>4, <3>1
    <3> QED BY <3>2, <3>3, <3>4
  <2>2. hashes = [r \in 1 .. len + 1 |-> hashes[r]]
    BY <1>4
  <2> HIDE DEF hashes
  <2> QED BY <1>9, <2>1, <2>2 DEF HashesNow
<1> HIDE DEF hashes
<1>15. Files(filed, hashes)
  <2>1. Files(Filed(nodeTable, h, len + 1), hashes)
    BY <1>5, <1>11, <1>12, <1>13, FiledFiles
  <2> QED BY <2>1, <1>4, <1>12
<1> HIDE DEF filed
<1>16. Files(nodeTable', hashes)
  BY <1>2, <1>15, RehashedFiles
<1>17. TablesInOrder'
  <2>1. Files(nodeTable', HashesNow')
    BY <1>14, <1>16
  <2> QED BY <1>6, <2>1 DEF TablesInOrder
<1>18. \A r \in 1 .. len : nodes[r] # n
  <2>1. SUFFICES ASSUME NEW r \in 1 .. len, nodes[r] = n PROVE FALSE
    OBVIOUS
  <2>2. h % Buckets(nodeTable) \in DOMAIN nodeTable
    BY <1>11, TableIs DEF Files
  <2>3. HashesNow[r] = h
    <3>1. HashOf(nodes[r]) = HashOf(n)
      BY <2>1 DEF HashOf
    <3> QED BY <1>11, <1>12, <3>1
  <2>4. r \in nodeTable[h % Buckets(nodeTable)]
    BY <1>11, <2>2, <2>3 DEF Files
  <2> QED BY <1>1, <1>12, <2>1, <2>4 DEF Holding
<1>19. NodesDiffer'
  <2>1. \A r, s \in 1 .. len + 1 : all[r] = all[s] => r = s
    <3>1. \A r, s \in 1 .. len : nodes[r] = nodes[s] => r = s
      BY <1>3 DEF IInv, NodesDiffer, Refs
    <3>2. \A r \in 1 .. len + 1 : r \in 1 .. len \/ r = len + 1
      OBVIOUS
    <3> QED BY <1>4, <1>18, <3>1, <3>2
  <2> QED BY <1>2, <1>9, <2>1 DEF NodesDiffer
<1>20. ASSUME NEW pool
       PROVE  Claimed(Amounts(pool)) \in Int /\ Claimed(Amounts(pool)') = Claimed(Amounts(pool)) + Amount(n, pool)
  <2>1. PICK f, g : f = Amounts(pool) /\ g = Amounts(pool)'
    OBVIOUS
  <2>2. IsList(f) /\ DOMAIN f = 1 .. len /\ \A r \in 1 .. len : f[r] \in Int
    BY <1>3, <2>1, NodeClaims DEF IInv
  <2>3. IsList(g) /\ DOMAIN g = 1 .. len + 1
    <3>1. (NodesInOrder => IsList(Amounts(pool)) /\ DOMAIN Amounts(pool) = 1 .. Len(nodes))'
      BY NodeClaims, PTL
    <3> QED BY <1>2, <1>4, <1>10, <2>1, <3>1
  <2>4. \A r \in 1 .. len : r \in 1 .. len + 1 /\ g[r] = f[r]
    BY <1>0, <1>9, <2>1 DEF Amounts
  <2>5. g[len + 1] = Amount(n, pool)
    BY <1>2, <1>4, <1>9, <2>1 DEF Amounts
  <2>6. Amount(n, pool) \in Int
    BY <1>1, AmountIsNumber
  <2> QED BY <2>1, <2>2, <2>3, <2>4, <2>5, <2>6, ClaimAdded
<1>21. NameBytes' = NameBytes /\ Declared' = Declared
  BY <1>2 DEF NameBytes, Declared, SymbolIds
<1>22. Counted'
  <2>1. PICK old : old = filled /\ old \in [PayloadPools -> Nat]
    BY DEF IInv, Counted
  <2>2. PICK new : new = filled' /\ new = WithPayload(n)
    BY <1>2
  <2>3. /\ DOMAIN new = PayloadPools
        /\ \A p \in PayloadPools : new[p] = old[p] + Amount(n, p) /\ new[p] \in Nat
    BY <1>1, <2>1, <2>2, PayloadIs DEF IInv
  <2>4. new \in [PayloadPools -> Nat]
    <3>1. new = [p \in PayloadPools |-> new[p]]
      BY <2>1, <2>2 DEF WithPayload
    <3> QED BY <2>3, <3>1
  <2>5. new["strings"] = old["strings"] /\ new["symmetries"] = old["symmetries"]
    <3>1. Amount(n, "strings") = 0 /\ Amount(n, "symmetries") = 0
      BY DEF Amount
    <3> QED BY <2>1, <2>3, <3>1 DEF PayloadPools
  <2>6. \A p \in NodePools : new[p] = Claimed(Amounts(p)')
    <3>1. \A p \in NodePools : old[p] = Claimed(Amounts(p))
      BY <2>1 DEF IInv, Counted
    <3> QED BY <1>20, <2>3, <3>1 DEF PayloadPools
  <2> QED BY <1>21, <2>1, <2>2, <2>4, <2>5, <2>6 DEF IInv, Counted
<1> QED
  BY <1>6, <1>10, <1>17, <1>19, <1>22 DEF GraphInOrder


\* phy_ir_context_create: nothing is there, and nothing is filed or claimed.
LEMMA InitInOrder == Init => IInv
<1> SUFFICES ASSUME Init PROVE IInv
  OBVIOUS
<1>1. /\ nodes = <<>> /\ symbols = <<>> /\ nodeTable = EmptyTable /\ symbolTable = EmptyTable
      /\ workload \in Workloads /\ capacity = FirstRoom /\ bytes = PoolBytes(FirstRoom)
  BY DEF Init
<1>2. IsList(<<>>) /\ Len(<<>>) = 0
  BY DEF IsList
<1>3. Refs = {} /\ SymbolIds = {} /\ Refs = 1 .. 0 /\ SymbolIds = 1 .. 0
  BY <1>1, <1>2 DEF Refs, SymbolIds
<1>4. IsTable(EmptyTable)
  BY LimitAssumption DEF IsTable, EmptyTable
<1>5. \A hashes : DOMAIN hashes = {} => Files(EmptyTable, hashes)
  <2> TAKE hashes
  <2> HAVE DOMAIN hashes = {}
  <2>1. \A b \in DOMAIN EmptyTable : EmptyTable[b] = {}
    BY DEF EmptyTable
  <2> QED BY <1>4, <2>1 DEF Files
<1>6. Files(nodeTable, HashesNow) /\ Files(symbolTable, NamesNow)
  BY <1>1, <1>3, <1>5 DEF HashesNow, NamesNow
<1>7. Solvent
  <2>1. NewCapacity(0, FirstBuckets) \in Nat
    <3>1. NewCapacity(0, FirstBuckets) = Doubled[<<FirstCapacity, FirstBuckets>>]
      BY DEF NewCapacity
    <3> QED BY <3>1, DoubledIsEnough, LimitAssumption
  <2>2. FirstRoom \in [Pools -> Nat]
    BY <2>1, LimitAssumption DEF FirstRoom
  <2> QED BY <1>1, <2>2 DEF Solvent
<1>8. filled = [pool \in PayloadPools |-> 0]
  BY DEF Init, PayloadPools, NodePools
<1>9. \A f : f = [i \in {} |-> f[i]] => Claimed(f) = 0
  <2> TAKE f
  <2> HAVE f = [i \in {} |-> f[i]]
  <2>1. PICK n \in Nat : n = 0 /\ 1 .. n = {}
    OBVIOUS
  <2>2. IsList(f) /\ DOMAIN f = 1 .. n
    BY <2>1, Listed
  <2>3. PICK s : Adds(s, f, n) /\ Claimed(f) = s[n]
    BY <2>1, <2>2, ClaimedIs
  <2>4. s = [i \in 0 .. n |-> IF i = 0 THEN 0 ELSE s[i - 1] + f[i]]
    BY <2>3 DEF Adds
  <2>5. s[n] = 0
    BY <2>1, <2>4
  <2> QED BY <2>3, <2>5
<1>10. Counted
  <2>1. Claimed(NameBytes) = 0 /\ Claimed(Declared) = 0
    BY <1>3, <1>9 DEF NameBytes, Declared
  <2>2. \A pool : Claimed(Amounts(pool)) = 0
    BY <1>3, <1>9 DEF Amounts
  <2> QED BY <1>8, <2>1, <2>2 DEF Counted, PayloadPools, NodePools
<1>11. HasRoom(Memory, filled)
  <2>1. \A p \in Pools : capacity[p] \in Nat
    BY <1>7 DEF Solvent
  <2>2. PayloadPools \subseteq Pools
    <3>1. Pools = {PoolList[i] : i \in 1 .. 11}
      BY PoolListIs
    <3>2. /\ PoolList[2] = "children" /\ PoolList[3] = "rationals" /\ PoolList[4] = "bigExacts"
          /\ PoolList[5] = "exactText" /\ PoolList[7] = "strings" /\ PoolList[8] = "symmetries"
      BY DEF PoolList
    <3> QED BY <3>1, <3>2 DEF PayloadPools, NodePools
  <2> QED BY <1>8, <2>1, <2>2, MemoryIs DEF HasRoom
<1>12. Len(nodes) <= workload.maxNodes
  <2>1. workload.maxNodes \in Nat
    BY <1>1, DataAssumption
  <2> QED BY <1>1, <1>2, <2>1
<1> QED
  BY <1>1, <1>2, <1>3, <1>6, <1>7, <1>10, <1>11, <1>12
  DEF IInv, SymbolsInOrder, NodesInOrder, TablesInOrder, NamesDiffer, NodesDiffer

\* A step that publishes nothing leaves the graph in order.
LEMMA IdleKeeps ==
  ASSUME IInv, IdleStep, workload' = workload
  PROVE  IInv'
<1>1. UNCHANGED <<nodes, symbols, filled, nodeTable, symbolTable, workload>>
  BY DEF IdleStep, Graph
<1>2. PICK m : MemOK(m) /\ capacity' = m.capacity /\ bytes' = m.bytes
  BY DEF IdleStep
<1>3. Solvent'
  BY <1>2, AccountsKept
<1>4. HasRoom(Memory, filled)'
  <2>1. HasRoom(m, filled)
    BY <1>2, RoomBefore
  <2> QED BY <1>1, <1>2, <2>1 DEF HasRoom, Memory
<1>5. SymbolsInOrder' /\ NamesDiffer' /\ NodesDiffer'
  BY <1>1 DEF IInv, SymbolsInOrder, NamesDiffer, NodesDiffer, SymbolIds, Refs
<1>6. NodesInOrder'
  <2>1. \A n : (NodeOK(n)' <=> NodeOK(n)) /\ \A last : Over(n, last)' <=> Over(n, last)
    BY <1>1 DEF NodeOK, SomeSymbol, SymbolIds, Over, Absorbs, KindOf, Refs
  <2>2. Refs' = Refs /\ nodes' = nodes
    BY <1>1 DEF Refs
  <2>3. ASSUME NEW r \in Refs PROVE NodeOK(nodes[r])' /\ Over(nodes[r], r - 1)'
    <3>1. PICK n : n = nodes[r] /\ n = nodes'[r] /\ NodeOK(n) /\ Over(n, r - 1)
      BY <2>2 DEF IInv, NodesInOrder
    <3>2. NodeOK(n)' /\ Over(n, r - 1)'
      BY <2>1, <3>1
    <3>3. NodeOK(nodes[r])'
      BY <3>1, <3>2 DEF NodeOK
    <3>4. Over(nodes[r], r - 1)'
      BY <3>1, <3>2 DEF Over
    <3> QED BY <3>3, <3>4
  <2> QED BY <1>1, <2>2, <2>3 DEF IInv, NodesInOrder
<1>7. NamesNow' = NamesNow /\ HashesNow' = HashesNow
  BY <1>1 DEF NamesNow, HashesNow, SymbolIds, Refs, HashOf, NameOf
<1>8. TablesInOrder'
  BY <1>1, <1>7 DEF IInv, TablesInOrder
<1>9. Counted'
  <2>1. NameBytes' = NameBytes /\ Declared' = Declared /\ \A pool : Amounts(pool)' = Amounts(pool)
    BY <1>1 DEF NameBytes, Declared, Amounts, SymbolIds, Refs
  <2> QED BY <1>1, <2>1 DEF IInv, Counted
<1> QED
  BY <1>1, <1>3, <1>4, <1>5, <1>6, <1>8, <1>9 DEF IInv

\* Every step keeps the invariant.
LEMMA NextInOrder == IInv /\ [Next]_vars => IInv'
<1> SUFFICES ASSUME IInv, [Next]_vars PROVE IInv'
  OBVIOUS
<1>1. CASE UNCHANGED vars
  <2>1. MemOK(Memory)
    BY MemoryOK DEF IInv
  <2>2. IdleStep /\ workload' = workload
    BY <1>1, <2>1, MemoryIs DEF IdleStep, Graph, vars
  <2> QED BY <2>2, IdleKeeps
<1>2. CASE Next
  <2>1. workload' = workload
    BY <1>2 DEF Next
  <2>2. Steps
    BY <1>2, StepsOfNext
  <2>3. CASE IdleStep
    BY <2>1, <2>3, IdleKeeps
  <2>4. CASE NodeStep
    <3>1. GraphInOrder' /\ Solvent' /\ HasRoom(Memory, filled)'
      BY <2>1, <2>4, NodeStepKeeps, PaidKeeps DEF NodeStep
    <3> QED BY <2>1, <3>1 DEF IInv, GraphInOrder
  <2>5. CASE SymbolStep
    <3>1. GraphInOrder' /\ Solvent' /\ HasRoom(Memory, filled)'
      BY <2>1, <2>5, SymbolStepKeeps, PaidKeeps DEF SymbolStep
    <3> QED BY <2>1, <3>1 DEF IInv, GraphInOrder
  <2>6. CASE DeclareStep
    <3>1. GraphInOrder' /\ Solvent' /\ HasRoom(Memory, filled)'
      BY <2>1, <2>6, DeclareStepKeeps, PaidKeeps DEF DeclareStep
    <3> QED BY <2>1, <3>1 DEF IInv, GraphInOrder
  <2> QED BY <2>2, <2>3, <2>4, <2>5, <2>6 DEF Steps
<1> QED
  BY <1>1, <1>2

-----------------------------------------------------------------------------
(* What the invariant says *)

\* The symbols, nodes, tables and accounts of a context are in order.
THEOREM InternInductive == Spec => []IInv
<1> QED
  BY InitInOrder, NextInOrder, PTL DEF Spec

\* What the pools count is what the nodes claim of them.
LEMMA InOrderIsExact ==
  ASSUME IInv
  PROVE  PoolsAreExact
<1>1. NothingOrphaned
  <2>1. ASSUME NEW pool \in NodePools
        PROVE  [r \in Refs |-> Payload(nodes[r])[pool]] = Amounts(pool)
    <3>1. pool \in DOMAIN filled
      BY DEF IInv, Counted, PayloadPools
    <3>2. \A n : Payload(n)[pool] = Amount(n, pool)
      BY <3>1 DEF Payload, Amount
    <3> QED BY <3>2 DEF Amounts
  <2>2. \A pool \in NodePools : filled[pool] = Claimed([r \in Refs |-> Payload(nodes[r])[pool]])
    BY <2>1 DEF IInv, Counted
  <2>3. /\ filled.strings = Claimed([s \in SymbolIds |-> NameLength[symbols[s].name] + 1])
        /\ filled.symmetries = Claimed([s \in SymbolIds |-> Cardinality(symbols[s].symmetries)])
    BY DEF IInv, Counted, NameBytes, Declared
  <2> QED BY <2>2, <2>3 DEF NothingOrphaned, NodePools
<1>2. NothingLost
  <2>1. /\ DOMAIN HashesNow = Refs /\ \A r \in Refs : HashesNow[r] = HashOf(nodes[r])
        /\ DOMAIN NamesNow = SymbolIds /\ \A s \in SymbolIds : NamesNow[s] = symbols[s].name
    BY DEF HashesNow, NamesNow
  <2> QED BY <2>1 DEF IInv, TablesInOrder, Files, NothingLost
<1>3. WithinLimits
  <2>1. ASSUME NEW r \in Refs
        PROVE  LET n == nodes[r] IN
               /\ Len(n.children) <= MaxChildren /\ n.depth <= workload.maxDepth
               /\ \A i \in DOMAIN n.children : nodes[n.children[i]].depth < n.depth
    <3>1. NodeOK(nodes[r]) /\ Over(nodes[r], r - 1)
      BY DEF IInv, NodesInOrder
    <3>2. workload.maxDepth \in Nat
      BY DataAssumption DEF IInv
    <3>3. nodes[r].depth <= workload.maxDepth
      BY <3>1, <3>2 DEF NodeOK
    <3> QED BY <3>1, <3>3 DEF NodeOK, Over
  <2>2. \A pool \in DOMAIN filled : filled[pool] <= capacity[pool]
    BY MemoryIs DEF IInv, HasRoom, Counted
  <2> QED BY <2>1, <2>2 DEF IInv, NodesInOrder, Solvent, WithinLimits
<1> QED
  BY <1>1, <1>2, <1>3 DEF PoolsAreExact

\* "Every node reachable from exactly one bucket chain", every symbol too, and
\* every count of a pool what its owners claim (phy_ir_validate): a call that
\* fails between two of its allocations gives back what it took, and the bytes
\* charged are those of the buffers there are.
THEOREM PoolsStayExact == Spec => []PoolsAreExact
<1> QED
  BY InternInductive, InOrderIsExact, PTL

\* A step that changes the graph sets no error.
LEMMA ErrorsAreIdle ==
  ASSUME IInv, [Next]_vars
  PROVE  failed' /\ ~failed => UNCHANGED Graph
<1>1. CASE UNCHANGED vars
  BY <1>1 DEF vars, Graph
<1>2. CASE Next
  <2>1. Paid => failed' = failed
    BY DEF Paid, MemOK, Account
  <2>2. IdleStep \/ Paid
    BY <1>2, StepsOfNext DEF Steps, NodeStep, SymbolStep, DeclareStep
  <2> QED BY <2>1, <2>2 DEF IdleStep
<1> QED
  BY <1>1, <1>2

\* A call that fails leaves the graph as it was, whichever of its allocations
\* fails, and a call that changes the graph leaves the sticky error alone
\* (set_error in ir.c), a hash table that could not grow included.
THEOREM FailuresPublishNothing == Spec => ErrorsPublishNothing
<1>1. IInv /\ [Next]_vars => [failed' /\ ~failed => UNCHANGED Graph]_vars
  BY ErrorsAreIdle
<1> QED
  BY <1>1, InternInductive, PTL DEF Spec, ErrorsPublishNothing

\* "The byte ceiling is tested against the transient peak rather than the final
\* size" (docs/IR.md): when phy_ir_pool_reserve copies a pool into a larger
\* buffer, both fit in max_bytes together.
THEOREM PeakStaysWithinBudget == Spec => PeakWithinBudget
<1>1. ASSUME IInv, [Next]_vars, NEW pool \in Pools, capacity'[pool] # capacity[pool]
      PROVE  bytes + capacity'[pool] * ElementSize[pool] <= MaxBytes
  <2>1. Next
    BY <1>1 DEF vars
  <2>2. Steps
    BY <1>1, <2>1, StepsOfNext
  <2>3. PICK m : MemOK(m) /\ capacity' = m.capacity
    BY <2>2 DEF Steps, IdleStep, NodeStep, SymbolStep, DeclareStep, Paid, Account
  <2> QED BY <1>1, <2>3 DEF MemOK
<1>2. IInv /\ [Next]_vars =>
        [\A pool \in Pools :
            capacity'[pool] # capacity[pool] =>
              bytes + capacity'[pool] * ElementSize[pool] <= MaxBytes]_vars
  BY <1>1
<1> QED
  BY <1>2, InternInductive, PTL DEF Spec, PeakWithinBudget

\* "A slot pair cannot both commute and anticommute" (phy_ir_declare_symmetry),
\* whichever way round its slots are named, and what is assumed of a symbol
\* never contradicts itself (phy_ir_assume).
THEOREM DeclarationsAgree == Spec => []DeclarationsConsistent
<1>1. IInv => DeclarationsConsistent
  <2> SUFFICES ASSUME IInv PROVE DeclarationsConsistent
    OBVIOUS
  <2>1. ASSUME NEW s \in SymbolIds, NEW d \in symbols[s].symmetries, NEW e \in symbols[s].symmetries,
               {d.pair[1], d.pair[2]} = {e.pair[1], e.pair[2]}
        PROVE  d = e
    <3>1. IsPair(d) /\ IsPair(e) /\ (d.pair = e.pair => d = e)
      BY DEF IInv, SymbolsInOrder, SymbolOK
    <3>2. PICK a \in Nat, b \in Nat : a < b /\ d.pair = <<a, b>>
      BY <3>1 DEF IsPair
    <3>3. PICK u \in Nat, v \in Nat : u < v /\ e.pair = <<u, v>>
      BY <3>1 DEF IsPair
    <3>4. {a, b} = {u, v}
      BY <2>1, <3>2, <3>3
    <3>5. a = u /\ b = v
      BY <3>2, <3>3, <3>4
    <3> QED BY <3>1, <3>2, <3>3, <3>5
  <2>2. \A s \in SymbolIds : ~({"positive", "negative"} \subseteq symbols[s].assumed)
    BY DEF IInv, SymbolsInOrder, SymbolOK
  <2> QED BY <2>1, <2>2 DEF DeclarationsConsistent
<1> QED
  BY <1>1, InternInductive, PTL

\* "Structurally identical subtrees are one node" (ir.h): same_payload compares
\* refs and ids, and no value has two writings, since phy_ir_rational reduces
\* and phy_ir_rational_text_n stores inline what fits.
THEOREM EveryStructureHasOneNode == Spec => []OneNodePerStructure
<1>1. IInv => OneNodePerStructure
  <2> SUFFICES ASSUME IInv PROVE OneNodePerStructure
    OBVIOUS
  <2>1. ASSUME NEW r \in Refs, NEW s \in Refs,
               nodes[r].kind \in Exact, nodes[s].kind \in Exact,
               nodes[r].number[1] * nodes[s].number[2] = nodes[s].number[1] * nodes[r].number[2]
        PROVE  nodes[r] = nodes[s]
    <3>1. NumberOK(nodes[r]) /\ NumberOK(nodes[s])
      BY DEF IInv, NodesInOrder, NodeOK
    <3>2. PICK p : IsLowest(p) /\ nodes[r] = NumberNode(p, IF FitsInline(p) THEN "" ELSE "big")
      BY <2>1, <3>1 DEF NumberOK
    <3>3. PICK q : IsLowest(q) /\ nodes[s] = NumberNode(q, IF FitsInline(q) THEN "" ELSE "big")
      BY <2>1, <3>1 DEF NumberOK
    <3>4. nodes[r].number = p /\ nodes[s].number = q
      <4>1. \A v, aux : NumberNode(v, aux).number = v
        BY DEF NumberNode, Atom
      <4> QED BY <3>2, <3>3, <4>1
    <3>5. p = q
      BY <2>1, <3>2, <3>3, <3>4, LowestIsUnique
    <3> QED BY <3>2, <3>3, <3>5
  <2> QED BY <2>1 DEF IInv, NamesDiffer, NodesDiffer, OneNodePerStructure
<1> QED
  BY <1>1, InternInductive, PTL

\* Children are built before their node.
OperandsFirst == \A r \in Refs : \A i \in DOMAIN nodes[r].children : nodes[r].children[i] \in 1 .. r - 1

\* No child has an associative node's own kind.
NothingNested ==
    \A r \in Refs : \A i \in DOMAIN nodes[r].children : ~Absorbs(nodes[r].kind, nodes[r].children[i])

\* "Flattening one level suffices: every child was itself built here, so no ADD
\* ever contains an ADD" (make_nary in ir.c); and the graph has no cycle.
THEOREM OneLevelIsEnough == Spec => [](OperandsFirst /\ NothingNested)
<1>1. IInv => OperandsFirst /\ NothingNested
  BY DEF IInv, NodesInOrder, Over, OperandsFirst, NothingNested
<1> QED
  BY <1>1, InternInductive, PTL
=============================================================================
