------------------------------ MODULE IRIntern ------------------------------
(***************************************************************************)
(* The expression IR of src/ir/ir.c and src/ir/order.c: a context whose    *)
(* pools grow under a byte budget, symbols and nodes that are interned in  *)
(* hash tables, and the builders that normalize operands before they       *)
(* intern them.                                                            *)
(*                                                                         *)
(* A ref is the position of its node (the sentinel at 0 is PHY_IR_NULL), a *)
(* name is its position in byte order, and the status of a failure is left *)
(* out: an error is pending or none is.                                    *)
(***************************************************************************)
EXTENDS Integers, Sequences, FiniteSets, TLC

CONSTANTS
    Names,          \* the names there are, in byte order
    NameLength,     \* Names -> length in bytes
    IntMax,         \* INT64_MAX
    Workloads,      \* bound: what callers ask, with the limits they set
    MaxOperands,    \* bound: operands of one builder call
    MaxChildren, MaxBytes,            \* phy_ir_limits; the others come with
                                      \* a workload: maxNodes, maxDepth
    FirstCapacity,  \* of a pool: 16 elements
    FirstBuckets,   \* of a hash table: 256 and 128
    ElementSize     \* pool -> sizeof its element

Inline == -IntMax - 1 .. IntMax

PoolList == <<"nodes", "children", "rationals", "bigExacts", "exactText", "symbols",
              "strings", "symmetries", "nodeBuckets", "symbolBuckets", "scratch">>
Pools == {PoolList[i] : i \in DOMAIN PoolList}

ASSUME LimitAssumption ==
    /\ {MaxChildren, MaxBytes} \subseteq Nat \ {0}
    /\ FirstCapacity \in Nat \ {0} /\ FirstBuckets \in Nat \ {0}
    /\ ElementSize \in [Pools -> Nat \ {0}]
ASSUME DataAssumption ==
    /\ Names \subseteq Nat \ {0} /\ NameLength \in [Names -> Nat \ {0}]
    /\ IntMax \in Nat \ {0}
    /\ \A w \in Workloads :
        /\ w.maxNodes \in Nat /\ w.maxDepth \in Nat \ {0}
        /\ w.names \subseteq Names /\ w.integers \subseteq Inline
        /\ w.fractions \subseteq Inline \X Inline /\ w.decimals \subseteq Int \X Int
        /\ w.slots \subseteq Nat

VARIABLES
    nodes,          \* nodes[1 ..], each with its payload
    symbols,        \* symbols[1 ..]
    filled,         \* elements in use of each payload pool
    nodeTable,      \* bucket -> the refs on its chain
    symbolTable,    \* bucket -> the symbols on its chain
    capacity,       \* pool -> elements it has room for
    bytes,          \* charged against max_bytes
    failed,         \* the sticky error is set
    workload        \* what is asked: names, kinds, numbers, declarations

vars == <<nodes, symbols, filled, nodeTable, symbolTable, capacity, bytes, failed, workload>>

Null == 0           \* PHY_IR_NULL and PHY_IR_NO_SYMBOL

----------------------------------------------------------------------------
(* kKindInfo *)

Rank == [INTEGER |-> 1, RATIONAL |-> 1, REAL |-> 2, SYMBOL |-> 3, INDEX |-> 4,
         ERROR |-> 5, ADD |-> 6, MUL |-> 7, NCMUL |-> 8, POW |-> 9, EQUATION |-> 10,
         FUNCTION |-> 11, TENSOR |-> 12, OPERATOR |-> 13, DERIVATIVE |-> 14, WEDGE |-> 15]
Commutative == {"ADD", "MUL"}
Associative == {"ADD", "MUL", "NCMUL", "WEDGE"}
HeadedKinds == {"FUNCTION", "TENSOR", "OPERATOR"}

Refs == 1 .. Len(nodes)
SymbolIds == 1 .. Len(symbols)
KindOf(ref) == IF ref \in Refs THEN nodes[ref].kind ELSE "INVALID"
NameOf(sym) == IF sym \in SymbolIds THEN symbols[sym].name ELSE Null

Atom(kind, head, aux, space, number) ==
    [kind |-> kind, head |-> head, aux |-> aux, space |-> space, number |-> number,
     children |-> <<>>, depth |-> 1]
NoNumber == <<0, 1>>

----------------------------------------------------------------------------
(* phy_ir_pool_reserve.  mem is [capacity, bytes, failed, ok]: the          *)
(* accounts of a call under way, and whether it may go on.                 *)

Memory == [capacity |-> capacity, bytes |-> bytes, failed |-> failed, ok |-> TRUE]
Refused(mem) == [mem EXCEPT !.failed = TRUE, !.ok = FALSE]

Doubled[p \in (Nat \ {0}) \X Nat] == IF p[1] >= p[2] THEN p[1] ELSE Doubled[<<2 * p[1], p[2]>>]

NewCapacity(room, needed) == Doubled[<<IF room = 0 THEN FirstCapacity ELSE room, needed>>]

\* Variant: only what is charged already is tested.
AffordableAfterwards(mem, size) == mem.bytes < MaxBytes

(* The old buffer is still charged while the new one is: charge() tests    *)
(* the peak.                                                               *)
Affordable(mem, size) == mem.bytes < MaxBytes /\ size <= MaxBytes - mem.bytes

\* Variant: the buffer that is freed stays charged.
GrownNotDischarged(mem, pool, room) ==
    [mem EXCEPT !.capacity[pool] = room, !.bytes = @ + room * ElementSize[pool]]

Grown(mem, pool, room) ==
    [mem EXCEPT !.capacity[pool] = room,
                !.bytes = @ + (room - mem.capacity[pool]) * ElementSize[pool]]

(* phy_alloc may refuse whatever the budget allows.                        *)
Reserve(mem, pool, needed) ==
    IF needed <= mem.capacity[pool] THEN {mem}
    ELSE LET room == NewCapacity(mem.capacity[pool], needed) IN
         {Refused(mem)} \cup
         (IF Affordable(mem, room * ElementSize[pool]) THEN {Grown(mem, pool, room)} ELSE {})

Account(mem) == capacity' = mem.capacity /\ bytes' = mem.bytes /\ failed' = mem.failed

Graph == <<nodes, symbols, filled, nodeTable, symbolTable>>

(* A call that publishes nothing: it found its answer, or it failed.       *)
Return(mem) == Account(mem) /\ UNCHANGED Graph
Fail(mem) == Return(Refused(mem))

----------------------------------------------------------------------------
(* Interning.  A chain is the set of what is on it, and the hash of a node *)
(* a number its structure determines, names included and ids not; equal    *)
(* hashes are common here.                                                 *)

HashOf(n) ==
    Rank[n.kind] + NameOf(n.head) + NameOf(n.space) + Len(n.children)
    + (IF n.number[1] < 0 THEN 1 - n.number[1] ELSE n.number[1])

Buckets(table) == Cardinality(DOMAIN table)
Filed(table, hash, item) == [table EXCEPT ![hash % Buckets(table)] = @ \cup {item}]

\* Variant: the entries keep the bucket numbers of the smaller table.
RefiledInPlace(size, hashes) ==
    [b \in 0 .. size - 1 |-> {i \in DOMAIN hashes : hashes[i] % (size \div 2) = b}]

Refiled(size, hashes) ==
    [b \in 0 .. size - 1 |-> {i \in DOMAIN hashes : hashes[i] % size = b}]

\* Variant: a table that could not grow leaves its error behind.
RehashedLoudly(mem, pool, table, hashes) ==
    LET size == Buckets(table) IN
    IF Len(hashes) + 1 <= size - size \div 4 THEN {[mem |-> mem, table |-> table]}
    ELSE {IF grown.ok THEN [mem |-> grown, table |-> Refiled(2 * size, hashes)]
          ELSE [mem |-> [grown EXCEPT !.ok = TRUE], table |-> table] :
             grown \in Reserve(mem, pool, 2 * size)}

(* symbol_rehash and node_rehash: a table past three quarters doubles; one *)
(* that cannot keeps working with longer chains and says nothing.          *)
Rehashed(mem, pool, table, hashes) ==
    LET size == Buckets(table) IN
    IF Len(hashes) + 1 <= size - size \div 4 THEN {[mem |-> mem, table |-> table]}
    ELSE {IF grown.ok THEN [mem |-> grown, table |-> Refiled(2 * size, hashes)]
          ELSE [mem |-> mem, table |-> table] : grown \in Reserve(mem, pool, 2 * size)}

----------------------------------------------------------------------------
(* Symbols *)

SymbolNamed(name) ==
    {sym \in symbolTable[name % Buckets(symbolTable)] : symbols[sym].name = name}

NewSymbol(name) == [name |-> name, assumed |-> {}, symmetries |-> {}]

PublishSymbol(mem, name) ==
    LET all == Append(symbols, NewSymbol(name))
        filed == Filed(symbolTable, name, Len(all))
    IN  \E r \in Rehashed(mem, "symbolBuckets", filed, [i \in DOMAIN all |-> all[i].name]) :
            /\ Account(r.mem)
            /\ symbolTable' = r.table
            /\ symbols' = all
            /\ filled' = [filled EXCEPT !.strings = @ + NameLength[name] + 1]
            /\ UNCHANGED <<nodes, nodeTable>>

(* phy_ir_intern_n copies the name and pushes the record; a record that    *)
(* finds no room gives the name's bytes back.                              *)
Intern(name) ==
    IF name = Null THEN Fail(Memory)
    ELSE IF SymbolNamed(name) # {} THEN Return(Memory)
    ELSE \E s \in Reserve(Memory, "strings", filled.strings + NameLength[name] + 1) :
         IF ~s.ok THEN Fail(s)
         ELSE \E r \in Reserve(s, "symbols", Len(symbols) + 2) :
              IF r.ok THEN PublishSymbol(r, name) ELSE Fail(r)

Contradictory(sym, flags) == {"positive", "negative"} \subseteq symbols[sym].assumed \cup flags

Assume(sym, flags) ==
    IF sym \notin SymbolIds \/ Contradictory(sym, flags) THEN Fail(Memory)
    ELSE /\ symbols' = [symbols EXCEPT ![sym].assumed = @ \cup flags]
         /\ UNCHANGED <<nodes, filled, nodeTable, symbolTable, capacity, bytes, failed>>

\* Variant: the slots are taken in the order they are given.
SlotPairAsGiven(a, b) == <<a, b>>

SlotPair(a, b) == IF a < b THEN <<a, b>> ELSE <<b, a>>

(* phy_ir_declare_symmetry: a pair is declared once, one way.              *)
DeclareSymmetry(sym, a, b, how) ==
    IF sym \notin SymbolIds \/ a = b THEN Fail(Memory)
    ELSE LET known == {d \in symbols[sym].symmetries : d.pair = SlotPair(a, b)} IN
         IF known # {}
         THEN IF \E d \in known : d.how = how THEN Return(Memory) ELSE Fail(Memory)
         ELSE \E r \in Reserve(Memory, "symmetries", filled.symmetries + 2) :
              IF ~r.ok THEN Fail(r)
              ELSE /\ Account(r)
                   /\ symbols' = [symbols EXCEPT ![sym].symmetries =
                                     @ \cup {[pair |-> SlotPair(a, b), how |-> how]}]
                   /\ filled' = [filled EXCEPT !.symmetries = @ + 1]
                   /\ UNCHANGED <<nodes, nodeTable, symbolTable>>

----------------------------------------------------------------------------
(* intern_node *)

(* same_payload compares what a node is made of: refs of children, ids of  *)
(* names, numbers as they are written.                                     *)
Holding(n) ==
    {ref \in nodeTable[HashOf(n) % Buckets(nodeTable)] : nodes[ref] = n}

Digits(k) == IF k < 0 THEN 2 ELSE 1     \* bytes of a numerator, of one figure here
TextBytes(n) == Digits(n.number[1]) + (IF n.kind = "INTEGER" THEN 0 ELSE 1)
IsBig(n) == n.aux = "big"

(* The pools a node's payload goes to, with the elements they gain.        *)
Payload(n) ==
    [pool \in DOMAIN filled |->
        CASE pool = "exactText" /\ IsBig(n) -> TextBytes(n)
          [] pool = "bigExacts" /\ IsBig(n) -> 1
          [] pool = "rationals" /\ n.kind = "RATIONAL" /\ ~IsBig(n) -> 1
          [] pool = "children" -> Len(n.children)
          [] OTHER -> 0]

WithPayload(n) == [pool \in DOMAIN filled |-> filled[pool] + Payload(n)[pool]]

ReservePayload(mem, n) ==
    LET Room(m, pool) == Reserve(m, pool, WithPayload(n)[pool]) IN
    IF IsBig(n)
    THEN UNION {IF t.ok THEN Room(t, "bigExacts") ELSE {t} : t \in Room(mem, "exactText")}
    ELSE IF n.kind = "RATIONAL" THEN Room(mem, "rationals")
    ELSE Room(mem, "children")

PublishNode(mem, n) ==
    LET all == Append(nodes, n)
        filed == Filed(nodeTable, HashOf(n), Len(all))
    IN  \E r \in Rehashed(mem, "nodeBuckets", filed, [i \in DOMAIN all |-> HashOf(all[i])]) :
            /\ Account(r.mem)
            /\ nodeTable' = r.table
            /\ nodes' = all
            /\ filled' = WithPayload(n)
            /\ UNCHANGED <<symbols, symbolTable>>

\* Variant: the payload stays where it was appended.
UnpublishedKept(mem, n) ==
    /\ Account(mem)
    /\ filled' = WithPayload(n)
    /\ UNCHANGED <<nodes, symbols, nodeTable, symbolTable>>

(* The node itself found no room: the counts go back, capacity does not.   *)
Unpublished(mem, n) ==
    /\ Account(mem)
    /\ filled' = filled
    /\ UNCHANGED <<nodes, symbols, nodeTable, symbolTable>>

InternNode(mem, n) ==
    IF Holding(n) # {} THEN Return(mem)
    ELSE IF Len(nodes) >= workload.maxNodes THEN Fail(mem)
    ELSE \E p \in ReservePayload(mem, n) :
         IF ~p.ok THEN Fail(p)
         ELSE \E r \in Reserve(p, "nodes", Len(nodes) + 2) :
              IF r.ok THEN PublishNode(r, n) ELSE Unpublished(r, n)

----------------------------------------------------------------------------
(* Numbers *)

Gcd[p \in Nat \X Nat] == IF p[2] = 0 THEN p[1] ELSE Gcd[<<p[2], p[1] % p[2]>>]
Magnitude(k) == IF k < 0 THEN -k ELSE k

(* Lowest terms, the sign on the numerator.                                *)
Reduced(n, d) ==
    LET g == Gcd[<<Magnitude(n), Magnitude(d)>>]
        m == Magnitude(n) \div g
    IN  <<IF (n < 0) # (d < 0) THEN -m ELSE m, Magnitude(d) \div g>>

FitsInline(q) == q[1] \in Inline /\ q[2] <= IntMax

NumberNode(q, aux) == Atom(IF q[2] = 1 THEN "INTEGER" ELSE "RATIONAL", Null, aux, Null, q)

MakeInteger(k) == InternNode(Memory, NumberNode(<<k, 1>>, ""))

(* phy_ir_rational: lowest terms may still not fit, INT64_MIN / -1.        *)
MakeRational(n, d) ==
    IF d = 0 \/ ~FitsInline(Reduced(n, d)) THEN Fail(Memory)
    ELSE InternNode(Memory, NumberNode(Reduced(n, d), ""))

\* Variant: what is read from text is stored as text.
MakeFromTextPromoted(n, d) ==
    \/ Fail(Memory)
    \/ d # 0 /\ InternNode(Memory, NumberNode(Reduced(n, d), "big"))

(* phy_ir_rational_text_n reads through a temporary exact context, which   *)
(* may find no memory; a value that fits is stored inline after all.       *)
MakeFromText(n, d) ==
    \/ Fail(Memory)
    \/ /\ d # 0
       /\ LET q == Reduced(n, d) IN
          InternNode(Memory, NumberNode(q, IF FitsInline(q) THEN "" ELSE "big"))

(* phy_ir_real: minus zero is zero, and what is not finite is refused.     *)
MakeReal(value) ==
    IF value = "not finite" THEN Fail(Memory)
    ELSE InternNode(Memory, Atom("REAL", Null, "", Null, IF value = "one" THEN <<1, 1>> ELSE NoNumber))

----------------------------------------------------------------------------
(* Named atoms and errors *)

MakeSymbol(sym) ==
    IF sym \notin SymbolIds THEN Fail(Memory)
    ELSE InternNode(Memory, Atom("SYMBOL", sym, "", Null, NoNumber))

MakeIndex(sym, variance, space) ==
    IF sym \notin SymbolIds \/ space \notin SymbolIds \cup {Null} THEN Fail(Memory)
    ELSE InternNode(Memory, Atom("INDEX", sym, variance, space, NoNumber))

(* A status carried as a value; PHY_OK is not one.                         *)
MakeError(code) ==
    IF code = "PHY_OK" THEN Fail(Memory)
    ELSE InternNode(Memory, Atom("ERROR", Null, code, Null, NoNumber))

----------------------------------------------------------------------------
(* phy_ir_compare, on refs                                                 *)

Compared(m, n) == IF m < n THEN -1 ELSE IF m > n THEN 1 ELSE 0

(* The first of the comparisons that tells.                                *)
Lexicographic(results) ==
    LET tell == {i \in DOMAIN results : results[i] # 0} IN
    IF tell = {} THEN 0 ELSE results[CHOOSE i \in tell : \A j \in tell : i <= j]

Reversed(negative, result) == IF negative THEN -result ELSE result

\* Variant: a promoted number comes after every inline one.
CompareNumbersUnsigned(a, b) ==
    LET p == a.number
        q == b.number
    IN  IF IsBig(a) # IsBig(b) THEN IF IsBig(a) THEN 1 ELSE -1
        ELSE Compared(p[1] * q[2], q[1] * p[2])

(* Promoted numbers lie beyond the inline ones of their sign, in an order  *)
(* of their own: by numerator, then against the denominator.               *)
CompareNumbers(a, b) ==
    LET p == a.number
        q == b.number
        negative == p[1] < 0
    IN  IF ~IsBig(a) /\ ~IsBig(b) THEN Compared(p[1] * q[2], q[1] * p[2])
        ELSE IF negative # (q[1] < 0) THEN IF negative THEN -1 ELSE 1
        ELSE Reversed(negative,
               IF IsBig(a) # IsBig(b) THEN IF IsBig(a) THEN 1 ELSE -1
               ELSE Lexicographic(<<Compared(Magnitude(p[1]), Magnitude(q[1])),
                                    Compared(q[2], p[2])>>))

\* Variant: symbols come in the order they were interned.
CompareNamesById(s, t) == Compared(s, t)

CompareNames(s, t) == Compared(NameOf(s), NameOf(t))

AuxOrder == [lower |-> 0, upper |-> 1, PHY_ERR_DOMAIN |-> 2, PHY_ERR_TYPE |-> 3]

\* Variant: indices of one name are told apart by their variance alone.
CompareIndicesSpaceless(a, b) ==
    Lexicographic(<<CompareNames(a.head, b.head), Compared(AuxOrder[a.aux], AuxOrder[b.aux])>>)

CompareIndices(a, b) ==
    Lexicographic(<<CompareNames(a.head, b.head), Compared(AuxOrder[a.aux], AuxOrder[b.aux]),
                    CompareNames(a.space, b.space)>>)

Exact == {"INTEGER", "RATIONAL"}

Order[p \in Refs \X Refs] ==
    LET a == nodes[p[1]]
        b == nodes[p[2]]
    IN  IF p[1] = p[2] THEN 0
        ELSE IF Rank[a.kind] # Rank[b.kind] THEN Compared(Rank[a.kind], Rank[b.kind])
        ELSE IF a.kind \in Exact THEN CompareNumbers(a, b)
        ELSE IF a.kind = "REAL" THEN Compared(a.number[1], b.number[1])
        ELSE IF a.kind = "SYMBOL" THEN CompareNames(a.head, b.head)
        ELSE IF a.kind = "INDEX" THEN CompareIndices(a, b)
        ELSE IF a.kind = "ERROR" THEN Compared(AuxOrder[a.aux], AuxOrder[b.aux])
        ELSE IF CompareNames(a.head, b.head) # 0 THEN CompareNames(a.head, b.head)
        ELSE IF Len(a.children) # Len(b.children)
             THEN Compared(Len(a.children), Len(b.children))
        ELSE Lexicographic([i \in DOMAIN a.children |-> Order[<<a.children[i], b.children[i]>>]])

Compare(r, s) == Order[<<r, s>>]

----------------------------------------------------------------------------
(* Compound builders *)

Deepest(operands) ==
    CHOOSE d \in 0 .. workload.maxDepth :
        /\ \A i \in DOMAIN operands : nodes[operands[i]].depth <= d
        /\ d = 0 \/ \E i \in DOMAIN operands : nodes[operands[i]].depth = d

\* Variant: the depth is not looked at.
OperandsOkAnyDepth(operands) ==
    Len(operands) <= MaxChildren /\ \A i \in DOMAIN operands : operands[i] \in Refs

OperandsOk(operands) ==
    /\ Len(operands) <= MaxChildren
    /\ \A i \in DOMAIN operands : operands[i] \in Refs
    /\ Deepest(operands) + 1 <= workload.maxDepth

MakeCompound(mem, kind, head, operands) ==
    IF ~OperandsOk(operands) \/ (kind \in HeadedKinds /\ head \notin SymbolIds) THEN Fail(mem)
    ELSE InternNode(mem, [kind |-> kind, head |-> IF kind \in HeadedKinds THEN head ELSE Null,
                          aux |-> "", space |-> Null, number |-> NoNumber,
                          children |-> operands, depth |-> Deepest(operands) + 1])

Absorbs(kind, ref) == kind \in Associative /\ KindOf(ref) = kind

(* One level is enough: no child of a node has the node's own kind.        *)
Flattened(kind, operands) ==
    LET Spliced[i \in 0 .. Len(operands)] ==
            IF i = 0 THEN <<>>
            ELSE Spliced[i - 1] \o (IF Absorbs(kind, operands[i]) THEN nodes[operands[i]].children
                                    ELSE <<operands[i]>>)
    IN  Spliced[Len(operands)]

(* A ref goes behind all that it does not precede.                         *)
Inserted(sorted, ref) ==
    LET before == Cardinality({i \in DOMAIN sorted : Compare(sorted[i], ref) <= 0})
    IN  SubSeq(sorted, 1, before) \o <<ref>> \o SubSeq(sorted, before + 1, Len(sorted))

(* phy_ir_sort_refs                                                        *)
Sorted(refs) ==
    LET Upto[i \in 0 .. Len(refs)] == IF i = 0 THEN <<>> ELSE Inserted(Upto[i - 1], refs[i])
    IN  Upto[Len(refs)]

Staged(kind, operands) ==
    IF kind \in Commutative THEN Sorted(Flattened(kind, operands))
    ELSE Flattened(kind, operands)

(* make_nary: ADD, MUL, NCMUL and WEDGE.                                   *)
MakeNary(kind, operands) ==
    IF operands = <<>> \/ \E i \in DOMAIN operands : operands[i] \notin Refs THEN Fail(Memory)
    ELSE LET staged == Staged(kind, operands) IN
         IF Len(staged) > MaxChildren THEN Fail(Memory)
         ELSE \E s \in Reserve(Memory, "scratch", Len(staged)) :
              IF ~s.ok THEN Fail(s)
              ELSE IF Len(staged) = 1 THEN Return(s)
              ELSE MakeCompound(s, kind, Null, staged)

MakePair(kind, first, second) == MakeCompound(Memory, kind, Null, <<first, second>>)

(* FUNCTION and OPERATOR take any operands, TENSOR indices alone.          *)
MakeHeaded(kind, head, operands) ==
    IF kind = "TENSOR" /\ \E i \in DOMAIN operands : KindOf(operands[i]) # "INDEX"
    THEN Fail(Memory)
    ELSE MakeCompound(Memory, kind, head, operands)

MakeDerivative(expr, variables) ==
    IF \/ variables = <<>> \/ Len(variables) + 1 > MaxChildren
       \/ \E i \in DOMAIN variables : KindOf(variables[i]) \notin {"SYMBOL", "INDEX"}
    THEN Fail(Memory)
    ELSE \E s \in Reserve(Memory, "scratch", Len(variables) + 1) :
         IF s.ok THEN MakeCompound(s, "DERIVATIVE", Null, <<expr>> \o variables) ELSE Fail(s)

ClearError ==
    /\ failed' = FALSE
    /\ UNCHANGED <<nodes, symbols, filled, nodeTable, symbolTable, capacity, bytes>>

----------------------------------------------------------------------------
(* phy_ir_context_create, with room for the sentinels and the tables.      *)
FirstRoom ==
    [pool \in Pools |->
        CASE pool \in {"nodes", "symbols", "symmetries"} -> FirstCapacity
          [] pool \in {"nodeBuckets", "symbolBuckets"} -> NewCapacity(0, FirstBuckets)
          [] OTHER -> 0]

EmptyTable == [b \in 0 .. FirstBuckets - 1 |-> {}]

(* The sum of a list of numbers.                                           *)
Claimed(claims) ==
    LET Sum[i \in 0 .. Len(claims)] == IF i = 0 THEN 0 ELSE Sum[i - 1] + claims[i]
    IN  Sum[Len(claims)]

PoolBytes(room) ==
    Claimed([i \in 1 .. Len(PoolList) |-> room[PoolList[i]] * ElementSize[PoolList[i]]])

Init ==
    /\ nodes = <<>> /\ symbols = <<>>
    /\ filled = [pool \in {"children", "rationals", "bigExacts", "exactText", "strings",
                            "symmetries"} |-> 0]
    /\ nodeTable = EmptyTable /\ symbolTable = EmptyTable
    /\ capacity = FirstRoom /\ bytes = PoolBytes(FirstRoom)
    /\ failed = FALSE /\ workload \in Workloads

Operands == UNION {[1 .. n -> Refs \cup {Null}] : n \in 0 .. MaxOperands}
SomeSymbol == SymbolIds \cup {Null}
SomeRef == Refs \cup {Null}

Declare ==
    \/ \E name \in workload.names \cup {Null} : Intern(name)
    \/ \E sym \in SomeSymbol, flags \in workload.flags : Assume(sym, flags)
    \/ \E sym \in SomeSymbol, a \in workload.slots, b \in workload.slots :
       \E how \in {"symmetric", "antisymmetric"} : DeclareSymmetry(sym, a, b, how)
    \/ ClearError

MakeAtom ==
    \/ \E k \in workload.integers : MakeInteger(k)
    \/ \E q \in workload.fractions : MakeRational(q[1], q[2])
    \/ \E q \in workload.decimals : MakeFromText(q[1], q[2])
    \/ "REAL" \in workload.kinds
       /\ \E value \in {"zero", "minus zero", "one", "not finite"} : MakeReal(value)
    \/ "SYMBOL" \in workload.kinds /\ \E sym \in SomeSymbol : MakeSymbol(sym)
    \/ "INDEX" \in workload.kinds
       /\ \E sym \in SomeSymbol, variance \in {"lower", "upper"}, space \in SomeSymbol :
           MakeIndex(sym, variance, space)
    \/ "ERROR" \in workload.kinds
       /\ \E code \in {"PHY_OK", "PHY_ERR_DOMAIN", "PHY_ERR_TYPE"} : MakeError(code)

MakeTree ==
    \/ \E kind \in workload.kinds \cap Associative, operands \in Operands : MakeNary(kind, operands)
    \/ \E kind \in workload.kinds \cap {"POW", "EQUATION"}, first \in SomeRef, second \in SomeRef :
        MakePair(kind, first, second)
    \/ \E kind \in workload.kinds \cap HeadedKinds, sym \in SomeSymbol, operands \in Operands :
        MakeHeaded(kind, sym, operands)
    \/ "DERIVATIVE" \in workload.kinds
       /\ \E expr \in SomeRef, variables \in Operands : MakeDerivative(expr, variables)

Next == (Declare \/ MakeAtom \/ MakeTree) /\ UNCHANGED workload

Spec == Init /\ [][Next]_vars

----------------------------------------------------------------------------
Number == Int \X Int

(* Every variable holds what its declaration allows.                       *)
TypeOK ==
    /\ \A r \in Refs :
        LET n == nodes[r] IN
        /\ n.kind \in DOMAIN Rank /\ n.head \in SomeSymbol /\ n.space \in SomeSymbol
        /\ n.number \in Number /\ n.depth \in 1 .. workload.maxDepth
    /\ \A s \in SymbolIds : symbols[s].name \in Names
    /\ capacity \in [Pools -> Nat] /\ bytes \in Nat
    /\ failed \in BOOLEAN

(* phy_ir_validate, first half: what the pools count is exactly what the   *)
(* symbols and nodes claim, so no call that failed between two of its      *)
(* allocations left a payload behind.                                      *)
NothingOrphaned ==
    /\ filled.strings = Claimed([s \in SymbolIds |-> NameLength[symbols[s].name] + 1])
    /\ filled.symmetries = Claimed([s \in SymbolIds |-> Cardinality(symbols[s].symmetries)])
    /\ \A pool \in {"children", "rationals", "bigExacts", "exactText"} :
        filled[pool] = Claimed([r \in Refs |-> Payload(nodes[r])[pool]])

(* phy_ir_validate, second half: every node and every symbol is on the     *)
(* chain of its bucket, and on no other, however often the tables grew or  *)
(* could not grow.                                                         *)
NothingLost ==
    /\ \A b \in DOMAIN nodeTable :
        nodeTable[b] = {r \in Refs : HashOf(nodes[r]) % Buckets(nodeTable) = b}
    /\ \A b \in DOMAIN symbolTable :
        symbolTable[b] = {s \in SymbolIds : symbols[s].name % Buckets(symbolTable) = b}

(* "Structurally identical subtrees are one node" (ir.h): no two symbols   *)
(* have one name and no two nodes one structure; and for exact numbers, no *)
(* two nodes have one value, inline, reduced or promoted.                  *)
OneNodePerStructure ==
    /\ \A s, t \in SymbolIds : symbols[s].name = symbols[t].name => s = t
    /\ \A r, s \in Refs :
        r # s => /\ nodes[r] # nodes[s]
                 /\ nodes[r].kind \in Exact /\ nodes[s].kind \in Exact
                    => nodes[r].number[1] * nodes[s].number[2]
                         # nodes[s].number[1] * nodes[r].number[2]

(* A node's children were built before it, none has an associative node's  *)
(* own kind, and the operands of a commutative one are sorted -- symbols   *)
(* by name, whatever order they were interned in.                          *)
OperandsCanonical ==
    \A r \in Refs :
        LET n == nodes[r] IN
        /\ \A i \in DOMAIN n.children : n.children[i] \in 1 .. r - 1
        /\ \A i \in DOMAIN n.children : ~Absorbs(n.kind, n.children[i])
        /\ n.kind \in Commutative =>
            \A i, j \in DOMAIN n.children :
                i < j => LET c == n.children[i]
                             d == n.children[j]
                         IN  /\ Compare(c, d) <= 0
                             /\ KindOf(c) = "SYMBOL" /\ KindOf(d) = "SYMBOL"
                                => NameOf(nodes[c].head) <= NameOf(nodes[d].head)

(* phy_ir_compare is a total order: it tells any two nodes apart, one way  *)
(* round, and has no cycle, or the sort would store one sum in two ways.   *)
OrderIsTotal ==
    \A r, s \in Refs :
        r # s => /\ Compare(r, s) \in {-1, 1} /\ Compare(s, r) = -Compare(r, s)
                 /\ \A t \in Refs : Compare(r, s) < 0 /\ Compare(s, t) < 0 => Compare(r, t) < 0

(* No promoted number lies between the inline ones: a sum of numbers is    *)
(* stored in the order of their signs.                                     *)
SignsInOrder ==
    \A r, s \in Refs :
        nodes[r].kind \in Exact /\ nodes[s].kind \in Exact
        /\ nodes[r].number[1] < 0 /\ nodes[s].number[1] >= 0 => Compare(r, s) < 0

(* "Bounded: every construction is checked against node, depth, term and   *)
(* byte ceilings" (ir.h), and the bytes charged are what the pools have,   *)
(* after every refused growth and every table that was replaced.           *)
WithinLimits ==
    /\ Len(nodes) <= workload.maxNodes
    /\ \A r \in Refs :
        LET n == nodes[r] IN
        /\ Len(n.children) <= MaxChildren /\ n.depth <= workload.maxDepth
        /\ \A i \in DOMAIN n.children : nodes[n.children[i]].depth < n.depth
    /\ bytes = PoolBytes(capacity)
    /\ \A pool \in DOMAIN filled : filled[pool] <= capacity[pool]

(* "The byte ceiling is tested against the transient peak rather than the  *)
(* final size" (docs/IR.md): a pool grows only when the old buffer and the *)
(* new one fit together.                                                   *)
PeakWithinBudget ==
    [][ \A pool \in Pools :
          capacity'[pool] # capacity[pool] => bytes + capacity'[pool] * ElementSize[pool] <= MaxBytes
      ]_vars

(* A failed call leaves the graph as it was, and a call that changes it    *)
(* reports nothing, a hash table that could not grow included: a caller    *)
(* may build a whole expression and look at the error once.                *)
ErrorsPublishNothing == [][failed' /\ ~failed => UNCHANGED Graph]_vars

(* Declarations only add up, and never to a contradiction: no symbol is    *)
(* positive and negative, no pair of slots commutes and anticommutes, and  *)
(* the order the slots are named in does not matter.                       *)
DeclarationsConsistent ==
    \A s \in SymbolIds :
        /\ ~({"positive", "negative"} \subseteq symbols[s].assumed)
        /\ \A d, e \in symbols[s].symmetries :
            {d.pair[1], d.pair[2]} = {e.pair[1], e.pair[2]} => d = e

(* The pools and tables account for what they hold and for nothing more,   *)
(* whichever allocation of whichever constructor failed before: no payload *)
(* without its node, no node without its bucket, no byte charged twice,    *)
(* and no limit passed.                                                    *)
PoolsAreExact == NothingOrphaned /\ NothingLost /\ WithinLimits

(* "Equal structure means equal reference" (ir.h) holds of what callers    *)
(* build, in whatever order they build and declare it: one node per        *)
(* structure and per exact value, operands sorted by an order that is      *)
(* total and knows the signs, and declarations that agree.                 *)
NodesAreCanonical ==
    /\ OneNodePerStructure
    /\ OperandsCanonical
    /\ OrderIsTotal
    /\ SignsInOrder
    /\ DeclarationsConsistent
=============================================================================
