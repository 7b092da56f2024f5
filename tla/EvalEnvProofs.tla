--------------------------- MODULE EvalEnvProofs ---------------------------
(***************************************************************************)
(* For every table size, every allocator and every sequence of commands:   *)
(* no block of the heap ever points to a freed block, every bound name and *)
(* every returned value names an allocated object, no bound name is a      *)
(* coordinate of a chart, the table between commands is as                 *)
(* phy_env_validate wants it, and nothing is kept that nobody needs.       *)
(*                                                                         *)
(* The argument follows the objects that are still allocated, wherever the *)
(* sweep has put them.  Alive is the set of slots that hold them, and      *)
(* Needs(s) the slots where the objects that slot s depends on are now:    *)
(* while the table is compacted a recorded dependency is an old slot that  *)
(* remap may already have moved.  Supported says that whatever an allocated*)
(* object points to is reached through Needs and stays Alive.              *)
(***************************************************************************)
EXTENDS EvalEnv, TLAPS, WellFoundedInduction

Alive == {s \in Used :
            /\ phase = "destroy" => s \in marked \/ s <= cursor
            /\ phase = "reset" => s <= cursor
            /\ phase = "compact" => s <= surviving \/ (s >= cursor /\ s \in marked)}

Place(s, d) == IF \/ phase = "compact" /\ d < cursor
                  \/ phase = "remap" /\ s >= cursor
               THEN remap[d] ELSE d

Needs(s) == {Place(s, d) : d \in objects[s].deps}

At(s) == Block(objects[s].ptr)
Owned(s) == objects[s].owned

\* The block of slot s is allocated because s owns it, because it belongs to
\* the pool, or because s is a part of an object that s depends on.
Held(s) == Owned(s) \/ At(s) \in pool \/ \E t \in Needs(s) : Owned(t) /\ At(t) = At(s)

Supported ==
    \A s \in Alive :
        /\ objects[s] \in Entries
        /\ \A t \in Needs(s) : t \in Alive /\ t < s
        /\ Owned(s) => \A r \in refs[At(s)] : \E t \in Needs(s) : At(t) = r
        /\ Held(s)
        /\ objects[s].ptr[2] = "whole" => Owned(s) \/ At(s) \in pool

HeapIsOwned ==
    /\ \A b \in heap : b \in pool \/ \E s \in Alive : Owned(s) /\ At(s) = b
    /\ \A s \in Alive : Owned(s) => At(s) \in heap \ pool
    /\ \A s, t \in Alive : Owned(s) /\ Owned(t) /\ At(s) = At(t) => s = t

PoolIsClosed == pool \subseteq heap /\ \A b \in pool : refs[b] \subseteq pool

MarksClosed ==
    /\ phase \in {"propagate", "destroy", "compact"} => marked \subseteq Used
    /\ phase \in {"propagate", "destroy", "reset"} => cursor <= count
    /\ phase \in {"propagate", "destroy"} =>
          \A s \in marked : phase = "destroy" \/ s > cursor => objects[s].deps \subseteq marked
    /\ phase = "compact" =>
          /\ surviving < cursor /\ cursor <= count + 1
          /\ \A s \in Alive : objects[s].deps \subseteq marked
          /\ \A d \in marked : d < cursor => remap[d] \in 1 .. surviving
    /\ phase = "remap" => cursor >= 1

Listed(p) == \E s \in Alive : objects[s].ptr = p

\* What a root names is in the table, and marked once the roots are marked.
RootsListed ==
    /\ \A n \in Names : bound[n] \in Pointers => phase # "reset" /\ Listed(bound[n])
    /\ value \in Pointers => phase # "reset" /\ Listed(value)
    /\ phase = "eval" => \A p \in held : Listed(p)
    /\ phase \in {"propagate", "destroy"} =>
          \A p \in Roots \cap Pointers : \E s \in marked : objects[s].ptr = p

IInv == TypeOK /\ Supported /\ HeapIsOwned /\ PoolIsClosed /\ MarksClosed /\ RootsListed /\ NoCapture

-----------------------------------------------------------------------------
(* The second invariant, about the table rather than the heap: why an entry  *)
(* is kept, and why no pointer is listed twice.  A command may list the same *)
(* part twice; slot_of only ever finds the first of the two entries, so      *)
(* nothing is recorded as depending on the second one, no root marks it, and *)
(* the sweep of the same command drops it.                                   *)

IsFirst(s) == \A t \in 1 .. s - 1 : objects[t].ptr # objects[s].ptr

DepsAreFirst ==
    phase \notin {"compact", "remap"} => \A s \in Used : \A d \in objects[s].deps : IsFirst(d)

MarksHaveReasons ==
    phase \in {"propagate", "destroy"} =>
        \A s \in marked : /\ IsFirst(s)
                          /\ objects[s].ptr \in Roots \/ \E t \in marked : s \in objects[t].deps

\* Every allocated object is a root, or another one needs it.
Needed == \A s \in Alive : objects[s].ptr \in Roots \/ \E t \in Alive : s \in Needs(t)

Distinct == \A s, t \in Alive : objects[s].ptr = objects[t].ptr => s = t

TableInv ==
    /\ DependenciesPointBack /\ DepsAreFirst /\ MarksHaveReasons
    /\ phase \in {"compact", "remap", "idle"} => Needed /\ Distinct

-----------------------------------------------------------------------------
(* Numbers: a non-empty set of slots has a first one. *)

Less == {p \in Nat \X Nat : p[1] < p[2]}

\* The slots are numbers, and there is no endless descent among them.
LEMMA LessIsWellFounded == IsWellFoundedOn(Less, Nat)
  BY NatLessThanWellFounded DEF OpToRel, Less

\* A non-empty set of slots has a first one.
LEMMA Least ==
  ASSUME NEW T, T \subseteq Nat, T # {}
  PROVE  \E x \in T : \A y \in T : x <= y
<1>1. \E x \in T : \A y \in T : <<y, x>> \notin Less
  BY LessIsWellFounded, WFMin
<1>2. \A x, y \in T : <<y, x>> \in Less <=> y < x
  BY DEF Less
<1>3. PICK x \in T : \A y \in T : ~(y < x)
  BY <1>1, <1>2
<1>4. ASSUME NEW y \in T PROVE x <= y
  <2>1. x \in Nat /\ y \in Nat /\ ~(y < x)
    BY <1>3
  <2> QED BY <2>1
<1> QED
  BY <1>4

\* slot_of finds a pointer that the table lists.
LEMMA SlotFound ==
  ASSUME TypeOK, NEW s \in Used, NEW p, objects[s].ptr = p
  PROVE  /\ \E t \in SlotsOf(p) : objects[t].ptr = p
         /\ SlotsOf(p) \subseteq {t \in Used : objects[t].ptr = p}
<1> DEFINE T == {t \in Used : objects[t].ptr = p}
<1>1. T \subseteq Nat /\ T # {}
  BY LimitAssumption DEF Used, TypeOK
<1>2. PICK t \in T : \A u \in T : t <= u
  BY <1>1, Least
<1>3. ASSUME NEW u \in 1 .. t - 1 PROVE objects[u].ptr # p
  <2>1. t \in 1 .. count /\ count \in Nat
    BY LimitAssumption DEF TypeOK, Used
  <2>2. u \in Used /\ ~(t <= u)
    BY <2>1 DEF Used
  <2> QED BY <1>2, <2>2
<1>4. t \in SlotsOf(p)
  BY <1>3 DEF SlotsOf, FirstAt
<1> QED
  BY <1>4 DEF SlotsOf, FirstAt

-----------------------------------------------------------------------------
(* Moving the table: what holds of the allocated objects holds of them in    *)
(* their new places.                                                         *)

\* Where the next step puts the object of slot s.
Moved(s) == IF phase = "compact" /\ s = cursor THEN surviving + 1 ELSE s

\* Compaction moves an entry down, and what depends on it follows: support,
\* ownership, reasons and distinctness hold of the objects in their new places.
LEMMA Transport ==
  ASSUME Supported, HeapIsOwned, PoolIsClosed, UNCHANGED memory,
         \A s \in Alive : Moved(s) \in Alive',
         \A u \in Alive' : \E s \in Alive : Moved(s) = u,
         \A s, t \in Alive : t < s => Moved(t) < Moved(s),
         \A s \in Alive : \A u \in Alive' : u = Moved(s) =>
             /\ objects'[u] \in Entries
             /\ objects'[u].ptr = objects[s].ptr
             /\ objects'[u].owned = objects[s].owned
             /\ Needs(u)' = {Moved(t) : t \in Needs(s)}
  PROVE  /\ Supported' /\ HeapIsOwned' /\ PoolIsClosed'
         /\ \A p : Listed(p) => Listed(p)'
         /\ Roots' = Roots /\ Needed => Needed'
         /\ Distinct => Distinct'
<1>1. \A s \in Alive : \A u \in Alive' : u = Moved(s) => At(u)' = At(s) /\ Owned(u)' = Owned(s)
  BY DEF At, Owned, Block
<1>2. Supported'
  <2> SUFFICES ASSUME NEW u \in Alive'
               PROVE  /\ objects'[u] \in Entries
                      /\ \A t \in Needs(u)' : t \in Alive' /\ t < u
                      /\ Owned(u)' => \A r \in refs'[At(u)'] : \E t \in Needs(u)' : At(t)' = r
                      /\ Held(u)'
                      /\ objects'[u].ptr[2] = "whole" => Owned(u)' \/ At(u)' \in pool'
    BY DEF Supported
  <2>1. PICK s \in Alive : Moved(s) = u
    OBVIOUS
  <2>2. Needs(u)' = {Moved(t) : t \in Needs(s)}
    BY <2>1
  <2>3. At(u)' = At(s) /\ Owned(u)' = Owned(s)
    BY <1>1, <2>1
  <2>4. \A t \in Needs(s) : /\ t \in Alive /\ t < s /\ Moved(t) \in Alive'
                            /\ \A v : v = Moved(t) => At(v)' = At(t) /\ Owned(v)' = Owned(t)
    BY <1>1 DEF Supported
  <2>5. \A v \in Needs(u)' : \E t \in Needs(s) : v = Moved(t)
    BY <2>2
  <2>6. \A t \in Needs(s) : \E v \in Needs(u)' : v = Moved(t)
    BY <2>2
  <2>7. \A v \in Needs(u)' : v \in Alive' /\ v < u
    BY <2>1, <2>4, <2>5
  <2>8. Owned(u)' => \A r \in refs'[At(u)'] : \E v \in Needs(u)' : At(v)' = r
    <3> SUFFICES ASSUME Owned(u)', NEW r \in refs'[At(u)']
                 PROVE  \E v \in Needs(u)' : At(v)' = r
      OBVIOUS
    <3>1. Owned(s) /\ r \in refs[At(s)]
      BY <2>3 DEF memory
    <3>2. PICK t \in Needs(s) : At(t) = r
      BY <3>1 DEF Supported
    <3> QED BY <2>4, <2>6, <3>2
  <2>9. Held(u)'
    BY <2>3, <2>4, <2>6 DEF Supported, memory, Held
  <2> QED
    BY <2>1, <2>3, <2>7, <2>8, <2>9 DEF Supported, memory
<1>3. HeapIsOwned'
  <2>1. \A b \in heap' : b \in pool' \/ \E u \in Alive' : Owned(u)' /\ At(u)' = b
    <3> SUFFICES ASSUME NEW b \in heap', b \notin pool'
                 PROVE  \E u \in Alive' : Owned(u)' /\ At(u)' = b
      OBVIOUS
    <3>1. PICK s \in Alive : Owned(s) /\ At(s) = b
      BY DEF HeapIsOwned, memory
    <3>2. PICK u \in Alive' : u = Moved(s)
      OBVIOUS
    <3> QED BY <1>1, <3>1, <3>2
  <2>2. \A u \in Alive' : Owned(u)' => At(u)' \in heap' \ pool'
    <3> SUFFICES ASSUME NEW u \in Alive', Owned(u)' PROVE At(u)' \in heap' \ pool'
      OBVIOUS
    <3>1. PICK s \in Alive : Moved(s) = u
      OBVIOUS
    <3> QED BY <1>1, <3>1 DEF HeapIsOwned, memory
  <2>3. \A u, v \in Alive' : Owned(u)' /\ Owned(v)' /\ At(u)' = At(v)' => u = v
    <3> SUFFICES ASSUME NEW u \in Alive', NEW v \in Alive', Owned(u)', Owned(v)', At(u)' = At(v)'
                 PROVE  u = v
      OBVIOUS
    <3>1. PICK s \in Alive : Moved(s) = u
      OBVIOUS
    <3>2. PICK t \in Alive : Moved(t) = v
      OBVIOUS
    <3>3. Owned(s) /\ Owned(t) /\ At(s) = At(t)
      BY <1>1, <3>1, <3>2
    <3>4. s = t
      BY <3>3 DEF HeapIsOwned
    <3> QED BY <3>1, <3>2, <3>4
  <2> QED
    BY <2>1, <2>2, <2>3 DEF HeapIsOwned
<1>4. ASSUME NEW p, Listed(p) PROVE Listed(p)'
  <2>1. PICK s \in Alive : objects[s].ptr = p
    BY <1>4 DEF Listed
  <2>2. PICK u \in Alive' : u = Moved(s)
    OBVIOUS
  <2>3. objects'[u].ptr = p
    BY <2>1, <2>2
  <2> QED
    BY <2>3 DEF Listed
<1>5. ASSUME Roots' = Roots, Needed PROVE Needed'
  <2> SUFFICES ASSUME NEW u \in Alive', objects'[u].ptr \notin Roots'
               PROVE  \E v \in Alive' : u \in Needs(v)'
    BY DEF Needed
  <2>1. PICK s \in Alive : Moved(s) = u
    OBVIOUS
  <2>2. objects[s].ptr \notin Roots
    BY <1>5, <2>1
  <2>3. PICK t \in Alive : s \in Needs(t)
    BY <1>5, <2>2 DEF Needed
  <2>4. PICK v \in Alive' : v = Moved(t)
    OBVIOUS
  <2>5. u \in Needs(v)'
    BY <2>1, <2>3, <2>4
  <2> QED
    BY <2>5
<1>6. ASSUME Distinct PROVE Distinct'
  <2> SUFFICES ASSUME NEW u \in Alive', NEW v \in Alive', objects'[u].ptr = objects'[v].ptr
               PROVE  u = v
    BY DEF Distinct
  <2>1. PICK s \in Alive : Moved(s) = u
    OBVIOUS
  <2>2. PICK t \in Alive : Moved(t) = v
    OBVIOUS
  <2>3. objects[s].ptr = objects[t].ptr
    BY <2>1, <2>2
  <2> QED
    BY <1>6, <2>1, <2>2, <2>3 DEF Distinct
<1> QED
  BY <1>2, <1>3, <1>4, <1>5, <1>6 DEF PoolIsClosed, memory

\* A step that moves nothing.
LEMMA Steady ==
  ASSUME Supported, HeapIsOwned, PoolIsClosed, UNCHANGED memory, Alive' = Alive,
         \A s \in Alive : Moved(s) = s,
         \A s \in Alive :
             /\ objects'[s] \in Entries
             /\ objects'[s].ptr = objects[s].ptr
             /\ objects'[s].owned = objects[s].owned
             /\ Needs(s)' = Needs(s)
  PROVE  /\ Supported' /\ HeapIsOwned' /\ PoolIsClosed'
         /\ \A p : Listed(p) => Listed(p)'
         /\ Roots' = Roots /\ Needed => Needed'
         /\ Distinct => Distinct'
<1>1. \A s \in Alive : {Moved(t) : t \in Needs(s)} = Needs(s)
  BY DEF Supported
<1>2. \A s \in Alive : \A u \in Alive' : u = Moved(s) =>
         /\ objects'[u] \in Entries
         /\ objects'[u].ptr = objects[s].ptr
         /\ objects'[u].owned = objects[s].owned
         /\ Needs(u)' = {Moved(t) : t \in Needs(s)}
  BY <1>1
<1> QED
  BY <1>2, Transport

-----------------------------------------------------------------------------
(* Type correctness. *)

\* phy_env_create: an empty table has the right types.
LEMMA InitTypeOK == Init => TypeOK
  BY LimitAssumption, SentinelAssumption
  DEF Init, TypeOK, Slots, Entries, Free, Values, Phases

FreeRecords == [ptr : {None}, owned : {FALSE}, deps : {{}}, coords : {{}}]

\* A slot that holds nothing looks the same however it was emptied.
LEMMA FreeRecord == Free \in FreeRecords /\ \A r \in FreeRecords : r = Free
<1>1. Free \in FreeRecords
  BY DEF Free, FreeRecords
<1>2. ASSUME NEW r \in FreeRecords PROVE r = Free
  <2>1. r = [ptr |-> r.ptr, owned |-> r.owned, deps |-> r.deps, coords |-> r.coords]
    BY DEF FreeRecords
  <2> QED BY <2>1 DEF Free, FreeRecords
<1> QED BY <1>1, <1>2

\* eval_register_many writes an entry of the right type, within the table.
LEMMA EntryType ==
  ASSUME TypeOK, NEW p \in Pointers, NEW o \in BOOLEAN, NEW S \in SUBSET held,
         NEW X \in SUBSET Names, Register(p, o, S, X)
  PROVE  /\ objects' \in [Slots -> Entries \cup {Free}]
         /\ count' \in 0 .. MaxObjects /\ held' \subseteq Pointers
<1>1. count \in Nat /\ count + 1 \in Slots /\ Used \subseteq Slots
  BY LimitAssumption DEF TypeOK, Register, Slots, Used
<1>2. UNION {SlotsOf(q) : q \in S} \subseteq Slots
  BY <1>1 DEF SlotsOf
<1>3. [ptr |-> p, owned |-> o, coords |-> X, deps |-> UNION {SlotsOf(q) : q \in S}] \in Entries
  BY <1>2 DEF Entries
<1> QED
  BY <1>1, <1>3, LimitAssumption DEF TypeOK, Register

\* Every command and every sweep step keeps the types; compaction needs to know
\* that survivors move down.
LEMMA StepTypeOK == TypeOK /\ MarksClosed /\ [Next]_vars => TypeOK'
<1> SUFFICES ASSUME TypeOK, MarksClosed, [Next]_vars PROVE TypeOK'
  OBVIOUS
<1>a. LimitAssumption /\ count \in Nat /\ Used \subseteq Slots /\ None \in Values
  BY LimitAssumption DEF TypeOK, Slots, Used, Values
<1>b. ASSUME FailCommand PROVE TypeOK'
  BY <1>a, <1>b DEF FailCommand, Sweep, TypeOK, table, sweep, memory, Phases
<1>1. ASSUME NEW n \in Names \cup {NoName}, Begin(n) PROVE TypeOK'
  BY <1>1, <1>a DEF Begin, TypeOK, table, sweep, memory, Phases
<1>2. ASSUME NEW n \in Names, ReadBinding(n) \/ ClearName(n) PROVE TypeOK'
  BY <1>2, <1>a DEF ReadBinding, ClearName, Sweep, TypeOK, table, sweep, memory, Phases
<1>3. ASSUME NEW b \in Blocks, NEW S \in SUBSET held, NEW X \in SUBSET Names,
             PublishObject(b, S, X)
      PROVE  TypeOK'
  <2>1. CASE Register(<<b, "whole">>, TRUE, S, X) /\ heap' = heap \cup {b}
             /\ refs' = [refs EXCEPT ![b] = {Block(q) : q \in S}]
             /\ UNCHANGED <<edited, pool, declared>>
    <3>1. <<b, "whole">> \in Pointers
      BY DEF Pointers
    <3>2. {Block(q) : q \in S} \subseteq Blocks
      BY DEF TypeOK, Pointers, Block
    <3>3. refs' \in [Blocks -> SUBSET Blocks]
      BY <2>1, <3>2 DEF TypeOK
    <3> QED
      BY <2>1, <3>1, <3>3, EntryType DEF Register, TypeOK, sweep
  <2> QED
    BY <1>3, <1>b, <2>1 DEF PublishObject
<1>4. ASSUME NEW b \in Blocks, NEW S \in SUBSET held, DeclareObject(b, S) PROVE TypeOK'
  <2>1. CASE Register(<<b, "whole">>, FALSE, {}, {}) /\ heap' = heap \cup {b}
             /\ pool' = pool \cup {b}
             /\ refs' = [refs EXCEPT ![b] = {Block(q) : q \in S}]
             /\ declared' = declared \cup {target} /\ edited' = edited \cup {b}
    <3>1. <<b, "whole">> \in Pointers
      BY DEF Pointers
    <3>2. {Block(q) : q \in S} \subseteq Blocks
      BY DEF TypeOK, Pointers, Block
    <3>3. refs' \in [Blocks -> SUBSET Blocks]
      BY <2>1, <3>2 DEF TypeOK
    <3>4. {} \in SUBSET held /\ {} \in SUBSET Names
      OBVIOUS
    <3>5. /\ objects' \in [Slots -> Entries \cup {Free}]
          /\ count' \in 0 .. MaxObjects /\ held' \subseteq Pointers
      BY <2>1, <3>1, <3>4, EntryType
    <3> QED
      BY <2>1, <3>3, <3>5 DEF Register, TypeOK, sweep
  <2> QED
    BY <1>4, <1>b, <2>1 DEF DeclareObject
<1>5. ASSUME NEW b \in Blocks, NEW x \in Names, PublishChart(b, x) PROVE TypeOK'
  BY <1>5, <1>3, <1>b DEF PublishChart
<1>6. ASSUME NEW b \in Blocks, PublishPart(b) PROVE TypeOK'
  <2>1. CASE Register(<<b, "part">>, FALSE, {<<b, "whole">>}, {}) /\ UNCHANGED <<edited, memory>>
    <3>1. <<b, "part">> \in Pointers /\ {<<b, "whole">>} \in SUBSET held
      BY <1>6 DEF Pointers, PublishPart
    <3>2. {} \in SUBSET Names
      OBVIOUS
    <3>3. /\ objects' \in [Slots -> Entries \cup {Free}]
          /\ count' \in 0 .. MaxObjects /\ held' \subseteq Pointers
      BY <2>1, <3>1, <3>2, EntryType
    <3> QED
      BY <2>1, <3>3 DEF Register, TypeOK, sweep, memory
  <2> QED
    BY <1>6, <1>b, <2>1 DEF PublishPart
<1>7. ASSUME NEW b \in Blocks, EditObject(b) PROVE TypeOK'
  BY <1>7, <1>a DEF EditObject, TypeOK, table, sweep, memory
<1>8. ASSUME NEW v \in held \cup {None}, Finish(v) PROVE TypeOK'
  <2>1. v \in Values
    BY DEF TypeOK, Values
  <2> QED
    BY <1>8, <1>a, <2>1 DEF Finish, Bind, Sweep, TypeOK, sweep, memory, Phases
<1>9. ASSUME BackendFails \/ BindRefused PROVE TypeOK'
  BY <1>9, <1>b DEF BackendFails, BindRefused
<1>10. ASSUME ClearAll PROVE TypeOK'
  BY <1>10, <1>a DEF ClearAll, TypeOK, memory, Phases
<1>11. ASSUME MarkRoots PROVE TypeOK'
  <2>1. UNION {SlotsOf(p) : p \in Roots} \subseteq Slots
    BY <1>a DEF SlotsOf
  <2> QED
    BY <1>11, <1>a, <2>1 DEF MarkRoots, TypeOK, table, command, memory, Phases
<1>12. ASSUME Propagate PROVE TypeOK'
  <2>1. cursor \in marked => objects[cursor].deps \subseteq Slots
    BY DEF TypeOK, Entries, Free
  <2> QED
    BY <1>12, <1>a, <2>1 DEF Propagate, TypeOK, table, command, memory, Phases
<1>13. ASSUME NEW s, DestroyEntry(s)
       PROVE  /\ heap' \subseteq Blocks /\ refs' \in [Blocks -> SUBSET Blocks]
              /\ pool' \subseteq Blocks /\ declared' \subseteq Names \cup {NoName}
  BY <1>13 DEF DestroyEntry, TypeOK
<1>14. ASSUME DestroyUnmarked PROVE TypeOK'
  <2>1. /\ heap' \subseteq Blocks /\ refs' \in [Blocks -> SUBSET Blocks]
        /\ pool' \subseteq Blocks /\ declared' \subseteq Names \cup {NoName}
    BY <1>13, <1>14 DEF DestroyUnmarked, memory, TypeOK
  <2> QED
    BY <1>14, <1>a, <2>1 DEF DestroyUnmarked, TypeOK, table, command, Phases
<1>15. ASSUME ResetDestroy PROVE TypeOK'
  <2>1. /\ heap' \subseteq Blocks /\ refs' \in [Blocks -> SUBSET Blocks]
        /\ pool' \subseteq Blocks /\ declared' \subseteq Names \cup {NoName}
    BY <1>13, <1>15 DEF ResetDestroy, memory, TypeOK
  <2> QED
    BY <1>15, <1>a, <2>1 DEF ResetDestroy, TypeOK, command, Phases
<1>16. ASSUME Compact PROVE TypeOK'
  <2>1. phase = "compact" /\ surviving < cursor /\ cursor <= count + 1
    BY <1>16 DEF Compact, MarksClosed
  <2>2. CASE cursor <= count /\ cursor \in marked
             /\ objects' = [objects EXCEPT ![surviving + 1] = objects[cursor]]
             /\ remap' = [remap EXCEPT ![cursor] = surviving + 1]
             /\ surviving' = surviving + 1
             /\ cursor' = cursor + 1 /\ UNCHANGED <<count, phase>>
    <3>1. cursor \in Slots /\ surviving + 1 \in 0 .. MaxObjects
      BY <2>1, <2>2, <1>a DEF TypeOK, Slots
    <3>2. objects' \in [Slots -> Entries \cup {Free}] /\ remap' \in [Slots -> 0 .. MaxObjects]
      BY <2>2, <3>1 DEF TypeOK
    <3> QED
      BY <1>16, <2>2, <3>1, <3>2, <1>a DEF Compact, TypeOK, command, memory
  <2>3. CASE cursor <= count /\ cursor \notin marked
             /\ remap' = [remap EXCEPT ![cursor] = 0]
             /\ cursor' = cursor + 1 /\ UNCHANGED <<objects, count, surviving, phase>>
    <3>1. cursor \in Slots
      BY <2>1, <2>3, <1>a DEF TypeOK, Slots
    <3>2. remap' \in [Slots -> 0 .. MaxObjects] /\ cursor' \in 0 .. MaxObjects + 1
      BY <2>3, <3>1, <1>a DEF TypeOK, Slots
    <3> QED
      BY <1>16, <2>3, <3>2 DEF Compact, TypeOK, command, memory
  <2>4. CASE cursor > count
             /\ objects' = [s \in Slots |-> IF s <= surviving THEN objects[s] ELSE Free]
             /\ count' = surviving
             /\ cursor' = 1 /\ phase' = "remap" /\ UNCHANGED <<remap, surviving>>
    BY <1>16, <2>4, <1>a DEF Compact, TypeOK, command, memory, Phases
  <2> QED
    BY <1>16, <2>2, <2>3, <2>4 DEF Compact
<1>17. ASSUME Remap PROVE TypeOK'
  <2>1. CASE cursor <= count /\ cursor' = cursor + 1
             /\ objects' = [objects EXCEPT ![cursor].deps = {remap[d] : d \in @} \ {0}]
             /\ UNCHANGED <<phase, marked, surviving, remap>>
    <3>1. cursor \in Slots
      BY <1>17, <2>1, <1>a DEF Remap, MarksClosed, TypeOK, Slots
    <3>2. {remap[d] : d \in objects[cursor].deps} \ {0} \subseteq Slots
      BY <3>1, <1>a DEF TypeOK, Slots, Entries, Free
    <3> DEFINE D == {remap[d] : d \in objects[cursor].deps} \ {0}
    <3>3. [objects[cursor] EXCEPT !.deps = D] \in Entries \cup {Free}
      <4>1. CASE objects[cursor] = Free
        <5>1. D = {}
          BY <4>1 DEF Free
        <5>2. objects[cursor] \in FreeRecords
          BY <4>1, FreeRecord
        <5> HIDE DEF D
        <5>3. [objects[cursor] EXCEPT !.deps = D] \in FreeRecords
          BY <5>1, <5>2 DEF FreeRecords
        <5> QED
          BY <5>3, FreeRecord
      <4>2. CASE objects[cursor] \in Entries
        <5>1. D \in SUBSET Slots
          BY <3>2
        <5> HIDE DEF D
        <5> QED
          BY <4>2, <5>1 DEF Entries
      <4> QED
        BY <4>1, <4>2, <3>1 DEF TypeOK
    <3>4. objects' \in [Slots -> Entries \cup {Free}]
      BY <2>1, <3>1, <3>3 DEF TypeOK
    <3> QED
      BY <1>17, <2>1, <3>1, <3>4, <1>a DEF Remap, TypeOK, command, memory, Slots
  <2>2. CASE cursor > count /\ phase' = "idle" /\ cursor' = 0 /\ marked' = {}
             /\ surviving' = 0 /\ remap' = [s \in Slots |-> 0] /\ UNCHANGED objects
    BY <1>17, <2>2, <1>a DEF Remap, TypeOK, command, memory, Phases
  <2> QED
    BY <1>17, <2>1, <2>2 DEF Remap
<1>18. ASSUME UNCHANGED vars PROVE TypeOK'
  BY <1>18 DEF vars, table, command, sweep, memory, TypeOK
<1> QED
  BY <1>1, <1>2, <1>3, <1>4, <1>5, <1>6, <1>7, <1>8, <1>9, <1>10, <1>11, <1>12,
     <1>14, <1>15, <1>16, <1>17, <1>18
  DEF Next, SweepStep, Operands

-----------------------------------------------------------------------------
(* The invariant.  First the steps that leave the table and the heap alone.  *)

Quiet == {"idle", "eval", "mark", "propagate"}

\* A step that changes neither the table nor the heap keeps what holds of them.
LEMMA QuietStep ==
  ASSUME TypeOK, Supported, HeapIsOwned, PoolIsClosed,
         UNCHANGED <<objects, count, memory>>, phase \in Quiet, phase' # "compact", phase' # "remap",
         phase' \in {"destroy", "reset"} => cursor' = count
  PROVE  /\ Supported' /\ HeapIsOwned' /\ PoolIsClosed'
         /\ \A p : Listed(p) => Listed(p)'
<1>1. Alive = Used
  BY DEF Alive, Quiet
<1>2. Alive' = Used
  <2>1. \A s \in Used : s <= count
    BY DEF Used, TypeOK
  <2> QED BY <2>1 DEF Alive, Used
<1>3. \A s : Moved(s) = s
  BY DEF Moved, Quiet
<1>4. \A s : Needs(s) = objects[s].deps /\ Needs(s)' = objects[s].deps
  BY DEF Needs, Place, Quiet
<1>5. \A s \in Alive : /\ objects'[s] \in Entries
                       /\ objects'[s].ptr = objects[s].ptr
                       /\ objects'[s].owned = objects[s].owned
                       /\ Needs(s)' = Needs(s)
  BY <1>4 DEF Supported
<1> QED
  BY <1>1, <1>2, <1>3, <1>5, Steady DEF memory

\* Begin, reading a binding, unbinding a name and editing an object in place.
LEMMA Starts ==
  ASSUME IInv, TypeOK', \/ \E n \in Names \cup {NoName} : Begin(n)
                        \/ \E n \in Names : ReadBinding(n) \/ ClearName(n)
                        \/ \E b \in Blocks : EditObject(b)
  PROVE  IInv'
<1>1. /\ UNCHANGED <<objects, count, sweep, memory>>
      /\ phase \in Quiet /\ phase' \in {"eval", "mark"}
  BY DEF Begin, ReadBinding, ClearName, EditObject, Sweep, table, sweep, memory, Quiet
<1>2. /\ Supported' /\ HeapIsOwned' /\ PoolIsClosed'
      /\ \A p : Listed(p) => Listed(p)'
  BY <1>1, QuietStep DEF IInv
<1>3. MarksClosed'
  BY <1>1 DEF MarksClosed
<1>4. RootsListed'
  <2>1. \A n \in Names : bound'[n] \in Pointers => bound'[n] = bound[n]
    BY SentinelAssumption
    DEF Begin, ReadBinding, ClearName, EditObject, Sweep, table, IInv, TypeOK, Pointers
  <2>2. value' \in Pointers => value' = value
    BY SentinelAssumption DEF Begin, ReadBinding, ClearName, EditObject, Sweep, Pointers
  <2>3. phase' = "eval" => \A p \in held' : Listed(p)
    BY DEF Begin, ReadBinding, ClearName, EditObject, Sweep, IInv, RootsListed
  <2> QED
    BY <1>1, <1>2, <2>1, <2>2, <2>3 DEF RootsListed, IInv
<1>5. NoCapture'
  <2>1. BoundNames' \subseteq BoundNames
    BY DEF Begin, ReadBinding, ClearName, EditObject, table, BoundNames, IInv, TypeOK
  <2> QED
    BY <1>1, <2>1 DEF IInv, NoCapture, Used
<1> QED
  BY <1>2, <1>3, <1>4, <1>5 DEF IInv

\* A command that fails goes on to the sweep with its table as it is.
LEMMA Fails ==
  ASSUME IInv, TypeOK', phase = "eval", FailCommand
  PROVE  IInv'
<1>1. /\ UNCHANGED <<objects, count, bound, sweep, memory>>
      /\ phase' = "mark" /\ value' = None
  BY DEF FailCommand, Sweep, table, memory
<1>2. /\ Supported' /\ HeapIsOwned' /\ PoolIsClosed'
      /\ \A p : Listed(p) => Listed(p)'
  BY <1>1, QuietStep DEF IInv, Quiet
<1>3. MarksClosed'
  BY <1>1 DEF MarksClosed
<1>4. RootsListed'
  BY <1>1, <1>2, SentinelAssumption DEF RootsListed, IInv, Pointers
<1>5. NoCapture'
  BY <1>1 DEF IInv, NoCapture, Used, BoundNames
<1> QED
  BY <1>2, <1>3, <1>4, <1>5 DEF IInv

\* eval_bind: the value a command binds and returns is listed.
LEMMA Finishes ==
  ASSUME IInv, TypeOK', NEW v \in held \cup {None}, Finish(v)
  PROVE  IInv'
<1>1. /\ UNCHANGED <<objects, count, sweep, memory>>
      /\ phase = "eval" /\ phase' = "mark" /\ value' = v
  BY DEF Finish, Sweep, memory
<1>2. /\ Supported' /\ HeapIsOwned' /\ PoolIsClosed'
      /\ \A p : Listed(p) => Listed(p)'
  BY <1>1, QuietStep DEF IInv, Quiet
<1>3. MarksClosed'
  BY <1>1 DEF MarksClosed
<1>4. v \in Pointers => Listed(v)
  BY <1>1, SentinelAssumption DEF IInv, RootsListed, Pointers
<1>5. RootsListed'
  <2>1. \A n \in Names : bound'[n] = bound[n] \/ bound'[n] = v
    BY DEF Finish, Bind, IInv, TypeOK
  <2> QED
    BY <1>1, <1>2, <1>4, <2>1 DEF RootsListed, IInv
<1>6. NoCapture'
  <2>1. \/ BoundNames' = BoundNames
        \/ target \in Names /\ ~Captured(target) /\ BoundNames' \subseteq BoundNames \cup {target}
    <3>1. CASE target = NoName
      BY <3>1 DEF Finish, BoundNames
    <3>2. CASE target # NoName
      <4>1. target \in Names /\ ~Captured(target) /\ bound' = [bound EXCEPT ![target] = v]
        BY <3>2 DEF Finish, Bind, IInv, TypeOK
      <4> QED
        BY <4>1 DEF BoundNames, IInv, TypeOK
    <3> QED BY <3>1, <3>2
  <2> QED
    BY <1>1, <2>1 DEF IInv, NoCapture, Used, Captured
<1> QED
  BY <1>2, <1>3, <1>5, <1>6 DEF IInv

\* Clear[] unbinds every name before it destroys.
LEMMA Clears ==
  ASSUME IInv, TypeOK', ClearAll
  PROVE  IInv'
<1>1. /\ UNCHANGED <<objects, count, memory>> /\ cursor' = count
      /\ phase = "idle" /\ phase' = "reset" /\ value' = None
      /\ bound' = [n \in Names |-> Unbound]
  BY DEF ClearAll, memory
<1>2. Supported' /\ HeapIsOwned' /\ PoolIsClosed'
  BY <1>1, QuietStep DEF IInv, Quiet
<1>3. MarksClosed'
  BY <1>1 DEF MarksClosed, IInv, TypeOK
<1>4. RootsListed'
  BY <1>1, SentinelAssumption DEF RootsListed, Pointers
<1>5. NoCapture'
  BY <1>1 DEF NoCapture, BoundNames, Used
<1> QED
  BY <1>2, <1>3, <1>4, <1>5 DEF IInv

\* The mark loop finds an entry for every root.
LEMMA Marks ==
  ASSUME IInv, TypeOK', MarkRoots
  PROVE  IInv'
<1>1. /\ UNCHANGED <<objects, count, bound, value, memory>> /\ cursor' = count
      /\ phase = "mark" /\ phase' = "propagate"
      /\ marked' = UNION {SlotsOf(p) : p \in Roots}
  BY DEF MarkRoots, table, command, memory
<1>2. /\ Supported' /\ HeapIsOwned' /\ PoolIsClosed'
      /\ \A p : Listed(p) => Listed(p)'
  BY <1>1, QuietStep DEF IInv, Quiet
<1>3. MarksClosed'
  <2>1. marked' \subseteq Used /\ \A s \in Used : ~(s > count)
    BY <1>1 DEF SlotsOf, Used, IInv, TypeOK
  <2> QED
    BY <1>1, <2>1 DEF MarksClosed, IInv, TypeOK, Used
<1>4. RootsListed'
  <2>1. Alive = Used
    BY <1>1 DEF Alive
  <2>2. ASSUME NEW p \in Roots \cap Pointers PROVE \E s \in marked' : objects'[s].ptr = p
    <3>1. Listed(p)
      BY <1>1 DEF IInv, RootsListed, Roots, BoundNames
    <3>2. PICK s \in Used : objects[s].ptr = p
      BY <2>1, <3>1 DEF Listed
    <3>3. \E t \in SlotsOf(p) : objects[t].ptr = p
      BY <3>2, SlotFound DEF IInv
    <3> QED
      BY <1>1, <3>3
  <2>3. Roots' = Roots
    BY <1>1 DEF Roots, BoundNames
  <2> QED
    BY <1>1, <1>2, <2>2, <2>3 DEF RootsListed, IInv
<1>5. NoCapture'
  BY <1>1 DEF IInv, NoCapture, Used, BoundNames
<1> QED
  BY <1>2, <1>3, <1>4, <1>5 DEF IInv

\* One downward pass suffices, because dependencies point back: an entry above
\* the cursor has marked what it depends on.
LEMMA Propagates ==
  ASSUME IInv, TypeOK', Propagate
  PROVE  IInv'
<1>1. /\ UNCHANGED <<objects, count, bound, value, memory>>
      /\ phase = "propagate" /\ phase' \in {"propagate", "destroy"}
      /\ phase' = "destroy" => cursor = 0 /\ cursor' = count /\ marked' = marked
      /\ phase' = "propagate" => cursor > 0 /\ cursor' = cursor - 1
      /\ phase' = "propagate" =>
            marked' = IF cursor \in marked THEN marked \cup objects[cursor].deps ELSE marked
  BY DEF Propagate, table, command, memory
<1>2. /\ Supported' /\ HeapIsOwned' /\ PoolIsClosed'
      /\ \A p : Listed(p) => Listed(p)'
  BY <1>1, QuietStep DEF IInv, Quiet
<1>a. /\ marked \subseteq Used /\ cursor <= count /\ count \in Nat /\ cursor \in Nat
      /\ \A s \in marked : s > cursor => objects[s].deps \subseteq marked
  BY <1>1, LimitAssumption DEF IInv, MarksClosed, TypeOK
<1>b. \A s \in Used : \A d \in objects[s].deps : d \in Used /\ d < s
  <2>1. \A s \in Used : s \in Alive /\ Needs(s) = objects[s].deps
    BY <1>1 DEF Alive, Needs, Place
  <2> QED BY <2>1 DEF IInv, Supported, Alive
<1>3. MarksClosed'
  <2>1. CASE phase' = "destroy"
    <3>1. \A s \in marked : s > cursor
      BY <1>a, <1>1, <2>1 DEF Used
    <3>2. \A s \in marked' : objects'[s].deps \subseteq marked'
      BY <1>1, <1>a, <2>1, <3>1
    <3>3. marked' = marked /\ cursor' = count /\ count' = count
      BY <1>1, <2>1
    <3>4. marked' \subseteq Used' /\ cursor' <= count'
      BY <1>a, <3>3 DEF Used
    <3> QED BY <2>1, <3>2, <3>4 DEF MarksClosed
  <2>2. CASE phase' = "propagate"
    <3>1. marked' \subseteq Used
      BY <1>1, <1>a, <1>b, <2>2
    <3>2. ASSUME NEW s \in marked', s > cursor - 1 PROVE objects[s].deps \subseteq marked'
      <4>1. s \in Nat
        BY <3>1, <1>a DEF Used
      <4>2. CASE s = cursor
        <5>1. cursor \in marked
          BY <1>1, <1>a, <1>b, <2>2, <3>2, <4>2
        <5> QED BY <1>1, <2>2, <4>2, <5>1
      <4>3. CASE s > cursor
        <5>1. s \in marked
          BY <1>1, <1>a, <1>b, <2>2, <3>2, <4>3, <4>1 DEF Used
        <5> QED BY <1>1, <1>a, <2>2, <4>3, <5>1
      <4> QED BY <3>2, <4>1, <4>2, <4>3, <1>a
    <3> QED BY <1>1, <1>a, <2>2, <3>1, <3>2 DEF MarksClosed, Used
  <2> QED BY <1>1, <2>1, <2>2
<1>4. RootsListed'
  <2>1. marked \subseteq marked'
    BY <1>1
  <2>2. Roots' = Roots
    BY <1>1 DEF Roots, BoundNames
  <2> QED
    BY <1>1, <1>2, <2>1, <2>2 DEF RootsListed, IInv
<1>5. NoCapture'
  BY <1>1 DEF IInv, NoCapture, Used, BoundNames
<1> QED
  BY <1>2, <1>3, <1>4, <1>5 DEF IInv

-----------------------------------------------------------------------------
(* Steps that add an object to the table. *)

\* The table after a registration in slot n.
Grown(p, o, S, X, n) ==
    /\ Alive = Used /\ Alive' = Used \cup {n} /\ Used' = Used \cup {n} /\ n \notin Used
    /\ \A s \in Used : s < n /\ objects'[s] = objects[s] /\ Needs(s)' = Needs(s)
    /\ objects'[n] \in Entries /\ objects'[n].ptr = p
    /\ objects'[n].owned = o /\ objects'[n].coords = X
    /\ \A t \in Needs(n)' : t \in Used
    /\ \A q \in S : \E t \in Needs(n)' : objects[t].ptr = q

\* eval_register_many: the entry depends on an entry of every operand.
LEMMA Registered ==
  ASSUME IInv, phase = "eval", NEW p \in Pointers, NEW o \in BOOLEAN,
         NEW S \in SUBSET held, NEW X \in SUBSET Names, Register(p, o, S, X),
         NEW n, n = count + 1
  PROVE  Grown(p, o, S, X, n)
<1> DEFINE D == UNION {SlotsOf(q) : q \in S}
<1>1. phase' = "eval" /\ count' = n /\ count \in Nat /\ n \in Slots /\ count <= MaxObjects
  BY LimitAssumption DEF Register, IInv, TypeOK, Slots
<1>2. Alive = Used /\ Alive' = Used \cup {n} /\ Used' = Used \cup {n} /\ n \notin Used
  BY <1>1 DEF Alive, Used
<1>3. \A s \in Used : s < n /\ objects'[s] = objects[s]
  BY <1>1 DEF Register, Used, IInv, TypeOK
<1>4. \A s : Needs(s) = objects[s].deps /\ Needs(s)' = objects'[s].deps
  BY <1>1 DEF Needs, Place
<1>5. objects'[n] = [ptr |-> p, owned |-> o, coords |-> X, deps |-> D]
  BY <1>1 DEF Register, IInv, TypeOK
<1>6. D \subseteq Used
  BY DEF SlotsOf
<1>7. Used \subseteq Slots
  BY <1>1, LimitAssumption DEF Used, Slots
<1>8. \A q \in S : \E t \in D : objects[t].ptr = q
  <2> SUFFICES ASSUME NEW q \in S PROVE \E t \in D : objects[t].ptr = q
    OBVIOUS
  <2>1. PICK s \in Used : objects[s].ptr = q
    BY <1>2 DEF IInv, RootsListed, Listed
  <2>2. \E t \in SlotsOf(q) : objects[t].ptr = q
    BY <2>1, SlotFound DEF IInv
  <2> QED BY <2>2
<1> HIDE DEF D
<1>9. objects'[n] \in Entries
  BY <1>5, <1>6, <1>7 DEF Entries
<1>10. Needs(n)' = D
  BY <1>4, <1>5
<1>11. \A s \in Used : Needs(s)' = Needs(s)
  BY <1>3, <1>4
<1> QED
  BY <1>2, <1>3, <1>5, <1>6, <1>8, <1>9, <1>10, <1>11 DEF Grown

\* What does not depend on the kind of object that is registered.
LEMMA RegisteredRest ==
  ASSUME IInv, phase = "eval", NEW p \in Pointers, NEW o \in BOOLEAN,
         NEW S \in SUBSET held, NEW X \in SUBSET Names, Register(p, o, S, X),
         X \cap BoundNames = {}
  PROVE  MarksClosed' /\ RootsListed' /\ NoCapture'
<1>1. phase' = "eval" /\ UNCHANGED <<bound, value>> /\ held' = held \cup {p}
  BY DEF Register
<1>2. PICK n : n = count + 1
  OBVIOUS
<1>3. /\ Alive = Used /\ Alive' = Used \cup {n} /\ Used' = Used \cup {n}
      /\ \A s \in Used : objects'[s] = objects[s]
      /\ objects'[n].ptr = p /\ objects'[n].coords = X
  <2>1. Grown(p, o, S, X, n)
    BY <1>2, Registered
  <2> QED BY <2>1 DEF Grown
<1>4. \A q : Listed(q) => Listed(q)'
  BY <1>3 DEF Listed
<1>5. Listed(p)'
  BY <1>3 DEF Listed
<1>6. NoCapture'
  BY <1>1, <1>3 DEF IInv, NoCapture, BoundNames
<1> QED
  BY <1>1, <1>4, <1>5, <1>6 DEF MarksClosed, RootsListed, IInv

\* The objects that were there stay supported.
LEMMA OldStaySupported ==
  ASSUME IInv, NEW p, NEW o, NEW S, NEW X, NEW n, Grown(p, o, S, X, n), pool \subseteq pool',
         \A s \in Used : Owned(s) => refs'[At(s)] = refs[At(s)],
         NEW s \in Used
  PROVE  /\ objects'[s] \in Entries
         /\ \A t \in Needs(s)' : t \in Alive' /\ t < s
         /\ Owned(s)' => \A r \in refs'[At(s)'] : \E t \in Needs(s)' : At(t)' = r
         /\ Held(s)'
         /\ objects'[s].ptr[2] = "whole" => Owned(s)' \/ At(s)' \in pool'
<1>1. /\ Alive = Used /\ Alive' = Used \cup {n}
      /\ \A t \in Used : objects'[t] = objects[t] /\ Needs(t)' = Needs(t)
  BY DEF Grown
<1>2. \A t \in Used : At(t)' = At(t) /\ Owned(t)' = Owned(t)
  BY <1>1 DEF At, Owned, Block
<1>3. /\ objects[s] \in Entries /\ Held(s)
      /\ \A t \in Needs(s) : t \in Used /\ t < s
      /\ objects[s].ptr[2] = "whole" => Owned(s) \/ At(s) \in pool
      /\ Owned(s) => \A r \in refs[At(s)] : \E t \in Needs(s) : At(t) = r
  BY <1>1 DEF IInv, Supported
<1>4. Held(s)'
  BY <1>1, <1>2, <1>3 DEF Held
<1>5. Owned(s)' => \A r \in refs'[At(s)'] : \E t \in Needs(s)' : At(t)' = r
  <2> SUFFICES ASSUME Owned(s)', NEW r \in refs'[At(s)'] PROVE \E t \in Needs(s)' : At(t)' = r
    OBVIOUS
  <2>1. Owned(s) /\ r \in refs[At(s)]
    BY <1>2
  <2> QED BY <1>1, <1>2, <1>3, <2>1
<1> QED
  BY <1>1, <1>2, <1>3, <1>4, <1>5

\* A new object owns its block and points only to its operands.
LEMMA Publishes ==
  ASSUME IInv, TypeOK', NEW b \in Blocks, NEW S \in SUBSET held, NEW X \in SUBSET Names,
         X \cap BoundNames = {}, PublishObject(b, S, X)
  PROVE  IInv'
<1>1. CASE FailCommand
  BY <1>1, Fails DEF PublishObject
<1>2. CASE /\ Register(<<b, "whole">>, TRUE, S, X) /\ heap' = heap \cup {b}
           /\ refs' = [refs EXCEPT ![b] = {Block(q) : q \in S}] /\ UNCHANGED pool
  <2>0. PICK n : n = count + 1
    OBVIOUS
  <2>a. phase = "eval" /\ b \notin heap /\ <<b, "whole">> \in Pointers
    BY DEF PublishObject, Pointers
  <2>g. Grown(<<b, "whole">>, TRUE, S, X, n)
    <3>1. TRUE \in BOOLEAN /\ Register(<<b, "whole">>, TRUE, S, X)
      BY <1>2
    <3> QED BY <3>1, <2>0, <2>a, Registered
  <2>b. /\ Alive = Used /\ Alive' = Used \cup {n} /\ n \notin Used
        /\ \A s \in Used : s < n /\ objects'[s] = objects[s]
        /\ \A s \in Used : Needs(s)' = Needs(s)
        /\ objects'[n] \in Entries /\ objects'[n].ptr = <<b, "whole">> /\ objects'[n].owned = TRUE
        /\ \A t \in Needs(n)' : t \in Used
        /\ \A q \in S : \E t \in Needs(n)' : objects[t].ptr = q
    BY <2>g DEF Grown
  <2>c. /\ \A s \in Used : At(s)' = At(s) /\ Owned(s)' = Owned(s)
        /\ At(n)' = b /\ Owned(n)'
    BY <2>b DEF At, Owned, Block
  <2>d. \A s \in Used : Owned(s) => At(s) \in heap \ pool /\ At(s) # b
    BY <2>a, <2>b DEF IInv, HeapIsOwned
  <2>e. refs'[b] = {Block(q) : q \in S} /\ \A c : c # b => refs'[c] = refs[c]
    BY <1>2 DEF IInv, TypeOK
  <2>1. Supported'
    <3>1. \A s \in Used :
            /\ objects'[s] \in Entries
            /\ \A t \in Needs(s)' : t \in Alive' /\ t < s
            /\ Owned(s)' => \A r \in refs'[At(s)'] : \E t \in Needs(s)' : At(t)' = r
            /\ Held(s)'
            /\ objects'[s].ptr[2] = "whole" => Owned(s)' \/ At(s)' \in pool'
      BY <1>2, <2>g, <2>d, <2>e, OldStaySupported
    <3>2. \A r \in refs'[At(n)'] : \E t \in Needs(n)' : At(t)' = r
      <4> SUFFICES ASSUME NEW r \in refs'[At(n)'] PROVE \E t \in Needs(n)' : At(t)' = r
        OBVIOUS
      <4>1. PICK q \in S : r = Block(q)
        BY <2>c, <2>e
      <4>2. PICK t \in Needs(n)' : objects[t].ptr = q
        BY <2>b
      <4>3. At(t) = r /\ At(t)' = At(t)
        BY <4>1, <4>2, <2>b, <2>c DEF At
      <4> QED BY <4>3
    <3>3. Held(n)'
      BY <2>c DEF Held
    <3>4. /\ objects'[n] \in Entries /\ \A t \in Needs(n)' : t \in Alive' /\ t < n
          /\ Owned(n)' /\ Held(n)'
      BY <2>b, <2>c, <3>3
    <3> QED BY <2>b, <3>1, <3>2, <3>4 DEF Supported
  <2>2. HeapIsOwned'
    <3>1. \A c \in heap' : c \in pool' \/ \E s \in Alive' : Owned(s)' /\ At(s)' = c
      BY <1>2, <2>b, <2>c DEF IInv, HeapIsOwned
    <3>2. \A s \in Alive' : Owned(s)' => At(s)' \in heap' \ pool'
      BY <1>2, <2>a, <2>b, <2>c, <2>d DEF IInv, PoolIsClosed
    <3>3. \A s, t \in Alive' : Owned(s)' /\ Owned(t)' /\ At(s)' = At(t)' => s = t
      BY <2>b, <2>c, <2>d DEF IInv, HeapIsOwned
    <3> QED BY <3>1, <3>2, <3>3 DEF HeapIsOwned
  <2>3. PoolIsClosed'
    BY <1>2, <2>a, <2>e DEF IInv, PoolIsClosed
  <2>4. MarksClosed' /\ RootsListed' /\ NoCapture'
    BY <1>2, <2>a, RegisteredRest
  <2> QED
    BY <2>1, <2>2, <2>3, <2>4 DEF IInv
<1> QED
  BY <1>1, <1>2 DEF PublishObject

\* A new space or head belongs to the pool and points only into the pool.
LEMMA Declares ==
  ASSUME IInv, TypeOK', NEW b \in Blocks, NEW S \in SUBSET held, DeclareObject(b, S)
  PROVE  IInv'
<1>1. CASE FailCommand
  BY <1>1, Fails DEF DeclareObject
<1>2. CASE /\ Register(<<b, "whole">>, FALSE, {}, {})
           /\ heap' = heap \cup {b} /\ pool' = pool \cup {b}
           /\ refs' = [refs EXCEPT ![b] = {Block(q) : q \in S}]
  <2>0. PICK n : n = count + 1
    OBVIOUS
  <2>a. /\ phase = "eval" /\ b \notin heap /\ <<b, "whole">> \in Pointers
        /\ {Block(q) : q \in S} \subseteq pool
        /\ {} \in SUBSET held /\ {} \in SUBSET Names /\ {} \cap BoundNames = {}
    BY DEF DeclareObject, Pointers, Block
  <2>g. Grown(<<b, "whole">>, FALSE, {}, {}, n)
    <3>1. FALSE \in BOOLEAN /\ Register(<<b, "whole">>, FALSE, {}, {})
      BY <1>2
    <3> QED BY <3>1, <2>0, <2>a, Registered
  <2>b. /\ Alive = Used /\ Alive' = Used \cup {n} /\ n \notin Used
        /\ \A s \in Used : s < n /\ objects'[s] = objects[s]
        /\ objects'[n] \in Entries /\ objects'[n].ptr = <<b, "whole">> /\ objects'[n].owned = FALSE
        /\ \A t \in Needs(n)' : t \in Used
    BY <2>g DEF Grown
  <2>c. /\ \A s \in Used : At(s)' = At(s) /\ Owned(s)' = Owned(s)
        /\ At(n)' = b /\ ~Owned(n)'
    BY <2>b DEF At, Owned, Block
  <2>d. \A s \in Used : Owned(s) => At(s) \in heap \ pool /\ At(s) # b
    BY <2>a, <2>b DEF IInv, HeapIsOwned
  <2>e. refs'[b] \subseteq pool /\ \A c : c # b => refs'[c] = refs[c]
    BY <1>2, <2>a DEF IInv, TypeOK
  <2>1. Supported'
    <3>1. \A s \in Used :
            /\ objects'[s] \in Entries
            /\ \A t \in Needs(s)' : t \in Alive' /\ t < s
            /\ Owned(s)' => \A r \in refs'[At(s)'] : \E t \in Needs(s)' : At(t)' = r
            /\ Held(s)'
            /\ objects'[s].ptr[2] = "whole" => Owned(s)' \/ At(s)' \in pool'
      BY <1>2, <2>g, <2>d, <2>e, OldStaySupported
    <3>2. At(n)' \in pool' /\ Held(n)'
      BY <1>2, <2>c DEF Held
    <3> QED BY <2>b, <2>c, <3>1, <3>2 DEF Supported
  <2>2. HeapIsOwned'
    BY <1>2, <2>b, <2>c, <2>d DEF IInv, HeapIsOwned
  <2>3. PoolIsClosed'
    BY <1>2, <2>e DEF IInv, PoolIsClosed
  <2>4. MarksClosed' /\ RootsListed' /\ NoCapture'
    <3>1. FALSE \in BOOLEAN /\ Register(<<b, "whole">>, FALSE, {}, {})
      BY <1>2
    <3> QED BY <3>1, <2>a, RegisteredRest
  <2> QED
    BY <2>1, <2>2, <2>3, <2>4 DEF IInv
<1> QED
  BY <1>1, <1>2 DEF DeclareObject

\* A part lives in the block of the object it is a part of.
LEMMA Borrows ==
  ASSUME IInv, TypeOK', NEW b \in Blocks, PublishPart(b)
  PROVE  IInv'
<1>1. CASE FailCommand
  BY <1>1, Fails DEF PublishPart
<1>2. CASE Register(<<b, "part">>, FALSE, {<<b, "whole">>}, {}) /\ UNCHANGED memory
  <2>0. PICK n : n = count + 1
    OBVIOUS
  <2>a. /\ phase = "eval" /\ b \notin pool /\ <<b, "part">> \in Pointers
        /\ {<<b, "whole">>} \in SUBSET held /\ {} \in SUBSET Names /\ {} \cap BoundNames = {}
    BY DEF PublishPart, Pointers
  <2>g. Grown(<<b, "part">>, FALSE, {<<b, "whole">>}, {}, n)
    <3>1. FALSE \in BOOLEAN /\ Register(<<b, "part">>, FALSE, {<<b, "whole">>}, {})
      BY <1>2
    <3> QED BY <3>1, <2>0, <2>a, Registered
  <2>b. /\ Alive = Used /\ Alive' = Used \cup {n} /\ n \notin Used
        /\ \A s \in Used : s < n /\ objects'[s] = objects[s]
        /\ objects'[n] \in Entries /\ objects'[n].ptr = <<b, "part">> /\ objects'[n].owned = FALSE
        /\ \A t \in Needs(n)' : t \in Used
        /\ \E t \in Needs(n)' : objects[t].ptr = <<b, "whole">>
    BY <2>g DEF Grown
  <2>c. /\ \A s \in Used : At(s)' = At(s) /\ Owned(s)' = Owned(s)
        /\ At(n)' = b /\ ~Owned(n)'
    BY <2>b DEF At, Owned, Block
  <2>1. Supported'
    <3>1. \A s \in Used :
            /\ objects'[s] \in Entries
            /\ \A t \in Needs(s)' : t \in Alive' /\ t < s
            /\ Owned(s)' => \A r \in refs'[At(s)'] : \E t \in Needs(s)' : At(t)' = r
            /\ Held(s)'
            /\ objects'[s].ptr[2] = "whole" => Owned(s)' \/ At(s)' \in pool'
      BY <1>2, <2>g, OldStaySupported DEF memory
    <3>2. PICK t \in Needs(n)' : t \in Used /\ objects[t].ptr = <<b, "whole">>
      BY <2>b
    <3>3. At(t) = b /\ Owned(t)
      BY <2>a, <2>b, <3>2 DEF IInv, Supported, At, Block
    <3>4. Held(n)'
      BY <2>c, <3>2, <3>3 DEF Held
    <3>5. objects'[n].ptr[2] # "whole"
      BY <2>b
    <3> QED BY <2>b, <2>c, <3>1, <3>4, <3>5 DEF Supported
  <2>2. HeapIsOwned' /\ PoolIsClosed'
    BY <1>2, <2>b, <2>c DEF IInv, HeapIsOwned, PoolIsClosed, memory
  <2>3. MarksClosed' /\ RootsListed' /\ NoCapture'
    <3>1. FALSE \in BOOLEAN /\ Register(<<b, "part">>, FALSE, {<<b, "whole">>}, {})
      BY <1>2
    <3> QED BY <3>1, <2>a, RegisteredRest
  <2> QED
    BY <2>1, <2>2, <2>3 DEF IInv
<1> QED
  BY <1>1, <1>2 DEF PublishPart

-----------------------------------------------------------------------------
(* Steps that destroy. *)

\* Freeing the object under the cursor, when no other one needs it.
LEMMA Destroyed ==
  ASSUME IInv, phase \in {"destroy", "reset"}, phase' = phase, DestroyEntry(cursor),
         UNCHANGED <<objects, count>>, cursor \in Alive, Alive' = Alive \ {cursor},
         \A s \in Alive : cursor \notin Needs(s)
  PROVE  Supported' /\ HeapIsOwned' /\ PoolIsClosed'
<1> DEFINE gone == IF Owned(cursor) THEN {At(cursor)} ELSE {}
<1>1. /\ heap' = heap \ gone /\ pool' = pool
      /\ refs' = [b \in Blocks |-> IF b \in gone THEN {} ELSE refs[b]]
  BY DEF DestroyEntry, At, Owned
<1>2. \A s \in Alive : objects[s] \in Entries /\ At(s) \in Blocks
  BY DEF IInv, Supported, At, Block, Entries, Pointers
<1>3. \A s : At(s)' = At(s) /\ Owned(s)' = Owned(s) /\ Needs(s)' = Needs(s)
  BY DEF At, Owned, Block, Needs, Place
<1>4. \A s \in Alive' : Owned(s) => At(s) \notin gone
  BY DEF IInv, HeapIsOwned
<1>5. \A b \in pool : b \notin gone /\ b \in Blocks
  BY DEF IInv, HeapIsOwned, TypeOK
<1> HIDE DEF gone
<1>6. Supported'
  <2> SUFFICES ASSUME NEW s \in Alive'
               PROVE  /\ objects'[s] \in Entries
                      /\ \A t \in Needs(s)' : t \in Alive' /\ t < s
                      /\ Owned(s)' => \A r \in refs'[At(s)'] : \E t \in Needs(s)' : At(t)' = r
                      /\ Held(s)'
                      /\ objects'[s].ptr[2] = "whole" => Owned(s)' \/ At(s)' \in pool'
    BY DEF Supported
  <2>1. /\ s \in Alive /\ Held(s) /\ objects[s] \in Entries
        /\ \A t \in Needs(s) : t \in Alive /\ t < s /\ t # cursor
        /\ objects[s].ptr[2] = "whole" => Owned(s) \/ At(s) \in pool
        /\ Owned(s) => \A r \in refs[At(s)] : \E t \in Needs(s) : At(t) = r
    BY DEF IInv, Supported
  <2>2. Owned(s) => refs'[At(s)] = refs[At(s)]
    BY <1>1, <1>2, <1>4, <2>1
  <2>3. Held(s)'
    BY <1>1, <1>3, <2>1 DEF Held
  <2>4. Owned(s)' => \A r \in refs'[At(s)'] : \E t \in Needs(s)' : At(t)' = r
    <3> SUFFICES ASSUME Owned(s)', NEW r \in refs'[At(s)'] PROVE \E t \in Needs(s)' : At(t)' = r
      OBVIOUS
    <3>1. Owned(s) /\ r \in refs[At(s)]
      BY <1>3, <2>2
    <3> QED BY <1>3, <2>1, <3>1
  <2> QED
    BY <1>1, <1>3, <2>1, <2>3, <2>4
<1>7. HeapIsOwned'
  <2>1. \A b \in heap' : b \in pool' \/ \E s \in Alive' : Owned(s)' /\ At(s)' = b
    <3> SUFFICES ASSUME NEW b \in heap', b \notin pool' PROVE \E s \in Alive' : Owned(s)' /\ At(s)' = b
      OBVIOUS
    <3>1. PICK s \in Alive : Owned(s) /\ At(s) = b
      BY <1>1 DEF IInv, HeapIsOwned
    <3>2. s # cursor
      BY <1>1, <3>1 DEF gone
    <3> QED BY <1>3, <3>1, <3>2
  <2>2. \A s \in Alive' : Owned(s)' => At(s)' \in heap' \ pool'
    BY <1>1, <1>3, <1>4 DEF IInv, HeapIsOwned
  <2>3. \A s, t \in Alive' : Owned(s)' /\ Owned(t)' /\ At(s)' = At(t)' => s = t
    BY <1>3 DEF IInv, HeapIsOwned
  <2> QED
    BY <2>1, <2>2, <2>3 DEF HeapIsOwned
<1>8. PoolIsClosed'
  BY <1>1, <1>5 DEF IInv, PoolIsClosed
<1> QED
  BY <1>6, <1>7, <1>8

\* eval_sweep, newest first: an unmarked entry is needed by no entry that is left.
LEMMA Sweeps ==
  ASSUME IInv, TypeOK', DestroyUnmarked
  PROVE  IInv'
<1>a. /\ phase = "destroy" /\ UNCHANGED <<objects, count, bound, value, marked>>
      /\ count \in Nat /\ cursor \in Nat /\ cursor <= count /\ marked \subseteq Used
      /\ \A s \in marked : objects[s].deps \subseteq marked
  BY LimitAssumption DEF DestroyUnmarked, table, command, IInv, MarksClosed, TypeOK
<1>b. \A s : Needs(s) = objects[s].deps
  BY <1>a DEF Needs, Place
<1>c. /\ Alive = {s \in Used : s \in marked \/ s <= cursor}
      /\ Used \subseteq Nat \ {0}
  BY <1>a DEF Alive, Used
<1>d. NoCapture'
  BY <1>a DEF IInv, NoCapture, Used, BoundNames
<1>e. Roots' = Roots
  BY <1>a DEF Roots, BoundNames
<1>1. CASE cursor > 0 /\ cursor \in marked /\ cursor' = cursor - 1 /\ UNCHANGED <<phase, surviving, memory>>
  <2>1. Alive' = Alive
    BY <1>a, <1>c, <1>1 DEF Alive, Used
  <2>2. \A s \in Alive : /\ objects'[s] \in Entries /\ Moved(s) = s /\ Needs(s)' = Needs(s)
    BY <1>a, <1>b, <1>1 DEF Moved, Needs, Place, IInv, Supported
  <2>3. /\ Supported' /\ HeapIsOwned' /\ PoolIsClosed'
        /\ \A p : Listed(p) => Listed(p)'
    BY <1>a, <1>1, <2>1, <2>2, Steady DEF IInv
  <2>4. MarksClosed'
    <3>1. /\ phase' = "destroy" /\ cursor' <= count /\ count' = count
          /\ marked' = marked /\ objects' = objects
      BY <1>a, <1>1
    <3> QED BY <1>a, <3>1 DEF MarksClosed, Used
  <2>5. RootsListed'
    BY <1>a, <1>e, <1>1, <2>3 DEF RootsListed, IInv
  <2> QED BY <1>d, <2>3, <2>4, <2>5 DEF IInv
<1>2. CASE cursor > 0 /\ cursor \notin marked /\ DestroyEntry(cursor)
           /\ cursor' = cursor - 1 /\ UNCHANGED <<phase, surviving>>
  <2>1. cursor \in Alive
    BY <1>a, <1>2, <1>c DEF Used
  <2>2. Alive' = Alive \ {cursor}
    BY <1>a, <1>c, <1>2 DEF Alive, Used
  <2>3. ASSUME NEW s \in Alive PROVE cursor \notin Needs(s)
    <3> SUFFICES ASSUME cursor \in Needs(s) PROVE FALSE
      OBVIOUS
    <3>1. cursor < s
      BY DEF IInv, Supported
    <3>2. s \in marked
      BY <1>a, <1>c, <3>1
    <3> QED BY <1>a, <1>b, <1>2, <3>2
  <2>4. Supported' /\ HeapIsOwned' /\ PoolIsClosed'
    BY <1>a, <1>2, <2>1, <2>2, <2>3, Destroyed
  <2>5. MarksClosed'
    BY <1>a, <1>2 DEF MarksClosed, Used
  <2>6. RootsListed'
    <3>1. \A p \in Roots \cap Pointers : \E s \in marked : objects[s].ptr = p
      BY <1>a DEF IInv, RootsListed
    <3>2. \A s \in marked : s \in Alive'
      BY <1>a, <1>c, <1>2, <2>2
    <3>3. \A p \in Roots \cap Pointers : Listed(p)'
      BY <1>a, <3>1, <3>2 DEF Listed
    <3>4. \A n \in Names : bound[n] \in Pointers => bound[n] \in Roots
      BY SentinelAssumption DEF Roots, BoundNames, Pointers
    <3> QED
      BY <1>a, <1>e, <1>2, <3>1, <3>3, <3>4 DEF RootsListed, Roots
  <2> QED BY <1>d, <2>4, <2>5, <2>6 DEF IInv
<1>3. CASE cursor = 0 /\ phase' = "compact" /\ cursor' = 1 /\ surviving' = 0 /\ UNCHANGED memory
  <2>1. Alive' = Alive
    BY <1>a, <1>c, <1>3 DEF Alive, Used
  <2>2. ASSUME NEW s \in Alive
        PROVE objects'[s] \in Entries /\ Moved(s) = s /\ Needs(s)' = Needs(s)
    <3>1. objects'[s] \in Entries /\ Moved(s) = s
      BY <1>a DEF Moved, IInv, Supported
    <3>2. \A d \in objects[s].deps : d \in Used /\ ~(d < 1)
      <4>1. \A d \in objects[s].deps : d \in Used
        BY <1>b, <1>c DEF IInv, Supported
      <4>2. \A d \in Nat \ {0} : ~(d < 1)
        OBVIOUS
      <4> QED BY <4>1, <4>2, <1>c
    <3>3. Needs(s)' = {IF d < 1 THEN remap'[d] ELSE d : d \in objects[s].deps}
      BY <1>a, <1>3 DEF Needs, Place
    <3>4. Needs(s)' = objects[s].deps
      BY <3>2, <3>3
    <3> QED BY <1>b, <3>1, <3>4
  <2>3. /\ Supported' /\ HeapIsOwned' /\ PoolIsClosed'
        /\ \A p : Listed(p) => Listed(p)'
    BY <1>a, <1>3, <2>1, <2>2, Steady DEF IInv
  <2>4. MarksClosed'
    <3>1. \A s \in Alive' : s \in marked
      <4>1. \A s \in Nat \ {0} : ~(s <= 0)
        OBVIOUS
      <4>2. \A s \in Used : ~(s <= cursor)
        BY <4>1, <1>c, <1>3
      <4> QED BY <4>2, <1>c, <2>1
    <3>2. \A d \in marked : ~(d < 1)
      BY <1>a, <1>c
    <3>3. /\ phase' = "compact" /\ cursor' = 1 /\ surviving' = 0 /\ count' = count
          /\ marked' = marked /\ objects' = objects /\ cursor' <= count' + 1
      BY <1>a, <1>3
    <3>4. \A s \in Alive' : objects'[s].deps \subseteq marked'
      BY <1>a, <3>1, <3>3
    <3>5. marked' \subseteq Used' /\ \A d \in marked' : ~(d < cursor')
      BY <1>a, <3>2, <3>3 DEF Used
    <3> QED BY <3>3, <3>4, <3>5 DEF MarksClosed
  <2>5. RootsListed'
    BY <1>a, <1>3, <2>3 DEF RootsListed, IInv
  <2> QED BY <1>d, <2>3, <2>4, <2>5 DEF IInv
<1> QED
  BY <1>1, <1>2, <1>3 DEF DestroyUnmarked

\* phy_env_reset, newest first: every later entry is gone already.
LEMMA Resets ==
  ASSUME IInv, TypeOK', ResetDestroy
  PROVE  IInv'
<1>a. /\ phase = "reset" /\ UNCHANGED <<bound, value>>
      /\ count \in Nat /\ cursor \in Nat /\ cursor <= count
  BY LimitAssumption DEF ResetDestroy, command, IInv, MarksClosed, TypeOK
<1>b. /\ Alive = {s \in Used : s <= cursor}
      /\ Used \subseteq Nat \ {0}
  BY <1>a DEF Alive, Used
<1>c. \A n \in Names : bound[n] \notin Pointers /\ value \notin Pointers
  BY <1>a DEF IInv, RootsListed
<1>d. value \notin Pointers
  BY <1>a DEF IInv, RootsListed
<1>1. CASE cursor > 0 /\ DestroyEntry(cursor) /\ cursor' = cursor - 1 /\ UNCHANGED <<objects, count, phase>>
  <2>1. cursor \in Alive
    BY <1>a, <1>1, <1>b DEF Used
  <2>2. Alive' = Alive \ {cursor}
    BY <1>a, <1>b, <1>1 DEF Alive, Used
  <2>3. \A s \in Alive : cursor \notin Needs(s)
    BY <1>a, <1>b DEF IInv, Supported
  <2>4. Supported' /\ HeapIsOwned' /\ PoolIsClosed'
    BY <1>a, <1>1, <2>1, <2>2, <2>3, Destroyed
  <2>5. MarksClosed' /\ RootsListed' /\ NoCapture'
    BY <1>a, <1>c, <1>d, <1>1 DEF MarksClosed, RootsListed, IInv, NoCapture, Used, BoundNames
  <2> QED BY <2>4, <2>5 DEF IInv
<1>2. CASE /\ cursor = 0 /\ phase' = "idle" /\ count' = 0
           /\ heap' = heap \ pool /\ pool' = {}
  <2>1. Used' = {} /\ Alive' = {}
    BY <1>2 DEF Used, Alive
  <2>2. heap' = {}
    BY <1>a, <1>b, <1>2 DEF IInv, HeapIsOwned
  <2>3. Supported' /\ HeapIsOwned' /\ PoolIsClosed' /\ NoCapture'
    BY <1>2, <2>1, <2>2 DEF Supported, HeapIsOwned, PoolIsClosed, NoCapture
  <2>4. MarksClosed' /\ RootsListed'
    BY <1>a, <1>c, <1>d, <1>2 DEF MarksClosed, RootsListed
  <2> QED BY <2>3, <2>4 DEF IInv
<1> QED
  BY <1>1, <1>2 DEF ResetDestroy

-----------------------------------------------------------------------------
(* Steps that move the table. *)

\* A survivor moves to the first free slot; remap tells its dependents.
LEMMA Compacts ==
  ASSUME IInv, TypeOK', Compact
  PROVE  IInv' /\ (Needed /\ Distinct => Needed' /\ Distinct')
<1>a. /\ phase = "compact" /\ UNCHANGED <<bound, value, marked, memory>>
      /\ count \in Nat /\ count <= MaxObjects /\ cursor \in Nat /\ surviving \in Nat
      /\ surviving < cursor /\ cursor <= count + 1 /\ marked \subseteq Used
  BY LimitAssumption DEF Compact, command, memory, IInv, MarksClosed, TypeOK
<1>b. /\ Alive = {s \in Used : s <= surviving \/ (s >= cursor /\ s \in marked)}
      /\ Used \subseteq Nat \ {0} /\ Used \subseteq Slots
  BY <1>a, LimitAssumption DEF Alive, Used, Slots
<1>c. \A s : Needs(s) = {IF d < cursor THEN remap[d] ELSE d : d \in objects[s].deps}
  BY <1>a DEF Needs, Place
<1>d. /\ \A s \in Alive : objects[s].deps \subseteq marked
      /\ \A d \in marked : d < cursor => remap[d] \in 1 .. surviving
  BY <1>a DEF IInv, MarksClosed
<1>e. \A s \in Alive : objects[s] \in Entries /\ \A t \in Needs(s) : t \in Alive /\ t < s
  BY DEF IInv, Supported
<1>r. Roots' = Roots
  BY <1>a DEF Roots, BoundNames
<1>1. CASE /\ cursor <= count /\ cursor \in marked
           /\ objects' = [objects EXCEPT ![surviving + 1] = objects[cursor]]
           /\ remap' = [remap EXCEPT ![cursor] = surviving + 1]
           /\ surviving' = surviving + 1
           /\ cursor' = cursor + 1 /\ UNCHANGED <<count, phase>>
  <2>0. PICK k : k = surviving + 1
    OBVIOUS
  <2>1. /\ k \in Used /\ k \in Slots /\ k <= cursor /\ cursor \in Alive /\ cursor \in Used
        /\ surviving' = k /\ Used' = Used
    BY <1>a, <1>b, <1>1, <2>0 DEF Used
  <2>2. Alive' = {s \in Used : s <= k \/ (s >= cursor + 1 /\ s \in marked)}
    BY <1>a, <1>1, <2>1 DEF Alive
  <2>3. objects'[k] = objects[cursor] /\ \A s \in Alive : s # cursor => s # k /\ objects'[s] = objects[s]
    <3>1. objects'[k] = objects[cursor]
      BY <1>1, <2>0, <2>1 DEF IInv, TypeOK
    <3>2. \A s \in Alive : s # cursor => s # k
      BY <1>a, <1>b, <2>0
    <3>3. \A s \in Slots : s # k => objects'[s] = objects[s]
      BY <1>1, <2>0 DEF IInv, TypeOK
    <3> QED BY <1>b, <3>1, <3>2, <3>3
  <2>4. \A s : Moved(s) = IF s = cursor THEN k ELSE s
    BY <1>a, <2>0 DEF Moved
  <2>5. \A s \in Alive : Moved(s) \in Alive'
    BY <1>a, <1>b, <2>0, <2>1, <2>2, <2>4
  <2>6. \A u \in Alive' : \E s \in Alive : Moved(s) = u
    <3> SUFFICES ASSUME NEW u \in Alive' PROVE \E s \in Alive : Moved(s) = u
      OBVIOUS
    <3>1. CASE u = k
      BY <2>1, <2>4, <3>1
    <3>2. CASE u # k
      <4>1. u \in Alive /\ u # cursor
        BY <1>a, <1>b, <2>0, <2>1, <2>2, <3>2
      <4> QED BY <2>4, <4>1
    <3> QED BY <3>1, <3>2
  <2>7. \A s, t \in Alive : t < s => Moved(t) < Moved(s)
    BY <1>a, <1>b, <2>0, <2>1, <2>4
  <2>8. ASSUME NEW s \in Alive, NEW u \in Alive', u = Moved(s)
        PROVE  objects'[u] = objects[s]
    BY <2>3, <2>4, <2>8
  <2>9. ASSUME NEW s \in Alive, NEW u \in Alive', u = Moved(s)
        PROVE  Needs(u)' = {Moved(t) : t \in Needs(s)}
    <3>1. Needs(u)' = {IF d < cursor + 1 THEN remap'[d] ELSE d : d \in objects[s].deps}
      BY <1>a, <1>1, <2>8, <2>9 DEF Needs, Place
    <3>2. ASSUME NEW d \in objects[s].deps
          PROVE  (IF d < cursor + 1 THEN remap'[d] ELSE d) = Moved(IF d < cursor THEN remap[d] ELSE d)
      <4>1. d \in marked /\ d \in Slots /\ d \in Nat
        BY <1>a, <1>b, <1>d
      <4>2. CASE d < cursor
        <5>1. remap'[d] = remap[d]
          BY <1>1, <1>a, <4>1, <4>2 DEF IInv, TypeOK
        <5>2. remap[d] # cursor
          BY <1>a, <1>d, <4>1, <4>2
        <5> QED BY <1>a, <2>4, <4>1, <4>2, <5>1, <5>2
      <4>3. CASE d = cursor
        <5>1. remap'[d] = k
          BY <1>1, <2>0, <4>1, <4>3 DEF IInv, TypeOK
        <5> QED BY <1>a, <2>4, <4>3, <5>1
      <4>4. CASE d > cursor
        BY <1>a, <2>4, <4>1, <4>4
      <4> QED BY <1>a, <4>1, <4>2, <4>3, <4>4
    <3> QED
      BY <1>c, <3>1, <3>2
  <2>10. /\ Supported' /\ HeapIsOwned' /\ PoolIsClosed'
         /\ \A p : Listed(p) => Listed(p)'
         /\ Roots' = Roots /\ Needed => Needed'
         /\ Distinct => Distinct'
    BY <1>a, <1>e, <2>5, <2>6, <2>7, <2>8, <2>9, Transport DEF IInv
  <2>11. MarksClosed'
    <3>1. \A u \in Alive' : objects'[u].deps \subseteq marked
      BY <1>d, <2>6, <2>8
    <3>2. ASSUME NEW d \in marked, d < cursor + 1 PROVE remap'[d] \in 1 .. k
      <4>1. d \in Slots /\ d \in Nat
        BY <1>a, <1>b
      <4>2. CASE d = cursor
        BY <1>1, <2>0, <2>1, <4>1, <4>2, <1>a DEF IInv, TypeOK
      <4>3. CASE d < cursor
        <5>1. remap'[d] = remap[d] /\ remap[d] \in 1 .. surviving
          BY <1>1, <1>a, <1>d, <4>1, <4>3 DEF IInv, TypeOK
        <5> QED BY <1>a, <2>0, <5>1
      <4> QED BY <1>a, <3>2, <4>1, <4>2, <4>3
    <3>3. /\ phase' = "compact" /\ marked' = marked /\ surviving' = k /\ cursor' = cursor + 1
          /\ surviving' < cursor' /\ cursor' <= count' + 1 /\ marked' \subseteq Used'
      BY <1>a, <1>1, <2>0, <2>1
    <3> QED BY <3>1, <3>2, <3>3 DEF MarksClosed
  <2>12. RootsListed'
    BY <1>a, <1>1, <2>10 DEF RootsListed, IInv
  <2>13. NoCapture'
    BY <1>a, <1>1, <2>0, <2>1 DEF IInv, NoCapture, BoundNames, TypeOK
  <2> QED BY <1>r, <2>10, <2>11, <2>12, <2>13 DEF IInv
<1>2. CASE /\ cursor <= count /\ cursor \notin marked
           /\ remap' = [remap EXCEPT ![cursor] = 0]
           /\ cursor' = cursor + 1 /\ UNCHANGED <<objects, count, surviving, phase>>
  <2>1. Alive' = Alive
    BY <1>a, <1>b, <1>2 DEF Alive, Used
  <2>2. \A d \in marked : /\ d \in Nat /\ d # cursor
                          /\ d < cursor + 1 <=> d < cursor
                          /\ remap'[d] = remap[d]
    BY <1>a, <1>b, <1>2 DEF IInv, TypeOK
  <2>3. ASSUME NEW s \in Alive
        PROVE  objects'[s] \in Entries /\ Moved(s) = s /\ Needs(s)' = Needs(s)
    <3>1. s # cursor
      BY <1>a, <1>b, <1>2
    <3>2. Needs(s)' = {IF d < cursor + 1 THEN remap'[d] ELSE d : d \in objects[s].deps}
      BY <1>a, <1>2 DEF Needs, Place
    <3>3. \A d \in objects[s].deps :
             (IF d < cursor + 1 THEN remap'[d] ELSE d) = (IF d < cursor THEN remap[d] ELSE d)
      BY <1>d, <2>2
    <3>4. Needs(s)' = Needs(s)
      BY <1>c, <3>2, <3>3
    <3> QED BY <1>e, <1>2, <3>1, <3>4 DEF Moved
  <2>4. /\ Supported' /\ HeapIsOwned' /\ PoolIsClosed'
        /\ \A p : Listed(p) => Listed(p)'
        /\ Roots' = Roots /\ Needed => Needed'
        /\ Distinct => Distinct'
    BY <1>a, <1>2, <2>1, <2>3, Steady DEF IInv
  <2>5. MarksClosed'
    <3>1. /\ phase' = "compact" /\ marked' = marked /\ surviving' = surviving /\ cursor' = cursor + 1
          /\ surviving' < cursor' /\ cursor' <= count' + 1 /\ marked' \subseteq Used'
          /\ objects' = objects
      BY <1>a, <1>2 DEF Used
    <3> QED BY <1>d, <2>1, <2>2, <3>1 DEF MarksClosed
  <2>6. RootsListed'
    BY <1>a, <1>2, <2>4 DEF RootsListed, IInv
  <2>7. NoCapture'
    BY <1>a, <1>2 DEF IInv, NoCapture, BoundNames, Used
  <2> QED BY <1>r, <2>4, <2>5, <2>6, <2>7 DEF IInv
<1>3. CASE /\ cursor > count
           /\ objects' = [s \in Slots |-> IF s <= surviving THEN objects[s] ELSE Free]
           /\ count' = surviving
           /\ cursor' = 1 /\ phase' = "remap" /\ UNCHANGED <<remap, surviving>>
  <2>1. Alive = 1 .. surviving /\ Used' = 1 .. surviving /\ Alive' = 1 .. surviving
    BY <1>a, <1>b, <1>3 DEF Alive, Used
  <2>2. \A s \in Alive : s \in Slots /\ s \in Used /\ s >= 1 /\ s # cursor /\ objects'[s] = objects[s]
    BY <1>a, <1>b, <1>3, <2>1
  <2>3. ASSUME NEW s \in Alive
        PROVE  objects'[s] \in Entries /\ Moved(s) = s /\ Needs(s)' = Needs(s)
    <3>1. Needs(s)' = {remap[d] : d \in objects[s].deps}
      BY <1>a, <1>3, <2>2 DEF Needs, Place
    <3>2. \A d \in objects[s].deps : d < cursor
      <4>1. \A d \in objects[s].deps : d \in Used
        BY <1>a, <1>d
      <4>2. \A d \in Used : d < cursor
        BY <1>a, <1>3 DEF Used
      <4> QED BY <4>1, <4>2
    <3> QED BY <1>c, <1>e, <2>2, <3>1, <3>2 DEF Moved
  <2>4. /\ Supported' /\ HeapIsOwned' /\ PoolIsClosed'
        /\ \A p : Listed(p) => Listed(p)'
        /\ Roots' = Roots /\ Needed => Needed'
        /\ Distinct => Distinct'
    BY <1>a, <2>1, <2>2, <2>3, Steady DEF IInv
  <2>5. MarksClosed'
    BY <1>3 DEF MarksClosed
  <2>6. RootsListed'
    BY <1>a, <1>3, <2>4 DEF RootsListed, IInv
  <2>7. NoCapture'
    BY <1>a, <2>1, <2>2 DEF IInv, NoCapture, BoundNames
  <2> QED BY <1>r, <2>4, <2>5, <2>6, <2>7 DEF IInv
<1> QED
  BY <1>1, <1>2, <1>3 DEF Compact

\* A survivor's recorded dependencies follow remap.
LEMMA Remaps ==
  ASSUME IInv, TypeOK', Remap
  PROVE  IInv' /\ (Needed /\ Distinct => Needed' /\ Distinct')
<1>a. /\ phase = "remap" /\ UNCHANGED <<count, bound, value, memory>>
      /\ count \in Nat /\ count <= MaxObjects /\ cursor \in Nat /\ cursor >= 1
  BY LimitAssumption DEF Remap, command, memory, IInv, MarksClosed, TypeOK
<1>b. Alive = Used /\ Used \subseteq Nat \ {0} /\ Used \subseteq Slots
  BY <1>a, LimitAssumption DEF Alive, Used, Slots
<1>c. \A s : Needs(s) = {IF s >= cursor THEN remap[d] ELSE d : d \in objects[s].deps}
  BY <1>a DEF Needs, Place
<1>d. \A s \in Alive : objects[s] \in Entries /\ Moved(s) = s /\ \A t \in Needs(s) : t \in Used
  BY <1>a, <1>b DEF IInv, Supported, Moved
<1>r. Roots' = Roots
  BY <1>a DEF Roots, BoundNames
<1>1. CASE /\ cursor <= count /\ cursor' = cursor + 1
           /\ objects' = [objects EXCEPT ![cursor].deps = {remap[d] : d \in @} \ {0}]
           /\ UNCHANGED <<phase, marked, surviving, remap>>
  <2>0. PICK D : D = {remap[d] : d \in objects[cursor].deps} \ {0}
    OBVIOUS
  <2>1. cursor \in Used /\ cursor \in Slots /\ Alive' = Used /\ Used' = Used
    BY <1>a, <1>b, <1>1 DEF Alive, Used
  <2>2. \A s \in Used : s # cursor => objects'[s] = objects[s] /\ (s >= cursor + 1 <=> s >= cursor)
    BY <1>a, <1>b, <1>1 DEF IInv, TypeOK
  <2>3. objects'[cursor] = [objects[cursor] EXCEPT !.deps = D]
    BY <1>1, <2>0, <2>1 DEF IInv, TypeOK
  <2>4. Needs(cursor) = D
    <3>1. Needs(cursor) = {remap[d] : d \in objects[cursor].deps}
      BY <1>a, <1>c
    <3>2. 0 \notin Needs(cursor)
      BY <1>b, <1>d, <2>1
    <3> QED BY <2>0, <3>1, <3>2
  <2>5. D \subseteq Slots /\ objects[cursor] \in Entries
    BY <1>b, <1>d, <2>1, <2>4
  <2>6. /\ objects'[cursor] \in Entries /\ objects'[cursor].deps = D
        /\ objects'[cursor].ptr = objects[cursor].ptr /\ objects'[cursor].owned = objects[cursor].owned
        /\ objects'[cursor].coords = objects[cursor].coords
    BY <2>3, <2>5 DEF Entries
  <2>7. \A s : Needs(s)' = {IF s >= cursor + 1 THEN remap[d] ELSE d : d \in objects'[s].deps}
    BY <1>a, <1>1 DEF Needs, Place
  <2>8. ASSUME NEW s \in Alive
        PROVE  /\ objects'[s] \in Entries /\ objects'[s].ptr = objects[s].ptr
               /\ objects'[s].owned = objects[s].owned /\ Needs(s)' = Needs(s)
               /\ objects'[s].coords = objects[s].coords
    <3>1. CASE s = cursor
      <4>1. Needs(s)' = {d : d \in D}
        BY <1>a, <2>6, <2>7, <3>1
      <4> QED BY <2>4, <2>6, <3>1, <4>1
    <3>2. CASE s # cursor
      <4>1. s \in Used /\ objects'[s] = objects[s] /\ (s >= cursor + 1 <=> s >= cursor)
        BY <1>b, <2>2, <3>2
      <4>2. Needs(s)' = {IF s >= cursor THEN remap[d] ELSE d : d \in objects[s].deps}
        BY <2>7, <4>1
      <4>3. Needs(s)' = Needs(s)
        BY <1>c, <4>2
      <4> QED BY <1>d, <4>1, <4>3
    <3> QED BY <3>1, <3>2
  <2>9. /\ Supported' /\ HeapIsOwned' /\ PoolIsClosed'
        /\ \A p : Listed(p) => Listed(p)'
        /\ Roots' = Roots /\ Needed => Needed'
        /\ Distinct => Distinct'
    BY <1>a, <1>b, <1>d, <2>1, <2>8, Steady DEF IInv
  <2>10. MarksClosed'
    BY <1>a, <1>1 DEF MarksClosed
  <2>11. RootsListed'
    BY <1>a, <1>1, <2>9 DEF RootsListed, IInv
  <2>12. NoCapture'
    BY <1>a, <1>b, <2>1, <2>8 DEF IInv, NoCapture, BoundNames
  <2> QED BY <1>r, <2>9, <2>10, <2>11, <2>12 DEF IInv
<1>2. CASE cursor > count /\ phase' = "idle" /\ UNCHANGED objects
  <2>1. Alive' = Used /\ Used' = Used /\ \A s \in Used : ~(s >= cursor)
    BY <1>a, <1>2 DEF Alive, Used
  <2>2. \A s : Needs(s)' = objects[s].deps
    BY <1>a, <1>2 DEF Needs, Place
  <2>3. \A s \in Alive : Needs(s)' = Needs(s)
    BY <1>b, <1>c, <2>1, <2>2
  <2>4. /\ Supported' /\ HeapIsOwned' /\ PoolIsClosed'
        /\ \A p : Listed(p) => Listed(p)'
        /\ Roots' = Roots /\ Needed => Needed'
        /\ Distinct => Distinct'
    BY <1>a, <1>b, <1>d, <1>2, <2>1, <2>3, Steady DEF IInv
  <2>5. MarksClosed' /\ NoCapture'
    BY <1>a, <1>2, <2>1 DEF MarksClosed, IInv, NoCapture, BoundNames
  <2>6. RootsListed'
    BY <1>a, <1>2, <2>4 DEF RootsListed, IInv
  <2> QED BY <1>r, <2>4, <2>5, <2>6 DEF IInv
<1> QED
  BY <1>1, <1>2 DEF Remap

-----------------------------------------------------------------------------
(* The theorems. *)

\* An empty environment.
LEMMA InitIInv == Init => IInv
<1> SUFFICES ASSUME Init PROVE IInv
  OBVIOUS
<1>1. TypeOK
  BY InitTypeOK
<1>2. Used = {} /\ Alive = {}
  BY DEF Init, Used, Alive
<1>3. Supported /\ HeapIsOwned /\ PoolIsClosed /\ NoCapture
  BY <1>2 DEF Init, Supported, HeapIsOwned, PoolIsClosed, NoCapture
<1>4. MarksClosed
  BY DEF Init, MarksClosed
<1>5. RootsListed
  BY SentinelAssumption DEF Init, RootsListed, Pointers
<1> QED
  BY <1>1, <1>3, <1>4, <1>5 DEF IInv

\* The inductive step: one command or sweep step at a time.
LEMMA StepIInv == IInv /\ [Next]_vars => IInv'
<1> SUFFICES ASSUME IInv, [Next]_vars PROVE IInv'
  OBVIOUS
<1>0. TypeOK'
  BY StepTypeOK DEF IInv
<1>1. ASSUME \/ \E n \in Names \cup {NoName} : Begin(n)
             \/ \E n \in Names : ReadBinding(n) \/ ClearName(n)
             \/ \E b \in Blocks : EditObject(b)
      PROVE  IInv'
  BY <1>0, <1>1, Starts
<1>2. ASSUME NEW b \in Blocks, NEW S \in Operands, PublishObject(b, S, {}) PROVE IInv'
  <2>1. S \in SUBSET held /\ {} \in SUBSET Names /\ {} \cap BoundNames = {}
    BY DEF Operands
  <2> QED BY <1>0, <1>2, <2>1, Publishes
<1>3. ASSUME NEW b \in Blocks, NEW S \in Operands, DeclareObject(b, S) PROVE IInv'
  <2>1. S \in SUBSET held
    BY DEF Operands
  <2> QED BY <1>0, <1>3, <2>1, Declares
<1>4. ASSUME NEW b \in Blocks, NEW x \in Names, PublishChart(b, x) PROVE IInv'
  <2>1. CASE x \notin BoundNames /\ PublishObject(b, {}, {x})
    <3>1. {} \in SUBSET held /\ {x} \in SUBSET Names /\ {x} \cap BoundNames = {}
      BY <2>1
    <3> QED BY <1>0, <2>1, <3>1, Publishes
  <2>2. CASE phase = "eval" /\ FailCommand
    BY <1>0, <2>2, Fails
  <2> QED BY <1>4, <2>1, <2>2 DEF PublishChart
<1>5. ASSUME NEW b \in Blocks, PublishPart(b) PROVE IInv'
  BY <1>0, <1>5, Borrows
<1>6. ASSUME NEW v \in held \cup {None}, Finish(v) PROVE IInv'
  BY <1>0, <1>6, Finishes
<1>7. ASSUME BackendFails \/ BindRefused PROVE IInv'
  BY <1>0, <1>7, Fails DEF BackendFails, BindRefused
<1>8. ASSUME ClearAll PROVE IInv'
  BY <1>0, <1>8, Clears
<1>9. ASSUME SweepStep PROVE IInv'
  BY <1>0, <1>9, Marks, Propagates, Sweeps, Resets, Compacts, Remaps DEF SweepStep
<1>10. ASSUME UNCHANGED vars PROVE IInv'
  <2>1. /\ UNCHANGED <<objects, count, bound, phase, held, value, marked, cursor, surviving, remap>>
        /\ UNCHANGED <<heap, refs, pool>>
    BY <1>10 DEF vars, table, command, sweep, memory
  <2>2. Used' = Used /\ Alive' = Alive /\ Roots' = Roots /\ BoundNames' = BoundNames
    BY <2>1 DEF Used, Alive, Roots, BoundNames
  <2>3. \A s : Needs(s)' = Needs(s) /\ At(s)' = At(s) /\ Owned(s)' = Owned(s)
    BY <2>1 DEF Needs, Place, At, Owned, Block
  <2>4. \A s : Held(s)' = Held(s)
    BY <2>1, <2>3 DEF Held
  <2>5. \A p : Listed(p)' = Listed(p)
    BY <2>1, <2>2 DEF Listed
  <2>6. Supported' /\ HeapIsOwned' /\ PoolIsClosed'
    BY <2>1, <2>2, <2>3, <2>4 DEF IInv, Supported, HeapIsOwned, PoolIsClosed
  <2>7. MarksClosed' /\ RootsListed' /\ NoCapture'
    BY <2>1, <2>2, <2>5 DEF IInv, MarksClosed, RootsListed, NoCapture
  <2> QED BY <1>0, <2>6, <2>7 DEF IInv
<1> QED
  BY <1>1, <1>2, <1>3, <1>4, <1>5, <1>6, <1>7, <1>8, <1>9, <1>10 DEF Next

\* What holds of the allocated objects wherever the sweep has put them.
THEOREM Inductive == Spec => []IInv
<1>1. Init => IInv
  BY InitIInv
<1>2. IInv /\ [Next]_vars => IInv'
  BY StepIInv
<1> QED
  BY <1>1, <1>2, PTL DEF Spec

\* The environment's variables keep their types, for every table size.
THEOREM TypeCorrect == Spec => []TypeOK
<1>1. IInv => TypeOK
  BY DEF IInv
<1> QED
  BY <1>1, Inductive, PTL

\* What a slot names is allocated.
LEMMA AliveIsAllocated ==
  ASSUME IInv, NEW s \in Alive
  PROVE  At(s) \in heap
<1>1. Held(s) /\ \A t \in Needs(s) : t \in Alive
  BY DEF IInv, Supported
<1>2. \A t \in Alive : Owned(t) => At(t) \in heap
  BY DEF IInv, HeapIsOwned
<1> QED
  BY <1>1, <1>2 DEF Held, IInv, PoolIsClosed

\* eval_sweep and phy_env_reset free every object after the objects that hold
\* its address: no block of the heap points to a freed one, at any step.
THEOREM NoDanglingReference == Spec => []UsersDieFirst
<1>1. IInv => UsersDieFirst
  <2> SUFFICES ASSUME IInv, NEW b \in heap, NEW r \in refs[b] PROVE r \in heap
    BY DEF UsersDieFirst
  <2>1. CASE b \in pool
    BY <2>1 DEF IInv, PoolIsClosed
  <2>2. CASE b \notin pool
    <3>1. PICK s \in Alive : Owned(s) /\ At(s) = b
      BY <2>2 DEF IInv, HeapIsOwned
    <3>2. PICK t \in Needs(s) : At(t) = r
      BY <3>1 DEF IInv, Supported
    <3>3. t \in Alive
      BY <3>1, <3>2 DEF IInv, Supported
    <3> QED BY <3>2, <3>3, AliveIsAllocated
  <2> QED BY <2>1, <2>2
<1> QED
  BY <1>1, Inductive, PTL

\* Between commands, every bound name and the value last returned to the
\* caller name an object that is still allocated.
THEOREM NoDanglingRoot == Spec => []RootsAreAlive
<1>1. IInv => RootsAreAlive
  <2> SUFFICES ASSUME IInv, phase = "idle", NEW p \in Roots \ {None} PROVE Block(p) \in heap
    BY DEF RootsAreAlive
  <2>1. p \in Pointers
    BY DEF IInv, TypeOK, Roots, BoundNames, Values
  <2>2. Listed(p)
    BY <2>1 DEF IInv, RootsListed, Roots, BoundNames
  <2>3. PICK s \in Alive : objects[s].ptr = p
    BY <2>2 DEF Listed
  <2> QED
    BY <2>3, AliveIsAllocated DEF At
<1> QED
  BY <1>1, Inductive, PTL

\* eval_bind and the chart constructors keep bound names and chart coordinates
\* apart, at every step of every sweep.
THEOREM NoCapturedCoordinate == Spec => []NoCapture
<1>1. IInv => NoCapture
  BY DEF IInv
<1> QED
  BY <1>1, Inductive, PTL

-----------------------------------------------------------------------------
(* The table between commands. *)

\* An empty table.
LEMMA InitTableInv == Init => TableInv
<1> SUFFICES ASSUME Init PROVE TableInv
  OBVIOUS
<1>1. Used = {} /\ Alive = {} /\ phase = "idle"
  BY DEF Init, Used, Alive
<1> QED
  BY <1>1 DEF TableInv, DependenciesPointBack, DepsAreFirst, MarksHaveReasons, Needed, Distinct

\* While a command is evaluated, and when it marks, recorded slots are the
\* slots Supported speaks of.
LEMMA QuietDependencies == TypeOK /\ Supported /\ phase \in Quiet => DependenciesPointBack
<1> SUFFICES ASSUME TypeOK, Supported, phase \in Quiet PROVE DependenciesPointBack
  OBVIOUS
<1>1. Alive = Used /\ Used \subseteq Nat \ {0}
  BY LimitAssumption DEF Alive, Quiet, Used, TypeOK
<1>2. \A s : Needs(s) = objects[s].deps
  BY DEF Needs, Place, Quiet
<1>3. \A s \in Used : \A d \in objects[s].deps : d \in Nat \ {0} /\ d < s
  BY <1>1, <1>2 DEF Supported
<1>4. \A s \in Used : \A d \in objects[s].deps : d \in 1 .. s - 1
  BY <1>1, <1>3
<1> QED
  BY <1>4 DEF DependenciesPointBack

\* Dependencies point back through the sweep and the reset, too: the entries
\* do not change before the table is compacted.
LEMMA StepPointBack == IInv /\ IInv' /\ DependenciesPointBack /\ [Next]_vars => DependenciesPointBack'
<1> SUFFICES ASSUME IInv, IInv', DependenciesPointBack, [Next]_vars PROVE DependenciesPointBack'
  OBVIOUS
<1>q. TypeOK' /\ Supported' /\ (phase \in Quiet)' => DependenciesPointBack'
  BY QuietDependencies, PTL
<1>p. phase' \in Quiet \/ phase' \in {"destroy", "reset", "compact", "remap"}
  BY DEF IInv, TypeOK, Quiet, Phases
<1>c. phase' \in {"compact", "remap"} => DependenciesPointBack'
  BY DEF DependenciesPointBack
<1> SUFFICES ASSUME phase' \in {"destroy", "reset"} PROVE DependenciesPointBack'
  BY <1>q, <1>p, <1>c DEF IInv, Quiet
<1>1. UNCHANGED <<objects, count>> /\ phase \notin {"compact", "remap"}
  BY DEF Next, SweepStep, Begin, ReadBinding, ClearName, PublishObject, DeclareObject, PublishChart,
         PublishPart, EditObject, Finish, BackendFails, BindRefused, ClearAll, FailCommand, Sweep,
         Register, MarkRoots, Propagate, DestroyUnmarked, ResetDestroy, Compact, Remap,
         vars, table, command, sweep, memory
<1> QED
  BY <1>1 DEF DependenciesPointBack, Used

\* Commands that leave the table alone, up to the mark loop or a reset.
LEMMA IdleTable ==
  ASSUME TableInv, DependenciesPointBack', UNCHANGED <<objects, count>>, phase \in Quiet,
         phase' \in {"eval", "mark", "reset"}
  PROVE  TableInv'
  BY DEF TableInv, DepsAreFirst, MarksHaveReasons, IsFirst, Used, Quiet

\* What slot_of finds does not change when an entry is appended.
LEMMA RegisteredTable ==
  ASSUME IInv, TableInv, DependenciesPointBack', phase = "eval", NEW p \in Pointers,
         NEW o \in BOOLEAN, NEW S \in SUBSET held, NEW X \in SUBSET Names, Register(p, o, S, X)
  PROVE  TableInv'
<1> DEFINE D == UNION {SlotsOf(q) : q \in S}
<1>0. PICK n : n = count + 1
  OBVIOUS
<1>1. phase' = "eval" /\ count \in Nat /\ n \in Slots
  BY <1>0, LimitAssumption DEF Register, IInv, TypeOK, Slots
<1>2. Used' = Used \cup {n} /\ \A s \in Used : s \in Nat /\ 1 .. s - 1 \subseteq Used
  BY <1>0, <1>1 DEF Register, Used
<1>3. \A s \in Used : objects'[s] = objects[s]
  BY <1>0, <1>1 DEF Register, Used, IInv, TypeOK
<1>4. \A d \in Used : IsFirst(d) => IsFirst(d)'
  BY <1>2, <1>3 DEF IsFirst
<1>5. objects'[n].deps = D
  BY <1>0, <1>1 DEF Register, IInv, TypeOK
<1>6. \A d \in D : d \in Used /\ IsFirst(d)
  BY DEF SlotsOf, FirstAt, IsFirst
<1> HIDE DEF D
<1>7. DepsAreFirst'
  <2> SUFFICES ASSUME NEW s \in Used', NEW d \in objects'[s].deps PROVE IsFirst(d)'
    BY DEF DepsAreFirst
  <2>1. CASE s = n
    BY <1>4, <1>5, <1>6, <2>1
  <2>2. CASE s \in Used
    <3>1. d \in objects[s].deps /\ d \in 1 .. s - 1 /\ IsFirst(d)
      BY <1>1, <1>3, <2>2 DEF TableInv, DepsAreFirst, DependenciesPointBack
    <3> QED BY <1>2, <1>4, <2>2, <3>1
  <2> QED BY <1>2, <2>1, <2>2
<1> QED
  BY <1>1, <1>7 DEF TableInv, MarksHaveReasons

\* The mark loop: a root marks the entry that slot_of finds, an entry marks
\* the ones it recorded.
LEMMA MarkedTable ==
  ASSUME IInv, TableInv, DependenciesPointBack', MarkRoots \/ Propagate
  PROVE  TableInv'
<1>1. /\ UNCHANGED <<objects, count, bound, value>>
      /\ phase \in {"mark", "propagate"} /\ phase' \in {"propagate", "destroy"}
  BY DEF MarkRoots, Propagate, table, command
<1>2. DepsAreFirst'
  BY <1>1 DEF TableInv, DepsAreFirst, IsFirst, Used
<1>3. Roots' = Roots
  BY <1>1 DEF Roots, BoundNames
<1>4. CASE MarkRoots
  <2>1. \A s \in marked' : IsFirst(s) /\ objects[s].ptr \in Roots
    BY <1>4 DEF MarkRoots, SlotsOf, FirstAt, IsFirst
  <2> QED
    BY <1>1, <1>2, <1>3, <2>1 DEF TableInv, MarksHaveReasons, IsFirst
<1>5. CASE Propagate
  <2>1. phase = "propagate" /\ marked \subseteq Used
    BY <1>5 DEF Propagate, IInv, MarksClosed
  <2>2. \A s \in marked : /\ IsFirst(s)
                          /\ objects[s].ptr \in Roots \/ \E t \in marked : s \in objects[t].deps
    BY <2>1 DEF TableInv, MarksHaveReasons
  <2>3. \/ marked' = marked
        \/ cursor \in marked /\ marked' = marked \cup objects[cursor].deps
    BY <1>5 DEF Propagate
  <2>4. \A s \in marked : \A d \in objects[s].deps : IsFirst(d)
    BY <2>1 DEF TableInv, DepsAreFirst
  <2>5. \A s \in marked' : /\ IsFirst(s)
                           /\ objects[s].ptr \in Roots \/ \E t \in marked' : s \in objects[t].deps
    BY <2>2, <2>3, <2>4
  <2> QED
    BY <1>1, <1>2, <1>3, <2>5 DEF TableInv, MarksHaveReasons, IsFirst
<1> QED
  BY <1>4, <1>5

\* The survivors of the sweep are the marked entries.
LEMMA DestroyedTable ==
  ASSUME IInv, IInv', TableInv, DependenciesPointBack', DestroyUnmarked
  PROVE  TableInv'
<1>1. /\ UNCHANGED <<objects, count, bound, value, marked>>
      /\ phase = "destroy" /\ phase' \in {"destroy", "compact"} /\ marked \subseteq Used
      /\ phase' = "compact" => cursor' = 1 /\ surviving' = 0
  BY DEF DestroyUnmarked, table, command, IInv, MarksClosed
<1>2. \A s \in marked : /\ IsFirst(s)
                        /\ objects[s].ptr \in Roots \/ \E t \in marked : s \in objects[t].deps
  BY <1>1 DEF TableInv, MarksHaveReasons
<1>3. DepsAreFirst' /\ MarksHaveReasons'
  <2>1. Roots' = Roots
    BY <1>1 DEF Roots, BoundNames
  <2> QED
    BY <1>1, <1>2, <2>1 DEF TableInv, DepsAreFirst, MarksHaveReasons, IsFirst, Used
<1>4. ASSUME phase' = "compact" PROVE Needed' /\ Distinct'
  <2>1. Used \subseteq Nat \ {0}
    BY LimitAssumption DEF Used, IInv, TypeOK
  <2>2. Alive' = marked
    <3>1. \A s \in Used : s >= 1 /\ ~(s <= 0)
      BY <2>1
    <3>2. Alive' = {s \in Used : s <= 0 \/ (s >= 1 /\ s \in marked)}
      BY <1>1, <1>4 DEF Alive, Used
    <3> QED BY <1>1, <3>1, <3>2
  <2>3. \A s \in marked : Needs(s)' = objects[s].deps
    <3>1. ASSUME NEW s \in marked, NEW d \in objects[s].deps PROVE d \in Used
      <4>1. d \in 1 .. s - 1 /\ s \in 1 .. count /\ count \in Nat
        BY <1>1, <3>1, LimitAssumption DEF TableInv, DependenciesPointBack, Used, IInv, TypeOK
      <4> QED BY <4>1 DEF Used
    <3>2. \A s \in marked : \A d \in objects[s].deps : ~(d < 1)
      <4>1. \A d \in Nat \ {0} : ~(d < 1)
        OBVIOUS
      <4> QED BY <2>1, <3>1, <4>1
    <3>3. \A s \in marked : Needs(s)' = {IF d < 1 THEN remap'[d] ELSE d : d \in objects[s].deps}
      BY <1>1, <1>4 DEF Needs, Place
    <3>4. \A s \in marked : Needs(s)' = {d : d \in objects[s].deps}
      BY <3>2, <3>3
    <3> QED BY <3>4
  <2>4. Needed'
    BY <1>1, <1>2, <2>2, <2>3 DEF Needed, Roots, BoundNames
  <2>5. ASSUME NEW s \in marked, NEW t \in marked, objects[s].ptr = objects[t].ptr, s < t PROVE FALSE
    <3>1. s \in 1 .. t - 1
      BY <1>1, <2>1, <2>5
    <3> QED BY <1>2, <2>5, <3>1 DEF IsFirst
  <2>6. \A s, t \in marked : objects[s].ptr = objects[t].ptr => s = t
    <3>1. \A s, t \in marked : s < t \/ t < s \/ s = t
      BY <1>1, <2>1
    <3> QED BY <2>5, <3>1
  <2>7. Distinct'
    BY <1>1, <2>2, <2>6 DEF Distinct
  <2> QED BY <2>4, <2>7
<1> QED
  BY <1>1, <1>3, <1>4 DEF TableInv

\* Moving the entries keeps the reasons and the pointers, and afterwards no
\* pointer is listed twice.
LEMMA MovedTable ==
  ASSUME IInv, IInv', TableInv, DependenciesPointBack', Compact \/ Remap
  PROVE  TableInv'
<1>1. phase \in {"compact", "remap"} /\ phase' \in {"compact", "remap", "idle"}
  BY DEF Compact, Remap
<1>2. Needed' /\ Distinct'
  BY <1>1, Compacts, Remaps DEF TableInv, IInv
<1>3. ASSUME phase' = "idle" PROVE DepsAreFirst'
  <2>1. /\ Alive' = Used' /\ \A s : Needs(s)' = objects'[s].deps
    BY <1>3 DEF Alive, Needs, Place
  <2>2. ASSUME NEW s \in Used', NEW d \in objects'[s].deps PROVE IsFirst(d)'
    <3>1. d \in Used'
      BY <2>1, <2>2 DEF IInv, Supported
    <3>2. \A t \in 1 .. d - 1 : t \in Used' /\ t # d
      BY <3>1, LimitAssumption DEF Used, IInv, TypeOK
    <3> QED BY <2>1, <3>1, <3>2, <1>2 DEF Distinct, IsFirst
  <2> QED BY <2>2 DEF DepsAreFirst
<1>4. DepsAreFirst'
  BY <1>1, <1>3 DEF DepsAreFirst
<1> QED
  BY <1>1, <1>2, <1>4 DEF TableInv, MarksHaveReasons

\* A reset empties the table.
LEMMA ResetTable ==
  ASSUME IInv, TableInv, DependenciesPointBack', ResetDestroy
  PROVE  TableInv'
<1>1. CASE phase' = "idle"
  <2>1. Used' = {} /\ Alive' = {}
    BY <1>1 DEF ResetDestroy, Used, Alive
  <2> QED
    BY <1>1, <2>1 DEF TableInv, DepsAreFirst, MarksHaveReasons, Needed, Distinct
<1>2. CASE phase' # "idle"
  <2>1. phase = "reset" /\ phase' = "reset" /\ UNCHANGED <<objects, count>>
    BY <1>2 DEF ResetDestroy
  <2> QED
    BY <2>1 DEF TableInv, DepsAreFirst, MarksHaveReasons, IsFirst, Used
<1> QED
  BY <1>1, <1>2

\* The inductive step of the second invariant, over the first one.
LEMMA StepTableInv == IInv /\ IInv' /\ TableInv /\ [Next]_vars => TableInv'
<1> SUFFICES ASSUME IInv, IInv', TableInv, [Next]_vars PROVE TableInv'
  OBVIOUS
<1>0. DependenciesPointBack'
  BY StepPointBack DEF TableInv
<1>f. ASSUME phase = "eval", FailCommand PROVE TableInv'
  BY <1>0, <1>f, IdleTable DEF FailCommand, Sweep, table, Quiet
<1>1. ASSUME \/ \E n \in Names \cup {NoName} : Begin(n)
             \/ \E n \in Names : ReadBinding(n) \/ ClearName(n)
             \/ \E b \in Blocks : EditObject(b)
             \/ \E v \in held \cup {None} : Finish(v)
             \/ ClearAll
      PROVE  TableInv'
  <2>1. UNCHANGED <<objects, count>> /\ phase \in Quiet /\ phase' \in {"eval", "mark", "reset"}
    BY <1>1 DEF Begin, ReadBinding, ClearName, EditObject, Finish, ClearAll, Sweep, table, Quiet
  <2> QED BY <1>0, <2>1, IdleTable
<1>2. ASSUME NEW p \in Pointers, NEW o \in BOOLEAN, NEW S \in SUBSET held, NEW X \in SUBSET Names,
             phase = "eval", Register(p, o, S, X)
      PROVE  TableInv'
  BY <1>0, <1>2, RegisteredTable
<1>w. ASSUME NEW b \in Blocks PROVE <<b, "whole">> \in Pointers /\ <<b, "part">> \in Pointers
  BY DEF Pointers
<1>3. ASSUME NEW b \in Blocks, NEW S \in SUBSET held, NEW X \in SUBSET Names, PublishObject(b, S, X)
      PROVE  TableInv'
  <2>1. phase = "eval" /\ (Register(<<b, "whole">>, TRUE, S, X) \/ FailCommand)
    BY <1>3 DEF PublishObject
  <2>2. TRUE \in BOOLEAN /\ FALSE \in BOOLEAN /\ {} \in SUBSET held /\ {} \in SUBSET Names
    OBVIOUS
  <2> QED BY <1>f, <1>2, <1>w, <2>1, <2>2
<1>4. ASSUME NEW b \in Blocks, NEW S \in Operands, DeclareObject(b, S) PROVE TableInv'
  <2>1. phase = "eval" /\ (Register(<<b, "whole">>, FALSE, {}, {}) \/ FailCommand)
    BY <1>4 DEF DeclareObject
  <2>2. TRUE \in BOOLEAN /\ FALSE \in BOOLEAN /\ {} \in SUBSET held /\ {} \in SUBSET Names
    OBVIOUS
  <2> QED BY <1>f, <1>2, <1>w, <2>1, <2>2
<1>5. ASSUME NEW b \in Blocks, PublishPart(b) PROVE TableInv'
  <2>1. /\ phase = "eval" /\ {<<b, "whole">>} \in SUBSET held
        /\ Register(<<b, "part">>, FALSE, {<<b, "whole">>}, {}) \/ FailCommand
    BY <1>5 DEF PublishPart
  <2>2. TRUE \in BOOLEAN /\ FALSE \in BOOLEAN /\ {} \in SUBSET held /\ {} \in SUBSET Names
    OBVIOUS
  <2> QED BY <1>f, <1>2, <1>w, <2>1, <2>2
<1>6. ASSUME NEW b \in Blocks, \/ \E S \in Operands : PublishObject(b, S, {})
                               \/ \E x \in Names : PublishChart(b, x)
      PROVE  TableInv'
  <2>1. \A S \in Operands : S \in SUBSET held
    BY DEF Operands
  <2>2. \A x \in Names : {x} \in SUBSET Names
    OBVIOUS
  <2>3. {} \in SUBSET held /\ {} \in SUBSET Names
    OBVIOUS
  <2> QED BY <1>f, <1>3, <1>6, <2>1, <2>2, <2>3 DEF PublishChart
<1>7. ASSUME BackendFails \/ BindRefused PROVE TableInv'
  BY <1>f, <1>7 DEF BackendFails, BindRefused
<1>8. ASSUME SweepStep PROVE TableInv'
  BY <1>0, <1>8, MarkedTable, DestroyedTable, ResetTable, MovedTable DEF SweepStep
<1>9. ASSUME UNCHANGED vars PROVE TableInv'
  BY <1>0, <1>9 DEF vars, table, command, sweep, memory, TableInv, DepsAreFirst, MarksHaveReasons,
                    IsFirst, Needed, Distinct, Alive, Used, Needs, Place, Roots, BoundNames
<1> QED
  BY <1>1, <1>4, <1>5, <1>6, <1>7, <1>8, <1>9 DEF Next

\* Why an entry is kept and why no pointer is listed twice, at every step.
THEOREM TableInductive == Spec => []TableInv
<1>1. Init => TableInv
  BY InitTableInv
<1>2. IInv /\ IInv' /\ TableInv /\ [Next]_vars => TableInv'
  BY StepTableInv
<1> QED
  BY <1>1, <1>2, Inductive, PTL DEF Spec

\* phy_env_validate: at every step of every sweep and reset dependencies point
\* back until entries move, and between commands, failed ones included, no
\* pointer is listed twice and what every bound name and the returned value
\* name is listed.
THEOREM TableStaysSound == Spec => []TableIsSound
<1>1. IInv /\ TableInv => TableIsSound
  <2> SUFFICES ASSUME IInv, TableInv PROVE TableIsSound
    OBVIOUS
  <2>1. ASSUME phase = "idle" PROVE \A s, t \in Used : objects[s].ptr = objects[t].ptr => s = t
    <3>1. Alive = Used
      BY <2>1 DEF Alive
    <3> QED BY <2>1, <3>1 DEF TableInv, Distinct
  <2>2. ASSUME phase = "idle", NEW p \in Roots \ {None} PROVE \E s \in Used : objects[s].ptr = p
    <3>1. p \in Pointers
      BY DEF IInv, TypeOK, Roots, BoundNames, Values
    <3>2. Listed(p)
      BY <3>1 DEF IInv, RootsListed, Roots, BoundNames
    <3> QED
      BY <3>2 DEF Listed, Alive
  <2> QED
    BY <2>1, <2>2 DEF TableInv, TableIsSound, EnvValid
<1> QED
  BY <1>1, Inductive, TableInductive, PTL

\* eval_sweep frees whatever it should: between commands every object of the
\* table is bound, or was returned, or is needed by another one, and the blocks
\* of the heap are the declared ones and the ones the table owns.
THEOREM NothingKeptNeedlessly == Spec => []NoGarbage
<1>1. IInv /\ TableInv => NoGarbage
  <2> SUFFICES ASSUME IInv, TableInv, phase = "idle" PROVE NoGarbage
    BY DEF NoGarbage
  <2>1. Alive = Used /\ \A s : Needs(s) = objects[s].deps
    BY DEF Alive, Needs, Place
  <2>2. \A s \in Used : objects[s].ptr \in Roots \/ \E t \in Used : s \in objects[t].deps
    BY <2>1 DEF TableInv, Needed
  <2>3. heap = pool \cup {Block(objects[s].ptr) : s \in {t \in Used : objects[t].owned}}
    <3>1. \A b \in heap : b \in pool \/ \E s \in Used : objects[s].owned /\ Block(objects[s].ptr) = b
      BY <2>1 DEF IInv, HeapIsOwned, Owned, At
    <3>2. \A s \in Used : objects[s].owned => Block(objects[s].ptr) \in heap
      BY <2>1 DEF IInv, HeapIsOwned, Owned, At
    <3>3. pool \subseteq heap
      BY DEF IInv, PoolIsClosed
    <3> QED BY <3>1, <3>2, <3>3
  <2> QED
    BY <2>2, <2>3 DEF NoGarbage
<1> QED
  BY <1>1, Inductive, TableInductive, PTL
=============================================================================
