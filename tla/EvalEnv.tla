------------------------------- MODULE EvalEnv -------------------------------
(***************************************************************************)
(* The notebook evaluator's environment: a table of mathematical objects   *)
(* in creation order, the names bound to them, and the sweep that destroys *)
(* what no binding and no result reaches (src/eval/env.c), driven by the   *)
(* commands of phy_eval_command and the publish helpers of dispatch.c.     *)
(*                                                                         *)
(* An object lives in a block of the heap.  It may hold the addresses of   *)
(* other blocks (a form holds its manifold, a manifold its chart); a block *)
(* may contain a part that the table lists as a borrowed object of its own *)
(* (the Ricci tensor of a curvature bundle, the algebra of a Lie group).   *)
(* Index spaces and tensor heads live in a pool of their own, by name, and *)
(* only a reset empties it.  What a command computes is abstracted to the  *)
(* objects it publishes and the operands it reads; every backend call may  *)
(* fail.                                                                   *)
(***************************************************************************)
EXTENDS Naturals, FiniteSets

CONSTANTS
    Names,          \* symbols a cell may bind
    Blocks,         \* addresses the allocator hands out, reused after free
    MaxObjects,     \* PHY_EVAL_MAX_OBJECTS
    MaxBindings,    \* PHY_EVAL_MAX_BINDINGS
    MaxFanIn,       \* bound: operands one object may point to
    None,           \* no pointer: a scalar value, or nothing at all
    Unbound,        \* the value of a name no binding holds
    NoName          \* PHY_IR_NO_SYMBOL

ASSUME LimitAssumption == MaxObjects \in Nat /\ MaxBindings \in Nat /\ MaxFanIn \in Nat
ASSUME SentinelAssumption == NoName \notin Names /\ Unbound # None
                             /\ None \notin Blocks \X {"whole", "part"}
                             /\ Unbound \notin Blocks \X {"whole", "part"}

VARIABLES
    \* env.c
    objects,        \* env->objects, in creation order
    count,          \* env->object_count
    bound,          \* env->bindings: the value of each bound name
    \* the command on the C stack
    phase, target, held, status, value, edited,
    \* eval_sweep
    marked, cursor, surviving, remap,
    \* the heap and env->abstract, the pool of named spaces and heads
    heap, refs, pool, declared

table == <<objects, count, bound>>
command == <<target, held, status, value, edited>>
sweep == <<marked, cursor, surviving, remap>>
memory == <<heap, refs, pool, declared>>
vars == <<table, phase, command, sweep, memory>>

Slots == 1 .. MaxObjects
Pointers == Blocks \X {"whole", "part"}
Values == Pointers \cup {None}
Entries == [ptr : Pointers, owned : BOOLEAN, deps : SUBSET Slots, coords : SUBSET Names]
Free == [ptr |-> None, owned |-> FALSE, deps |-> {}, coords |-> {}]

Used == 1 .. count
Block(p) == p[1]
BoundNames == {n \in Names : bound[n] # Unbound}

\* Variant: every entry that holds the pointer.
AllSlotsOf(p) == {s \in Used : objects[s].ptr = p}

\* slot_of: the first entry that holds the pointer.
FirstAt(p, s) == objects[s].ptr = p /\ \A t \in 1 .. s - 1 : objects[t].ptr # p
SlotsOf(p) == {s \in Used : FirstAt(p, s)}

Init ==
    /\ objects = [s \in Slots |-> Free] /\ count = 0
    /\ bound = [n \in Names |-> Unbound]
    /\ phase = "idle"
    /\ target = NoName /\ held = {} /\ status = "ok" /\ value = None /\ edited = {}
    /\ marked = {} /\ cursor = 0 /\ surviving = 0 /\ remap = [s \in Slots |-> 0]
    /\ heap = {} /\ refs = [b \in Blocks |-> {}] /\ pool = {} /\ declared = {}

-----------------------------------------------------------------------------
(* Evaluating the right-hand side. *)

\* phy_eval_command: the target is NoName unless the command assigns.
Begin(name) ==
    /\ phase = "idle" /\ phase' = "eval"
    /\ target' = name /\ held' = {} /\ status' = "ok" /\ value' = None /\ edited' = {}
    /\ UNCHANGED <<table, sweep, memory>>

\* eval_node of a bound name (eval_lookup).
ReadBinding(name) ==
    /\ phase = "eval" /\ bound[name] \in Pointers
    /\ held' = held \cup {bound[name]}
    /\ UNCHANGED <<table, phase, target, status, value, edited, sweep, memory>>

Sweep(outcome, result) ==
    /\ phase' = "mark" /\ status' = outcome /\ value' = result
    /\ target' = NoName /\ held' = {}

\* Variant: an error returns at once, without the sweep.
FailUnswept ==
    /\ phase' = "idle" /\ status' = "failed" /\ value' = None
    /\ target' = NoName /\ held' = {}
    /\ UNCHANGED <<table, edited, sweep, memory>>

FailCommand ==
    /\ Sweep("failed", None)
    /\ UNCHANGED <<table, edited, sweep, memory>>

\* Variant: the table limit is off by one.
RegisterPastEnd(p, owned, operands, coordinates) ==
    /\ count <= MaxObjects
    /\ objects' = [objects EXCEPT ![count + 1] =
                     [ptr |-> p, owned |-> owned, coords |-> coordinates,
                      deps |-> UNION {SlotsOf(q) : q \in operands}]]
    /\ count' = count + 1
    /\ held' = held \cup {p}
    /\ UNCHANGED <<bound, phase, target, status, value, sweep>>

\* eval_register_many: append, recording the slot of every operand.
Register(p, owned, operands, coordinates) ==
    /\ count < MaxObjects
    /\ objects' = [objects EXCEPT ![count + 1] =
                     [ptr |-> p, owned |-> owned, coords |-> coordinates,
                      deps |-> UNION {SlotsOf(q) : q \in operands}]]
    /\ count' = count + 1
    /\ held' = held \cup {p}
    /\ UNCHANGED <<bound, phase, target, status, value, sweep>>

\* A constructor allocates its object, then publishes it; a full table
\* destroys it again.
PublishObject(b, operands, coordinates) ==
    /\ phase = "eval" /\ b \notin heap
    /\ \/ /\ Register(<<b, "whole">>, TRUE, operands, coordinates)
          /\ heap' = heap \cup {b}
          /\ refs' = [refs EXCEPT ![b] = {Block(q) : q \in operands}]
          /\ UNCHANGED <<edited, pool, declared>>
       \/ count = MaxObjects /\ FailCommand

\* IndexSpace, TensorHead: the pool gains an object under the target's name
\* (or a default name), and keeps it whatever becomes of the command.  The
\* operands of a head are spaces of the pool and are not recorded.
DeclareObject(b, operands) ==
    /\ phase = "eval" /\ b \notin heap
    /\ operands \subseteq pool \X {"whole"}
    /\ \/ /\ target \notin declared
          /\ Register(<<b, "whole">>, FALSE, {}, {})
          /\ heap' = heap \cup {b} /\ pool' = pool \cup {b}
          /\ refs' = [refs EXCEPT ![b] = {Block(q) : q \in operands}]
          /\ declared' = declared \cup {target}
          /\ edited' = edited \cup {b}
       \/ target \in declared /\ FailCommand
       \/ count = MaxObjects /\ FailCommand

\* Manifold, ComponentBasis: a coordinate that is bound is refused.
PublishChart(b, x) ==
    \/ x \notin BoundNames /\ PublishObject(b, {}, {x})
    \/ phase = "eval" /\ x \in BoundNames /\ FailCommand

\* publish_borrowed: a view of a part of an object this command has in hand.
\* Asking twice for the same part yields the same pointer.
PublishPart(b) ==
    /\ phase = "eval" /\ <<b, "whole">> \in held /\ b \notin pool
    /\ \/ Register(<<b, "part">>, FALSE, {<<b, "whole">>}, {}) /\ UNCHANGED <<edited, memory>>
       \/ count = MaxObjects /\ FailCommand

\* AtlasAddTransition and YoungDeclare change an object that already exists.
EditObject(b) ==
    /\ phase = "eval" /\ <<b, "whole">> \in held
    /\ edited' = edited \cup {b}
    /\ UNCHANGED <<table, phase, target, held, status, value, sweep, memory>>

\* A parse, type or backend error, or a budget that ran out.
BackendFails == phase = "eval" /\ FailCommand

-----------------------------------------------------------------------------
(* The end of the command. *)

\* eval_is_chart_coordinate looks at every object in the table.
Captured(name) == \E s \in Used : name \in objects[s].coords

\* Variant: no coordinate check.
BindAnyName(name, v) ==
    /\ name \in BoundNames \/ Cardinality(BoundNames) < MaxBindings
    /\ bound' = [bound EXCEPT ![name] = v]

\* eval_bind.
Bind(name, v) ==
    /\ ~Captured(name)
    /\ name \in BoundNames \/ Cardinality(BoundNames) < MaxBindings
    /\ bound' = [bound EXCEPT ![name] = v]

Finish(v) ==
    /\ phase = "eval"
    /\ \/ target = NoName /\ UNCHANGED bound
       \/ target # NoName /\ Bind(target, v)
    /\ Sweep("ok", v)
    /\ UNCHANGED <<objects, count, edited, sweep, memory>>

BindRefused ==
    /\ phase = "eval" /\ target # NoName
    /\ Captured(target) \/ (target \notin BoundNames /\ Cardinality(BoundNames) >= MaxBindings)
    /\ FailCommand

\* Clear[name]: eval_unbind and eval_sweep.
ClearName(name) ==
    /\ phase = "idle"
    /\ bound' = [bound EXCEPT ![name] = Unbound]
    /\ Sweep("ok", None) /\ edited' = {}
    /\ UNCHANGED <<objects, count, sweep, memory>>

\* Clear[] and phy_env_reset: every object goes, newest first.
ClearAll ==
    /\ phase = "idle" /\ phase' = "reset"
    /\ bound' = [n \in Names |-> Unbound]
    /\ target' = NoName /\ held' = {} /\ status' = "ok" /\ value' = None /\ edited' = {}
    /\ cursor' = count
    /\ UNCHANGED <<objects, count, marked, surviving, remap, memory>>

-----------------------------------------------------------------------------
(* eval_sweep, loop by loop. *)

Roots == {bound[n] : n \in BoundNames} \cup {value}

\* Variant: the command's own result is not a root.
MarkBindingsOnly ==
    /\ phase = "mark" /\ phase' = "propagate"
    /\ marked' = UNION {SlotsOf(bound[n]) : n \in BoundNames}
    /\ cursor' = count
    /\ UNCHANGED <<table, command, surviving, remap, memory>>

MarkRoots ==
    /\ phase = "mark" /\ phase' = "propagate"
    /\ marked' = UNION {SlotsOf(p) : p \in Roots}
    /\ cursor' = count
    /\ UNCHANGED <<table, command, surviving, remap, memory>>

\* One downward pass: every entry above the cursor has marked its dependencies.
Propagate ==
    /\ phase = "propagate"
    /\ \/ /\ cursor > 0
          /\ marked' = IF cursor \in marked THEN marked \cup objects[cursor].deps ELSE marked
          /\ cursor' = cursor - 1 /\ UNCHANGED phase
       \/ cursor = 0 /\ phase' = "destroy" /\ cursor' = count /\ UNCHANGED marked
    /\ UNCHANGED <<table, command, surviving, remap, memory>>

\* destroy_owned: a borrowed part is not freed.
DestroyEntry(s) ==
    /\ UNCHANGED <<pool, declared>>
    /\ LET gone == IF objects[s].owned THEN {Block(objects[s].ptr)} ELSE {}
       IN  heap' = heap \ gone /\ refs' = [b \in Blocks |-> IF b \in gone THEN {} ELSE refs[b]]

\* Variant: oldest first.
DestroyOldestFirst ==
    /\ phase = "destroy"
    /\ \/ /\ cursor > 0
          /\ LET s == count + 1 - cursor IN IF s \in marked THEN UNCHANGED memory ELSE DestroyEntry(s)
          /\ cursor' = cursor - 1 /\ UNCHANGED <<phase, surviving>>
       \/ cursor = 0 /\ phase' = "compact" /\ cursor' = 1 /\ surviving' = 0 /\ UNCHANGED memory
    /\ UNCHANGED <<table, command, marked, remap>>

DestroyUnmarked ==
    /\ phase = "destroy"
    /\ \/ /\ cursor > 0 /\ cursor \in marked
          /\ cursor' = cursor - 1 /\ UNCHANGED <<phase, surviving, memory>>
       \/ /\ cursor > 0 /\ cursor \notin marked /\ DestroyEntry(cursor)
          /\ cursor' = cursor - 1 /\ UNCHANGED <<phase, surviving>>
       \/ /\ cursor = 0 /\ phase' = "compact"
          /\ cursor' = 1 /\ surviving' = 0 /\ UNCHANGED memory
    /\ UNCHANGED <<table, command, marked, remap>>

ResetDestroy ==
    /\ phase = "reset"
    /\ \/ /\ cursor > 0 /\ DestroyEntry(cursor)
          /\ cursor' = cursor - 1 /\ UNCHANGED <<objects, count, phase>>
       \/ /\ cursor = 0 /\ phase' = "idle" /\ count' = 0
          /\ objects' = [s \in Slots |-> Free]
          /\ heap' = heap \ pool /\ pool' = {} /\ declared' = {}
          /\ refs' = [b \in Blocks |-> IF b \in pool THEN {} ELSE refs[b]]
          /\ UNCHANGED cursor
    /\ UNCHANGED <<bound, command, marked, surviving, remap>>

\* Survivors move down in order; remap remembers where each one went.
Compact ==
    /\ phase = "compact"
    /\ \/ /\ cursor <= count /\ cursor \in marked
          /\ objects' = [objects EXCEPT ![surviving + 1] = objects[cursor]]
          /\ remap' = [remap EXCEPT ![cursor] = surviving + 1]
          /\ surviving' = surviving + 1
          /\ cursor' = cursor + 1 /\ UNCHANGED <<count, phase>>
       \/ /\ cursor <= count /\ cursor \notin marked
          /\ remap' = [remap EXCEPT ![cursor] = 0]
          /\ cursor' = cursor + 1 /\ UNCHANGED <<objects, count, surviving, phase>>
       \/ /\ cursor > count
          /\ objects' = [s \in Slots |-> IF s <= surviving THEN objects[s] ELSE Free]
          /\ count' = surviving
          /\ cursor' = 1 /\ phase' = "remap" /\ UNCHANGED <<remap, surviving>>
    /\ UNCHANGED <<bound, command, marked, memory>>

\* The dependencies of a survivor follow the survivors they name.
\* Variant: the dependencies keep their old slots.
RemapNothing ==
    /\ phase = "remap" /\ phase' = "idle"
    /\ cursor' = 0 /\ marked' = {} /\ surviving' = 0 /\ remap' = [s \in Slots |-> 0]
    /\ UNCHANGED <<objects, count, bound, command, memory>>

Remap ==
    /\ phase = "remap"
    /\ \/ /\ cursor <= count
          /\ objects' = [objects EXCEPT ![cursor].deps = {remap[d] : d \in @} \ {0}]
          /\ cursor' = cursor + 1 /\ UNCHANGED <<phase, marked, surviving, remap>>
       \/ /\ cursor > count
          /\ phase' = "idle"
          /\ cursor' = 0 /\ marked' = {} /\ surviving' = 0 /\ remap' = [s \in Slots |-> 0]
          /\ UNCHANGED objects
    /\ UNCHANGED <<count, bound, command, memory>>

SweepStep == MarkRoots \/ Propagate \/ DestroyUnmarked \/ ResetDestroy \/ Compact \/ Remap

Operands == {S \in SUBSET held : Cardinality(S) <= MaxFanIn}

Next ==
    \/ \E n \in Names \cup {NoName} : Begin(n)
    \/ \E n \in Names : ReadBinding(n) \/ ClearName(n)
    \/ \E b \in Blocks : \/ \E S \in Operands : PublishObject(b, S, {}) \/ DeclareObject(b, S)
                         \/ \E x \in Names : PublishChart(b, x)
                         \/ PublishPart(b) \/ EditObject(b)
    \/ \E v \in held \cup {None} : Finish(v)
    \/ BackendFails \/ BindRefused \/ ClearAll
    \/ SweepStep

Spec == Init /\ [][Next]_vars

-----------------------------------------------------------------------------
(* Properties. *)

Phases == {"idle", "eval", "mark", "propagate", "destroy", "reset", "compact", "remap"}

\* The environment, the command and the sweep keep their types.
TypeOK ==
    /\ objects \in [Slots -> Entries \cup {Free}]
    /\ count \in 0 .. MaxObjects
    /\ bound \in [Names -> Values \cup {Unbound}]
    /\ phase \in Phases
    /\ target \in Names \cup {NoName} /\ held \subseteq Pointers
    /\ status \in {"ok", "failed"} /\ value \in Values /\ edited \subseteq Blocks
    /\ marked \subseteq Slots /\ cursor \in 0 .. MaxObjects + 1
    /\ surviving \in 0 .. MaxObjects /\ remap \in [Slots -> 0 .. MaxObjects]
    /\ heap \subseteq Blocks /\ refs \in [Blocks -> SUBSET Blocks]
    /\ pool \subseteq Blocks /\ declared \subseteq Names \cup {NoName}

\* While no object has moved, dependencies point to earlier slots only: the
\* single downward pass of the mark loop and the destruction order rest on it.
DependenciesPointBack ==
    phase \notin {"compact", "remap"} => \A s \in Used : objects[s].deps \subseteq 1 .. s - 1

\* Blocks that exist never point to blocks that were freed, not even between
\* two destructions: forms die before manifolds, manifolds before charts.
UsersDieFirst == \A b \in heap : refs[b] \subseteq heap

\* Whatever a binding or the returned value names is still allocated.
RootsAreAlive ==
    phase = "idle" => \A p \in Roots \ {None} : Block(p) \in heap

\* phy_env_validate after every command, also a failed one: no pointer is
\* listed twice, dependencies point back, every bound object is in the table.
EnvValid ==
    phase = "idle" =>
        /\ \A s, t \in Used : objects[s].ptr = objects[t].ptr => s = t
        /\ \A p \in Roots \ {None} : \E s \in Used : objects[s].ptr = p

\* At every step of every sweep and reset the table's dependencies point back
\* until entries move, and between commands it is as phy_env_validate wants it.
TableIsSound == DependenciesPointBack /\ EnvValid

\* After a sweep nothing is kept that no binding, no result and no other
\* object needs, and nothing allocated is missing from the table.
NoGarbage ==
    phase = "idle" =>
        /\ \A s \in Used : \/ objects[s].ptr \in Roots
                           \/ \E t \in Used : s \in objects[t].deps
        /\ heap = pool \cup {Block(objects[s].ptr) : s \in {t \in Used : objects[t].owned}}

\* Coordinate capture: no name is bound that a chart of the table uses.
NoCapture == \A s \in Used : objects[s].coords \cap BoundNames = {}

\* eval.h:100 "A failed command leaves the environment exactly as it was".
FailureChangesNothing ==
    (phase = "idle" /\ status = "failed") => edited \cap heap = {}
=============================================================================
