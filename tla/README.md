# Phy-nspire: specifications, model checks and proofs

Phy-nspire is a computer-algebra and tensor-calculus notebook for the TI-Nspire
CX II. It is one process with one thread: an event loop hands keys and pointer
events to the app shell, the shell edits and evaluates a notebook, the notebook
evaluates its cells in an environment of named mathematical objects built over
an interned expression graph, and a storage layer keeps notebooks in the
calculator's flash file system. There is no concurrency in it; what makes it
hard is failure in the middle (any allocation or file operation may fail, and
every budget is small), state that outlives the operation that made it
(borrowed objects, stale results, half-taken-back requests), long sequences of
legal calls, and algorithms whose signs and borders no example pins down.

Throughout, "source" paths are relative to `src/`, the repository's root.
Contents: [Inventory](#inventory) - [Modules](#modules) - [Runs](#runs) -
[Proofs](#proofs) - [Findings](#findings) - [Observations](#observations) -
[Not modelled](#not-modelled) - [Plan](#plan).

## Inventory

| Part (source) | State it keeps | Operations | Hard behaviour | What makes it correct |
| --- | --- | --- | --- | --- |
| storage (`src/platform/*/storage_*.c`, `src/storage/`) | the notebook directory, two scratch leaves, the 16-name catalog | list, read, write atomically, suggest a name | every library call may fail, the device may reset; the two renames are two steps | a save replaces the file or leaves it; PHY_OK means it is there |
| workspace (`src/notebook/workspace.c`) | the notebook, its file name | new, open, save, save as | failure after half the work | clean means stored |
| app shell (`src/app/app.c`) | view, pending request, edit name, catalog | menus, prompts, keys, pointer | a request that waits for an answer while other things happen | no unsaved work dropped unasked, no file replaced unnamed |
| notebook (`src/notebook/notebook.c`) | cells, selection, editor, dirty flag, execution counter, IR context | insert, edit, run, run all, rebuild | positions move under the selection and the editor; a saturated context is rebuilt in the middle of a replay | outputs under their inputs, no stale result shown as current, replay ends |
| document codec (`src/notebook/document.c`) | the PHYNB001 bytes | serialize, deserialize | texts that no longer parse, records that look truncated | what was saved opens again |
| evaluator (`src/eval/`) | object table, bindings, dependencies, named spaces and heads | evaluate, bind, clear, reset, sweep; the heads of its language | objects that borrow from each other, compaction, a failed command, chains of heads | nothing freed while it is used, nothing leaked, no captured coordinate, one chart and one algebra per object |
| expression IR (`src/ir/`) | pools of nodes, payloads and symbols, two hash tables, byte account, sticky error | intern, assume, declare, the builders, compare, read, write | failure between payload and node; order over inline and promoted numbers | one node per structure, nothing orphaned, a total order, limits kept |
| exact arithmetic (`src/exact/`) | list of live integers, byte and step account | integer, rational, Gaussian, algebraic, ball arithmetic | carries and borrows, limb limits, rounding outwards | values right, operands intact, the value inside its ball |
| CAS (`src/cas/`) | memo table, scratch arena, steps | simplify, differentiate, integrate, polynomials, solve | memoized results and changed assumptions, budgets | equality preserved, budget respected |
| linear algebra (`src/linear/`, `cas/linear_solve.c`) | matrices of refs | elimination, inverse, determinant, systems | a pivot whose zero test is undecided | right for every value of the parameters, or refused |
| permutations (`src/permutation/`) | generators, strong generators, order | Schreier-Sims, membership, orbits | signed groups in which the identity has sign -1; a build cut short | the chain spans the group generated |
| tensors (`src/tensor/`, `src/component/`) | symmetry groups, component tables, bases, maps, atlas | declare, assign, read, transform | orbits with both signs, cocycles checked after insertion | reading gives what was assigned, results do not depend on the path |
| abstract tensors (`src/abstract/`) | index spaces, heads, monomials, tableaux | canonicalize, add, multiply, project | dummies renamed, searches pruned, two routes to one form | one canonical form, or zero |
| geometry, GR, Lie, QFT (`src/geom/`, `src/gr/`, `src/lie/`, `src/qft/`) | tables of refs | forms, curvature, brackets, gauge fields, colour and gamma strings, diagrams | signs, short cuts through symmetries | algebraic identities; each short cut agrees with the long way |
| input, platform (`src/input/`, `src/platform/`) | pointer and modifier latches, event queue of 32, heap account | sample, poll | events dropped, remainders carried | every press is seen once |
| graphics, layout (`src/gfx/`, `src/render/`) | a frame buffer | draw | none for the program's state | - |

How they call each other: the app shell owns a workspace; the workspace owns a
notebook and calls storage; the notebook owns an IR context and an evaluator,
both destroyed and made anew by `rebuild_context`; the evaluator owns the
objects and calls the tensor, geometry and physics parts; all of these build
expressions through the CAS, and the CAS through the IR builders. Errors travel
up as status codes; the IR context also keeps the first one until it is cleared.

## Modules

PROJECT.json's `map` names, for the definitions of a module, the lines each
translates; a helper whose lines another definition of its module already names
is not listed a second time. An operator introduced by `\* Variant:` is a plausible
slip in the definition that follows it; it is used by no action and serves to
show that a property would notice (PROJECT.json, `mutants`).

```
 state machines                                   algorithms
 AppShell --INSTANCE--> NotebookStore             Accumulate   (loops as folds)
 AtomicSave --refines--> NotebookStore             +- ExactNumbers  FinitePoly  Linear  Balls
 NotebookDocument --EXTENDS--> Notebook            +- Scalars - Curvature - Forms - Lie - YangMills
 EvalEnv    EvalHeads    IRIntern                  |     |          |         +- Atlas     +- Color
 PermGroup                                         |     +- Kinematics - Dirac, Phi4
                                                   +- TensorSymmetry - ComponentTensor
                                                   +- AbstractTensors - YoungTableaux - ComponentValues
 proofs:  AtomicSaveProofs  NotebookProofs  AppShellProofs
          EvalEnvProofs  EvalHeadsProofs  IRInternProofs      EXTEND their module and TLAPS
          IROrderProofs EXTENDS IRInternProofs     PermGroupProofs
 checks:  MCProgram = AtomicSave + AppShell + NotebookDocument
          MCEvalEnv = EvalEnv + EvalHeads      MCIRIntern = IRIntern
          MCAlgebra = ExactNumbers, FinitePoly, Linear, and MCBalls (Balls)
          MCGeometry > MCQuantum                  MCAbstract = ComponentValues
          MCTensors = ComponentTensor + Atlas + PermGroup
```

### The program

**AtomicSave** - `phy_storage_write_notebook_atomic` of the Ndless backend,
one action per file operation: probe, removal of stale leaves, open, write and
close, read back, move aside, install by rename, and the three fall-back paths
(copy in place, restore, keep the backup). `pc` is the next operation and `job`
the copy it belongs to. Every call may fail, a failing call spends one unit of
a per-save budget `MaxFaults`, and a crash may stop the save anywhere. `fs` is
what the directory holds; a file is absent, a whole document, or `Torn`.
Renames take effect in the order they are made; a rename onto an existing file
may fail at no cost, since not every target file system replaces one. After a
reset between the two renames no file is under the notebook's name, but the
backup leaf holds it: `PreviousKept` says so of the notebook being saved. It says
nothing of later: nothing at start-up reads scratch leaves, and the next
replacement of any notebook begins by removing the backup leaf
(`storage_ndless.c:316`), which may by then be the only copy of another.

**NotebookStore** - what the above promises: a save replaces one notebook as
a whole or changes nothing. The host backend is this specification.

**AppShell** - the event loop and the workspace: every view, every request
and every answer, the six operations of the workspace with their failures, and
the files. A draft stands for the content of the cells (Notebook has those);
which row of a list is highlighted is left out, since the arrow keys reach each.
`asked`, `agreed` and `typed` are history variables: what the user last asked
for and did not take back, whether Discard was chosen, and whether the name in
the Save As view was typed. The two exits that ask nobody are named `Forced`:
PHY_EVENT_QUIT over a modal view (no platform raises that event) and a display
that cannot present a frame.

**Notebook** - cells, selection, editor, evaluation, `rebuild_context` and
Run all. A text is its length; positions count from 1 (from 0 in the code); an
evaluation may parse or not, succeed or not (with or without a canonical text),
and may saturate the context. `rebuild_context` discards the status of carrying
each expression over, so which of them survive is any subset of those whose text
it can have.
`context` names which IR context is alive, in rotation over two names, so that
an expression left over from a destroyed one is seen. Run all is a loop in the
code and one action per iteration here; while `replay` is not 0 nothing else is
enabled.

**NotebookDocument** - adds the stored document, `Save` and `Load`. A record
keeps what `write_record_header` keeps; a load may find any subset of the texts
unreadable. Two specifications: `SessionSpec` (no storage) and `DocumentSpec`.

### The evaluator

**EvalEnv** - the object table with its bindings; commands that publish
objects, borrow parts of them, declare spaces, edit in place and fail; and the
sweep, one action per iteration of its mark, destroy, compact and remap loops.
`heap` and `refs` are the allocator and the pointers between blocks, which the
code never has in one place: they are what a dangling pointer is stated with.
Commands here may build anything; which heads build what is the next module.

**EvalHeads** - the heads of `dispatch.c` that take or make objects: the kinds
of operands each accepts, what it checks of them, what its result holds the
address of, and which operands it records as dependencies. An object is a kind
and a number; parts (the algebra of a group, the Ricci tensor of a bundle) have
an owner and are freed with it. The sweep is one step (EvalEnv has its steps).
A session stays within one topic, a set of heads whose results feed each other.

### The expression graph

**IRIntern** - the context of `ir.c` and the order of `order.c`: pools that
double under a byte budget charged at the peak, symbols and nodes in hash tables
that grow or, failing that, carry on; the builders for every kind, with
flattening and sorting; declarations. An allocation may fail whatever the budget
says. A ref is a position, so the sentinel at 0 is the null ref. The hash is a
number of the structure and collides often, as the properties must not depend
on it. Abstracted: the sticky status is pending or none; digits of promoted
numbers count for one byte each side; reals are three values and "not finite".

### Numbers, fields and matrices

**ExactNumbers** - integers as limbs with the schoolbook algorithms of
`integer.c` (carries, borrows, shifts, division bit by bit), rationals and
Gaussian rationals with the chains of error checks around them. **FinitePoly** -
polynomials over a prime field: division, gcd, square-free and distinct-degree
parts, Berlekamp's splitting. **Linear** - elimination with pivots that must be
proved nonzero, determinant, inverse, null space, systems with a parameter.
**Balls** - rational intervals, `ball.c`: arithmetic and the elementary functions
with their argument reductions, series and remainder bounds, rounded outwards.

### Tensors and geometry

**Scalars** stands for the CAS below: a component is the Taylor expansion, modulo
a prime, of the expression the code keeps, and the CAS calls are what they mean
to their callers. **Curvature** (`tensor/ops.c`, `gr.c`), **Forms** (`geom/`),
**Lie**, **YangMills**, **Kinematics** (`lorentz.c`, `mandelstam.c`), **Color**,
**Dirac** and **Phi4** (`scalar.c`) translate the algorithms over them, each short
cut and each rewriting as it is written. **TensorSymmetry** and
**ComponentTensor** are the two ways components are stored along the orbits of a
slot group, **PermGroup** the Schreier-Sims construction of such a group (a state
machine: one action per call, and within a build one per pass), **Atlas** the maps between charts with the cocycle check and its roll-back.
**AbstractTensors** has monomials with dummies and both canonicalizations, the
pruned search and the double coset; **YoungTableaux** the projectors and the
Garnir rewriting; **ComponentValues** what a monomial is worth in components.

## Runs

Deadlock is checked except in `evaluator` and `tensors_store`, whose sessions
may end. Times are with two workers.

| Run | Question | Bounds, and why they are enough |
| --- | --- | --- |
| `program_keeps` (1,006,565 states, 169 s) | five sides of one umbrella module: can failing calls or a crash destroy a saved notebook, or PHY_OK lie? does the save implement NotebookStore? can work be lost unasked, a withdrawn request fire, a file be replaced unnamed? do outputs, numbers, editor and Run all agree, and does Run all end? does clean mean stored, and does what is saved after Run all open again? | *disk*: 2 notebooks, 2 documents, 5 failing calls per save, more than the longest path has alternatives for. *orderly*: 2 failing calls after a reliable probe; a third can leave a torn file. *shell*: 3 names (two suggestions, one typed), 2 drafts, a catalog of 3. *session*: 4 cards, two inputs with outputs, so that a rebuild under the second discards the first. *document*: 2 cards, loads with unreadable texts |
| `evaluator` (1,413,850 states, 220 s) | does the sweep ever free what is used, keep garbage, capture a coordinate? does any chain of heads leave an address behind or mix charts? | *table*: 3 blocks and slots, 2 bindings over 3 names, fan-in 2: a chain of three with one in the middle to free and a successor to move down. *heads*: fifteen topics, chains of up to four objects, names rebound in between |
| `ir_builds` (111,516 states, 190 s) | is the graph canonical and accounted for after every failure? | three callers: sums of symbols and numbers of up to four nodes, one node of every kind, powers up to the depth limit; tables of two buckets double at once; 64-bit integers are -3 .. 2 |
| `numbers_agree` (25,118 states, 92 s) | does each algorithm give what arithmetic gives? | limbs of four bits, up to three, whose digits are 0, 1, half or all of the radix: every carry and border; polynomials over the fields of 2, 3 and 5; matrices over 5 elements with a parameter; balls at halves and quarters |
| `geometry_agrees` (6,907 states, 105 s) | do curvature, forms, gauge fields, amplitudes and gamma strings satisfy their identities, and each short cut give what the long way gives? | six metrics in 2 to 4 dimensions, forms of every degree, twelve algebras, three kinematics, colour words and traces of up to four generators against Pauli and Gell-Mann matrices, gamma strings of up to four factors against products of blades, graphs of up to four vertices against Wick contractions |
| `tensors_store` (8,692 states, 92 s) | is what is read what was assigned, a built group the one generated, a result independent of the path between charts? | ranks 2 to 4, eight symmetries, three charts, every group of up to two signed generators of four points, built pass by pass and abandoned anywhere |
| `abstract_agrees` (1,110 states, 125 s) | do canonical forms decide equality, and agree with components? | monomials of up to three factors in spaces with a symmetric, an antisymmetric and no metric, pairs of them, tableaux of up to four cells |
| `save_failure`, `document_reopens`, `document_unsaveable`, `app_full_directory`, `dirac_difference` | see [Findings](#findings) | one property each, violated |

In the umbrella modules `side` names the part a behaviour is about; the others
keep their initial values, so the state spaces add up instead of multiplying.
Where a run checks algorithms, a behaviour chooses an input, an operand at a
time, and ends with a step `Conclude`; the properties are action properties
about that step, so each input is computed once.

Liveness: `ReplayConverges`, under weak fairness of `Replay` alone. The code
justifies it by construction: Run all is a loop inside one call, each evaluation
in it has a step budget, and no other action can be taken meanwhile.

What each property says stands above it in the modules. Those worth pointing
out: `UsersDieFirst` (no block that exists points to a freed one, between any
two destructions), `OperandsBelongTogether` (heads check their own operands
only; this is about chains of them), `RunAllKeepsTheUsersPlace` (cards inserted
by Run all move neither selection nor editor to another card), `PoolsAreExact` (a
pool holds exactly what nodes and symbols claim, so a failure between two
allocations left nothing), `NodesAreCanonical` (also across the inline and
promoted forms of a number), `CleanMeansSaved`, `CanonicalFormsDecide`.

## Proofs

Checked by TLAPS for every value of the constants that satisfies the modules'
named assumptions: 18,035 obligations, none left open. Each invariant is proved
by an inductive one, in three steps: it holds initially, every action keeps it,
it implies what is claimed.

| Module (obligations) | Theorems | The invariant, and why it takes more than the property |
| --- | --- | --- |
| AtomicSaveProofs (392) | `TypeCorrect`, `ReplacementKeepsPrevious`, `OkIsOnDisk`, `NothingTorn`, `OrderlyFailurePreserves`, `OrderlyRefines` | `IInv` adds `JobFitsStep` (a step belongs to the jobs the code reaches it with) and `CopyFitsStep` (which leaf must hold the previous document while each operation runs): `PreviousKept` alone does not say which copy the next operation may destroy. `FaultsFitStep` counts the failures it takes to be at a step; with it, a save with at most two failing calls tears nothing and implements NotebookStore (`OrderlyRefines`, step by step) |
| AppShellProofs (644) | `TypeCorrect`, `CleanIsStored`, `NothingLostSilently`, `OnlyWhatWasAsked`, `RoomyOverwritesNamed` | `PendingIsAsked` (a pending request is the one last asked for) and `OpenIsAgreed` (a dirty notebook behind the Open view was agreed to be given up). `RoomyOverwritesNamed` assumes `Roomy`, that the catalog lists every name: without it the property is false (`app_full_directory`) |
| NotebookProofs (3008) | `CardsStayTogether`, `OnlyNowShows`, `RunAllMovesNothing`, `ReplayFreshens`, `SavedIsClean`, `StaleResultsAlone`, `RunAllReopens`, and the types | `NotebookInv` is about any array of cards: `Shaped` (outputs under inputs), `Numbered` (execution numbers pair up and are below the next, by a pigeonhole argument for the space there is), `Living` (expressions of the live context only), `Told` (an edited source has a stale result), and while a replay runs, `Fresh` up to where it stands. `DocumentInv` adds what a stored record may be. `LastingInv` adds `Lasting`: a result without its tree is stale, so that Run all runs it again, and an input Run all skips has an error under it. A document may fail to reopen (`document_reopens`), but only for stale results, and never right after Run all |
| EvalEnvProofs (2095) | `TypeCorrect`, `NoDanglingReference`, `NoDanglingRoot`, `NoCapturedCoordinate`, `TableStaysSound`, `NothingKeptNeedlessly` | `Supported`: whatever an allocated object points to is reached through its dependencies, at an earlier slot that is still alive, wherever the sweep has moved it so far. `MarksClosed`, `HeapIsOwned`, `PoolIsClosed`, `RootsListed` are what the sweep's loops maintain. `TableInv` is about the table: why each entry is kept, and that only the first of two entries with one pointer is ever a dependency |
| EvalHeadsProofs (2294) | `HeadsInductive`, `NothingEverDangles`, `BelongTogether` | `HInv`: `Covered` (whatever an object holds is an owner's part, pooled, or reached through recorded dependencies, for each of some fifty heads), `Shaped` (which roles each kind has), `OneHome` (whatever is reached lives on the same chart and algebra). The closure of the sweep is a recursive function over a finite heap, reasoned about by well-founded induction on what is left |
| IRInternProofs (3417) | `PoolsStayExact`, `FailuresPublishNothing`, `EveryStructureHasOneNode`, `OneLevelIsEnough`, `PeakStaysWithinBudget`, `DeclarationsAgree`, `InternInductive` | `IInv`: records in order, both tables filed by hash through every growth, no name and no structure twice, numbers in lowest terms and inline if and only if they fit (Euclid's algorithm and Bezout's identity, for every integer), pools equal to the sums of what is claimed, bytes equal to the charge of the capacities, room for all that is filled |
| IROrderProofs (2349) | `NodesStayCanonical`, `ComparisonStaysTotal`, `OperandsStayCanonical`, `SignsStayInOrder`, `NodesStayBuilt` | `IInv` with `AllBuilt`: a node has the shape of its kind and, if it is a sum or a product, ascending children. The order of two nodes is a verdict on names, depths and the order of their children, so it is total because every node was built from nodes it is above, by induction on the refs compared; and a step, which only adds names and nodes, changes no comparison of what was there, so what was sorted stays so |
| PermGroupProofs (3836) | `GroupsStayGenerated`, `BuiltGroupsAnswer`, `StrongGeneratorsStayInside`, `GroupStaysTyped` | `GroupInv`: what a build holds is inside the group (`Inside`), and while a build runs nothing of the generators is lost (`Covered`), transversals are elements of the group filed where they take the base point (`Filed`), and a pass runs on the chain of the very list it extends (`Current`); once a whole pass has added nothing every round passes on that chain (`Finished`), and the order counts what sifts to the identity (`Counted`). See below |

`PermGroupProofs` is the correctness of `phy_perm_group_build_bsgs`, for every
degree, every list of signed generators and every limit. What a set of signed
permutations produces is defined as the least set that holds the identity and
absorbs them (`Products`); `GeneratedIs` shows that the closure the run computes is
that set. Each loop is a recursive function over its counter, and a lemma gives its
trace, all of whose states have what the loop maintains (`TransversalIs`, `SiftRuns`,
`RoundsAre`, `PassIs`). An element sifts to the identity only if it is a product of
representatives. For the converse, level by level from the last: if every
Schreier generator of a level sifts away (up to -1 when that is known to belong),
each product of the level's generators is a representative times a product of
the next level's (`ProductsSplit`, Schreier's lemma), so it sifts away
too (`MembersAre`). The same splitting makes the number of elements the product of
the orbit lengths (`LevelsMultiply`, `OrderIs`). The pass that ends a build has
added nothing, so the chain rebuilt afterwards is the one it was run on: this is
where an abandoned build, or a pass that still found something, would break it.

`AtomicSaveProofs!ReplacementKeepsPrevious` bounds neither failures nor crashes;
the runs do. `OrderlyRefines` states for any number of notebooks what the run's
`OrderlySavesAreAtomic` checks for two.

Model-checked only, and why:

* `ReplayConverges` is liveness under fairness; its safety half, that a replay
  that ends has left nothing out, is `ReplayFreshens`.
* Everything under "Numbers, fields and matrices" and "Tensors and geometry" except
  PermGroup: what a recursive definition computes of every input is an induction over data,
  which the provers cannot be given. There TLC compares each algorithm with a
  definition of what it should compute, over all inputs within bounds. (The loops of
  PermGroup count, which makes them provable by induction over numbers.)

## Findings

Each is a run in which TLC finds a documented property violated by what the
code does.

* `save_failure` - `regular_file_exists` takes every failed open for "no
  such file". With no file handle left the first-save path runs, its write
  fails too, and its clean-up removes the notebook that was there
  (`storage_ndless.c:301`; storage.h:49 promises preservation).
* `document_reopens` - a rebuild drops the tree of a result that does not fit
  the migration buffer, and of any the new context cannot read back (memory, limits:
  the statuses are discarded); the saved record then looks truncated and the
  whole document is refused (`notebook.c:575`, `580`, `document.c:284`). Running
  everything again before saving is the remedy (`RunAllMakesItReopen`).
* `document_unsaveable` - a canonical text that overflows `secondary` is left
  without its NUL; every save is refused until that cell runs again
  (`notebook.c:627`; notebook.h:5).
* `app_full_directory` - the catalog keeps the first 16 names, and the suggested
  name for a first save may be that of an unlisted notebook, which ENTER
  replaces (`storage.c:105`).
* `dirac_difference` - `clifford_node` reorders a gamma string but never takes
  out a contracted pair that is already in order, so `gamma^a gamma_a` and 4 are
  answered to be different, which dirac.c:1574 calls a proof (`dirac.c:1523`).

Without a run of its own: a command that declares an index space or head, or
edits an atlas, and then fails leaves the declaration behind
(`FailureChangesNothing` in EvalEnv is false; `dispatch.c:434` against
eval.h:100). What is checked and proved is that what stays behind is sound.

## Observations

Met while modelling; none contradicts what the documentation promises.

* Canonical terms name their dummies `_d0`, `_d1`, ..., and `canonical_product`
  (`young.c:691`) does not rename them apart: two expressions with a contracted
  pair each cannot be multiplied and are refused with PHY_ERR_TYPE (`Clash` in
  MCAbstract). Canonicalization flips dummies in metric spaces, so the component
  bridge can refuse a canonical form whose raw monomial could be evaluated.
* `lorentz.c`: a mass declared for an eliminated momentum is never used by
  `phy_lorentz_reduce`; a second kinematics over one metric replaces the
  conservation of the first. `phy_color_delta_contract` with equal indices
  multiplies without looking; a contraction by substitution leaves the slots of
  f and d unsorted.
* `scalar.c`: the tree amplitude carries minus the coupling and the weight of a
  graph its plain power; master integrals take the mass, not its square.
* After a reset in the middle of a save, a notebook may exist only as the backup leaf,
  which the next replacement of any notebook removes (`storage_ndless.c:316`).
* An atlas checks triangles. A loop of four charts without a triangle can be
  inconsistent.
* A lifted component tensor may rest on two charts with the same coordinate
  symbols (`component/bridge.c:43` compares symbols), and a sum of Lagrangians
  may mix gauge groups: `OperandsBelongTogether` speaks of objects that live on
  a chart or an algebra.
* Balls are outer bounds and not hulls: products go by midpoint and radius,
  remainders are rounded up, and a negative power may be refused although its
  ball does not contain zero.

## Not modelled

Drawing, layout, fonts and device I/O; the text of results; the bytes and CRC of
a document; which names are valid and their comparison without case; the source
language parser; the palette's table; the text reader and writer of the IR.
Of the mathematics: rewriting and simplification (`simplify.c`, `reduce.c`),
integration, limits, series, sparse polynomials, polynomial systems, algebraic
numbers, complex balls and special functions, and the memo table. Byte and step
budgets of the algebra layers are left out except where an action says that any
call may stop. PROJECT.json lists every component with its status.

## Plan

1. **AtlasProofs**, in the part that is a state machine: no call leaves an atlas
   with a triangle that does not commute.
2. **CasCache** (`engine.c`, `simplify.c:1643`): the memo table and assumptions
   declared since; **Input**: latches and the event queue at its limit.
