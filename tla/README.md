# A verification project for bf-compiler

`bf-compiler` translates programs of a small typed language (`.bfc`) into Brainfuck. Between the
two stands a continuation IR (CIR): every function is a set of continuations, each a straight
body of frame instructions and one terminator. The CIR is executed directly by a virtual machine,
which is the reference, and compiled to one flat Brainfuck loop that dispatches on a program
counter kept on the tape. A fast interpreter runs the result.

There is no concurrency in this code. What makes it hard is that a stack, calls, indirect memory
access and control flow are all played out by a pointer on a tape of cells, with nothing that
names the frame one is in, and that almost every optimisation rests on a cell *being zero* or a
value *being dead* somewhere else. The models are about these two things: protocols on the tape
that span several continuations, and optimisers that must not change what a program does.

Contents: [components](#the-system), [modules](#modules), [runs](#runs), [fairness](#fairness),
[proofs](#proofs), [findings](#findings), [what is left out](#what-is-not-modelled),
[plan](#plan).

## The system

    source --lexer, parser, macros, semantic--> HIR --lowering--> CIR --validate_program--+
                                                                                           |
       +--------------------- optimisation, inlining, frame allocation <-------------------+
       |
       +--> ContinuationVM                                        (reference execution)
       +--> layouts, portal plan, dispatcher, control, kernels --> BF IR --> optimizer --> text / RLE
                                                                                             |
                                                    reference interpreter, fast interpreter <+

| component (under `src/crates`) | state it keeps | operations | what makes it correct |
|---|---|---|---|
| continuation IR, validator (`cir/ir.rs`) | tables of functions, continuations, globals | `ContinuationProgram::new` | what it accepts never fails a lookup at run time |
| continuation VM (`cir/vm/mod.rs`) | stack of frames, globals, `AbiValue`, current continuation | one instruction, one terminator | activations are private and zeroed; results reach their caller |
| activation stack on the tape (`codegen/control.rs`, `transport.rs`) | heads, context fields, frame chunks, anchor bank | call, return, frame and global access | the tape implements the activations of the VM |
| dispatcher (`codegen/dispatch.rs`) | PC fields of the current context | one cycle: fetch, select page, select entry, run | exactly the body of the PC runs, whatever context it leaves the pointer in |
| numbering of entries (`DispatchEncoding`) | map from IDs to two bytes | `new`, `encode` | injective, never PC zero, both levels short |
| aggregate portals (`codegen/portal.rs`, `portal_plan.rs`) | protocol fields of each region, private buffer, route cells | start, resume, route, access | an access leaf by leaf does what the VM does at once |
| page accessor (`codegen/portal_page.rs`) | fields of every page portal | split, jump, resolve, return | every offset reaches its cell, no field is left on the way |
| frame allocation (`cir/frame_allocation.rs`) | work queue, liveness, interference, colours | `liveness`, `color`, `allocate` | no value is overwritten while it is needed |
| CIR control flow (`cir/optimizer.rs`, `structure.rs`) | the continuation graph, work list of reductions | thread, copy a branch, drop, structure | the program does the same; cycles of empty jumps keep one node; nothing is left to reduce |
| CIR passes on virtual values (`boundary_copies.rs`, `computation_graph.rs`, `value_placement.rs` and others) | facts per continuation (available copies, expressions, saved values) | one rewriting of a function each | the program does the same and is still valid |
| inlining (`cir/inline`) | the graph, result storage per call, identifiers in use | normalize, splice, materialize, hoist | an inlined body behaves as a call, in a loop too |
| layouts (`frame_layout.rs`, `static_layout.rs`, `regions.rs`) | offsets of values, aggregates, outbox, fields; place of globals and anchors; trees of soft continuations | plan, fall back to a smaller plan | no two things share a cell |
| instruction kernels (`codegen/instructions.rs`, `transport.rs`) | position of the emitter, temporaries in use | one instruction to commands | effect of the instruction, temporaries zero after it |
| fixed frames, direct regions (`codegen/static_frames.rs`, `direct_regions.rs`) | contexts at fixed places, gates | call, return, entry in place | a fixed frame is clean at entry, live once |
| BF IR, optimizer (`bf/ir.rs`, `bf/optimizer.rs`) | instruction list with sites | push and merge, clear, serialise | same input and output; lowest sites; exact ranges |
| fast interpreter (`bf-interpreter`) | tape, pointer, arena of instructions, statistics | parse, execute one instruction | cells, errors and counts of the command-by-command run |
| RLE sources, profile maps (`bf-profiling`) | runs, offsets | decode, encode | offsets name the command a reader sees |
| front end, CLI, reports, self-hosted compiler | | | not modelled |

`PROJECT.json` lists all of them with their files and what is missing from each.

**How they interact.** The validator is the contract between every producer of CIR (front end,
text format, passes) and both consumers (VM, code generator). The code generator calls no run-time
system: components of the generated program talk through cells. A body leaves a PC in `NextPc` of
the context it ends in, and the dispatcher finds it there; a call leaves a return PC in `ReturnPc`
of the callee, portals leave a resume PC in route cells; everybody leaves zero where somebody else
will add. The numbering is shared by dispatcher, control and portals.

**Hard behaviours** (each with its line under `hazards` of `PROJECT.json`): pointer position as
the only frame pointer; destructive tests whose remaining half runs in another context; reuse of
frames and portals that are taken to be zero; operands consumed at the last of several uses;
several steps in which an offset moves under the reader; counters that wrap; passes that decide
from liveness; closed forms (transfers, countdowns, comparisons) that stand for thousands of
commands and must fail where one of these would have failed.

## Modules

A line of `map` in `PROJECT.json` ties each definition to the source it models. Definitions whose
names carry an underscore (`Wiped_ContextOnly`) are wrong variants next to the right one; no
specification uses them, they serve to confirm that a property can see the error.

**The protocols of the generated program**, each over all programs.

- `AbiProgram`: what the VM and the code generator both take from a validated program and a frame
  layout. The program is not fixed: a continuation of `f` may do anything the validator allows a
  continuation of `f` to do. A state space over these modules is the union over all programs.
- `ActivationStack` (abstract): the activations of the VM. Frames have their own cells, start at
  zero, arguments are read before the frame exists, a result goes to `AbiValue` or the outbox.
- `AbiStack`: the same on the tape. Variables are heads, payload cells, the context the pointer is
  at, the frontier and the PC fields; an action is a piece of emitted code (one argument of a call,
  one cell of a result, the marking of a frame, one half of a dispatcher cycle). `ImplementsVM` is
  the refinement. One weakening of the VM is made explicit in the abstract module: a call may
  consume argument cells that are dead after it.
- `AtomicDispatch` (abstract) and `Dispatcher`: one step "the body of the PC runs", and the
  selection code executed instruction by instruction, including the tests that come *after* a body
  which has moved to another context.
- `DispatchEncoding`: `DispatchEncoding::new` over every set of identifiers.
- `AggregateAccess` (abstract) and `PortalAccess`: one atomic access, and the continuations of the
  portal protocol, chosen by the PC in the current context and by nothing the model remembers.
  `Emitted` says which sites the front ends emit; `MCPortalAccess` lets TLC confirm that those of
  the run are such.
- `PayloadResolver` (abstract) and `PortalPage`: one cell read or written at an offset, and the
  page accessor with its jumps.

**The continuation IR.**

- `ContinuationIr`: declarations and the acceptance conditions of `validate_program`.
- `ContinuationVM`: the VM on every accepted program, values left out, every lookup kept. A lookup
  that fails is the status `"fault"`.
- `FrameAllocation`: liveness, interference and colouring step by step, then an activation on
  virtual slots and on colours side by side. What a node computes is left open, so one behaviour
  stands for all bodies with the same reads and writes.

**The compilation of CIR.** Here cells have values and programs are given: `CirProgram` has their
instructions and terminators, the effects of each on cells (`effects.rs`), renaming
(`operands.rs`) and the edges between continuations.

- `CirMachine`: what a program prints on an input and how it ends, as an operator with `Fuel`
  steps, and how many continuations ran. It is the reference for the passes and for the generated code.
- `CirOptimizer`: threading of empty jumps with their cycles, copies of branches, reachability,
  new numbers; structuring of single-entry loops and diamonds (`structure.rs`) with its work list.
- `CirInline`: normalized results, splicing with and without forwarding of a wrapper's calls,
  projection of a changed caller for later sites, materialization, and prefixes hoisted into
  callers.
- `CirExpressions` (expressions, fusion, offsets, the computation graph) and `CirCopies`: the passes
  of `cir/pipeline.rs` on virtual cells, one operator on a function each. `CirLiveness` is the liveness they decide from,
  with dead writes and dead storage. Slots and intervals of aggregates become sets of cells.
- `CirCompile`: the state machine. `Select`, `Splice`, `Selected` and `Hoist` replace calls; then
  each pass is an action, `Simplify` to `Finish`, in the order of the code. Which of the eligible
  calls are worth replacing is decided by costs in the code, and by nothing here: every choice in
  every order is a behaviour.

**The generated program on the tape.** The protocols above take frames and instructions as
effects. These modules compile whole programs and run the result.

- `TapeLayout`: lanes, guards and chunks of a frame, globals, anchor bank, pool of fixed frames
  (which functions get one, and where), soft regions as trees with loop headers and numbered
  terminals, and the fallbacks (`Planned`) when something does not fit.
- `TapeCode`: operations of the emitter, the primitives of `transport.rs` and every instruction of
  `instructions.rs` as commands on cells. `go` and `shift` keep the emitter's idea of its position
  apart from where the pointer is.
- `RegionCode`: the code of one entry of the dispatcher: bodies, loops and terminals of a region,
  calls and returns between stack and fixed frames with their gates and breadcrumbs, callees and
  resumes entered in place.
- `GeneratedProgram`: a state is the tape between two turns of the dispatcher, a step is a turn.
  `Suspended` reads from the tape which activations there are, by return counters, and `TapeClean`
  says that nothing but theirs is on it. `Annotated` says which copies may consume their source
  (`lifetime.rs`).

**Brainfuck itself.**

- `BfMachine`: the reference interpreter, and plain and run-length encodings of a source.
- `FastProgram`, `FastInterpreter`: the fast representation, and its execution. After each
  instruction the reference is advanced by as many commands as the fast interpreter counted.
- `BfOptimizer`: instructions with sites, their two serialisations, the peephole optimizer;
  the program before and after runs side by side, a command each.

`MC*.tla` hold the values of constants; `*Proofs.tla` the theorems, with `CommonLemmas`
for what they share: arithmetic, cardinalities, and sequences of instructions.

A constructor of a record or a one-line helper of an operator in `map` has no row of its own: the
row of the operator that uses it names the lines.

Composition: `AbiStack` takes selection as one step, `Dispatcher` shows that it may; `PortalAccess`
takes the access to a cell as one step, `PortalPage` shows that it may; `PortalAccess` takes
navigation between contexts for granted, `AbiStack` shows that it works. The cuts are where the
code itself has a function with a stated contract. `GeneratedProgram` makes only one, the selection of an
entry, which `Dispatcher` has, and in exchange runs only a few programs; `CirCompile` ends where `FrameAllocation` begins.

## Runs

Invariants and properties are explained where they are defined. Bounds:

| run | checks | bounds, and why they suffice |
|---|---|---|
| `abi_stack` | tape shape, navigation, and refinement of `ActivationStack` | three functions of two frame sizes, so contexts fall on both phases of an anchor bank of two; `Capacity = 9` leaves room for three live frames, so a return goes to a frame that is itself suspended, and chunks are reused by a frame of other length; both parameters of one callee are the same cell; cells modulo 2 |
| `dispatcher` | refinement of `AtomicDispatch`, clean selector cells, every cycle ends | every set of entries over six PCs in three pages: one, two and three pages, consecutive or with a gap, with and without a zero low byte; two contexts, so that a body ends above and below the one it started in |
| `dispatch_encoding` | injective, in range, never zero, dense | `Base = 4` instead of 256; up to nine of the possible identifiers, so one, two and three pages and a dense and a sparse numbering occur |
| `portal_access` | refinement of `AggregateAccess`, fields and buffer clean, every access ends | arrays of up to three cells with `CellBase = 2`: the low offset cell wraps inside an object; frame and global regions; both return protocols; offset cells that die, are the value, or lie in the payload; `BufferCells = 2`, the widest object of the sites |
| `portal_access_overlap` | a counterexample, see findings | as above |
| `portal_page` | refinement of `PayloadResolver`, portals clean, requests end | digits of base 3, hence nine pages and two levels; jump tables of size 0, 1 and 4, so digits below, at and beyond the table; two requests in a row |
| `continuation_vm` | no fault, callers ready, frames keep their shape | declarations over three functions with regions of one or two cells, eight lists of parameters and every kind of result, rejected declarations among the candidates; depth 3 |
| `fast_interpreter` | state, input, output and count of the reference after every instruction; same error at the same place | every loop body of up to three short pieces, nests of two and three counting levels, the comparison and transfer idioms, tape of six cells so that every idiom can stand at either end; `Modulus = 16`; each optimisation disabled in turn |
| `bf_optimizer` | same run, same termination, sites, ranges | programs of up to three instructions with one level of loops, cells modulo 8 (odd and even steps differ as they do modulo 256), moves up to `MaxMove` so that merging overflows; at most two outputs are compared |
| `frame_allocation` | exact liveness, operands agree, the pass ends | an entry and three nodes over three slots, four flows of control, with and without parameters, the last slot a scalar or an aggregate; 2.3 million states |
| `cir_compile` | same output and end, valid, structuring and threading complete, after every step | 29 pieces, each made for one decision of one pass (a fact that holds on one path only, a loop that carries a value, a wrapper, a recursive callee, a callee whose entry is in the middle of a cycle of empty jumps, a stride that wraps, ...), alone and in pairs of `First` and `Second`; every order of up to `MaxSpliced = 3` inlined calls; four inputs; `Byte = 16` keeps the wrap of a byte in reach of every stride from 2 to 8 |
| `generated_program` | same output, clean tape, paced, disjoint layouts | seven programs: all instructions (with loops and choices in each other), soft control with nested loops and shared joins, recursion that calls fixed callees with local and global arguments, fixed frames alone, aggregates of several pages (laid out only), a function too large for a fixed frame; each under up to seven combinations of the options (regions, fixed frames, anchor bank, nibbles, comparison in place, direct entries with and without limits), two or three inputs, so that branches go both ways |

Deadlock is checked except where a run ends on purpose (`continuation_vm`, `portal_page`,
`fast_interpreter`, `bf_optimizer`, `frame_allocation`, `cir_compile`, `generated_program`). `abi_stack` and `dispatcher` have an
explicit action for the halted program, so for them "no deadlock" means that emitted code is never
stuck.

Constants that are only bounds: `Capacity`, `MaxDepth`, `MaxContexts`, `MaxAccesses` (how deep or
how often), `MaxSize`, `MaxArrayCells`, `MaxAggregateCells`, `MaxByte`, `MaxOffset` (limits of the
validator made small), `Base`, `CellBase`, `Modulus`, `Digit` (256 or 16 in the code), `MaxId`,
`TapeLen`, `MaxOutput`, `MaxRaw`, `MaxBody`, `ScanBatch`; `Fuel`, `MaxTurns` (steps of a run, passes
of one loop), `MaxSpliced`; and, small in `generated_program` so that each limit is met, `Byte`,
`Bits`, `PageCells`, `TapeCells`, `BankAnchors`, `MaxTerminals`, `MaxExpanded`, `MaxNesting`.

## Fairness

Generated code has no scheduler: while the program is not halted, the next command is executed.
Fairness is therefore weak, and only on actions that are emitted code: the dispatcher
(`Field \/ Loop \/ EndCycle \/ Body`), the portal protocol (`Protocol`), the accessor (`Step`).
It is *not* assumed of the program's choices: nothing says that a program ever makes an access, and
`AbiStack` and `ContinuationVM` have no fairness because nothing promises that a program ends. In
`FrameAllocation` the three actions of the compiler pass are fair and those of the compiled
function are not. In `BfOptimizer` both machines go on until they stop.

`CirCompile` and `GeneratedProgram` have none. Runs are compared with fuel: a run that uses it up
counts as endless, and is compared by its output so far. In place of liveness, `Paced` bounds the
turns on the tape by the continuations the program runs (passes of loops within one are not
counted): a program that stops, stops on the tape.

## Proofs

`tlapm` checks eight modules. The theorems hold for every value of the constants that satisfies
the assumptions named in the modules, which TLC evaluates in the runs. The invariants
`TransitInv` and, of `PortalAccessProofs`, `IInv` and `Data` were checked by TLC on the states of the
runs before they were proved; those of `DispatcherProofs` and `PortalPageProofs` range over all sets
of configurations and cannot be evaluated.

- **`AbiStackProofs`** — `TypeCorrect`, `FlagLaneHolds`, `NavigationHolds`, `FreeTapeHolds`,
  `TilingHolds`, `CodeMatchHolds`, `SuspendedHolds`, from `InvHolds`. Assumptions: parameters and
  outbox lie in the storage of their frame, the entry of a function is its own, the tape holds
  `main` (`ProgramAssumption`, `LayoutAssumption`, `ResultAssumption`, `TapeAssumption`). None of
  the invariants is inductive alone. A return moves by the size of the frame of the function *whose
  code runs*, so it needs that code and frame match; that in turn is read from a return PC stored
  in the context of a suspended frame, which survives only because frames do not overlap and stores
  stay in their own frame; a call adds its arguments to chunks that must be zero, and marks them
  afterwards. The invariant `Inv` is the conjunction, with the state of a call or a return that is
  half done (`PendingOK`).
- **`AbiStackProofs`**, second part — `TapeImplementsVM`: the tape implements the activations of the VM, for
  every program, layout, anchor bank and tape length; `TransitHolds` is its invariant. The VM calls
  and returns in one step, the emitted code copies one argument or one cell of a result per step.
  Only the *last* step of a call or a return is visible; until then the mapped stack is the one the
  terminator found (`vmStack`). `TransitInv` relates it to the tape meanwhile: which arguments have arrived and with which values, which sources were consumed (only
  cells that are dead after the call), that the chunks above the frontier hold nothing else, and
  what a return has delivered of its result.
- **`ContinuationVMProofs`** — `ValidatedDoesNotFault` (with `TypesHold`,
  `ReturnsFindTheirCaller`, `FramesKeepTheirShape`, `HaltsInMain`). The validator looks at a
  declaration once, the VM looks at a frame later. The link is that frames keep the shape their
  function declares although arguments *replace* the vectors of aggregates, and that the function
  of the current continuation is that of the top frame.
- **`FrameAllocationProofs`** — `SharingIsSound`, `LivenessSolved`, `ColoringIsProper`,
  `TypesHold`, for every graph, every order of the work queue and every colour choice `Given`
  admits. A node whose liveness equation may not be satisfied yet is in the queue (`Solved`), and a
  visit only adds (`Founded`); hence when the queue is empty liveness solves its equations
  (`LivenessSolved`); hence colours differ where they must (`Proper`); hence all *live*
  slots agree (`Agree`), and the operands of a node are live. `OperandsAgree` alone is not
  inductive: a value read later is not an operand now. The equations may have more than one solution;
  `LivenessIsExact` says which: what the queue has computed is live on some path, and what some
  path reads is computed. A shortest path to a read takes the place of an induction over paths.
- **`DispatcherProofs`** — `SelectionHolds` and `DispatchIsAtomic`, for every set of entries, every
  base and every depth of calls. What is left of the selection code is a tree of loops, and no
  invariant can list its shapes. `Leads(x, y)` says that the instructions of configuration `x` work
  on the four selection fields alone until, if ever, `y` is reached: there is a set that holds `x`
  and is closed under such steps, up to `y`. It is proved backwards over the code, one lemma per
  construct, as one computes a weakest precondition (`DoAdd`, `DoWhile`, `GateOpens`, `GateShut`,
  `EqualityTests`, `CountdownReaches`, `SelectReaches`, `CycleReaches`); that a step keeps it is its
  definition. The lemmas on `Countdown` and `Equalities`, which are recursive functions, go by the
  least level that fails. What makes the selection right is that the code *after* a body falls
  through when the body has moved to another context, whose selection fields are zero
  (`Passing`). Hence the invariant `IInv`: every suspended context has its selection fields clear
  (`Waiting`), and the cycle is choosing, ending, between two cycles or over. The refinement follows
  step by step: only the body changes the mapped stack.
- **`DispatchEncodingProofs`** — `EntriesIdentified` and `CountdownsShort`, for every set of
  identifiers and every base. Ranks are cardinalities of sets of smaller identifiers; they grow
  strictly, hence are different, and being as many as there are identifiers they fill `1 .. Count`.
  The width of a dense numbering is the least one whose square exceeds the number of entries, so a
  countdown stays below the square root plus one; the reversal is a bijection of the occupied range.
- **`PortalAccessProofs`** — `PortalsStayClean` and `PortalsImplementAccess`. For the first, `IInv`:
  where the request under way is (route cells, portal, or on its way back), that the PC to resume at
  is there with it, which leaf it is for, and which buffer cells have been used up. A router *adds*
  to the fields of a portal, so it needs all of them zero when it runs, which nothing local to it
  says. For the second, `Data`: what the request carries, what the buffer holds, and what the cells
  hold, all in terms of the site and of the memory the access found. After leaf `k` a load has
  changed no cell but those of `Loose` and `Moving`, a store exactly its first `k` targets; the
  offset is that of leaf `k` in two digits, unless a dying digit was used up by the last request.
  The hypothesis `SitesEmitted` is what the front ends guarantee and the validator does not ask for:
  no cell of the payload is one that the protocol uses up or increments. Lowering puts the offset of
  an object into fresh scalars (`lowering/mod.rs` 1330-1375), `portal_offset.rs` excludes aliases of
  the payload, and no front end loads into `AbiValue`. Without it the theorem is false, see
  `portal_access_overlap`.
- **`PortalPageProofs`** — `PagesStayClean` and `PageAccessIsAtomic`, for every size of a digit
  (hence of the jump table) and of a page, every largest region and every offset. The code is again a tree of loops,
  but some of its instructions move the pointer to the portal of another page, where the loops then
  read different cells. The state of the argument is the page, the fields of its portal and the
  payload, and all other portals are zero; a jump is `Allowed` only if every field it does not take
  along *is* zero. `Runs(c, s, t)` says that the code `c`, whatever follows it, works its way from
  `s` to `t` by allowed steps; it is built on a closed set as in `DispatcherProofs`, and composed
  with one lemma per construct. `CountdownLevels` shows that the recursive function of a countdown
  exists, `CountdownHits` that a listed distance is jumped once and the levels above it fall through
  on the way out, because `Branch` and the selector are zero at the page the pointer has come to;
  `CountdownBeyond` and `WalkRuns` treat a distance past the table. `SplitRuns` computes the two
  digits of an offset, `AccessorRuns` goes there and back. The invariant `IInv` says that a request
  under way leads to its answer at the home page, and that otherwise the portal is at rest with
  nothing but `Value`. The history `begun` maps the accessor to `PayloadResolver`. Assumptions
  (`PortalPageAssumption`): a digit has at least two values, a page holds at least one cell and at
  most `Base`, and the mark `None` of the history is not itself a request.

`TypeCorrect` and `HaltsInMain` are proved and not run: they say little by themselves, and the
other theorems rest on them.

Only model-checked: all liveness properties (`CyclesEnd`, `AccessEnds`, `RequestsEnd`, `EndsAlike`,
`Settles`), as liveness under fairness is out of the prover's reach; and all of `BfOptimizer`, `FastProgram`, `FastInterpreter`, the CIR
passes and the modules of the generated program, whose programs are trees and need recursive
operators.

## Findings

One program that `ContinuationProgram::new` accepts the VM and the generated code treat differently.
The front ends do not emit it.

- `portal_access_overlap`: an `AggregateLoad` of several cells from a region that contains its own
  offset cells. `ir.rs:555-557` says the cells are "copied atomically"; the code generator
  increments the offset between leaves, and a later leaf reads the incremented cell.

## What is not modelled

- *Front end* (lexer, parser, macros, semantic analysis, lowering) and *text format of CIR*: what
  they produce passes through the validator, and all that comes after holds for what it accepts.
- *The body as a graph* in `FrameAllocation`, which takes the graph of a function as given;
  `build_body` treats a full initialisation or a full run of field copies as one write.
- *Costs*: budgets and estimates of inlining, hoisting and branch copies, and the order of
  candidates. Every choice is allowed instead. Source positions, statistics and counts.
- *In the generated program*: portals are laid out but do not run there (`PortalAccess` and
  `PortalPage` have them, over a stack they take for granted); the unlimited tape
  (`check_capacity` is on); the experimental bindings of parameters (`BFC_EVAL_DIRECT_BINDINGS`);
  the interning of sites.
- *In portals*: inline contexts of fixed frames, nibble transport, scaled offsets on the tape.
- *In the interpreter*: profiling, sampling, progress, and profile maps.
- *VM metrics, cell API, command lines, reports, scripts, the self-hosted compiler*: pure input and
  output, or a second program.

## Plan

What was planned first is done: the protocols of the generated program, the VM and its validator,
brainfuck, the passes of CIR and inlining, fixed frames and instruction kernels. Further work, most
important first:

1. Portals in `GeneratedProgram`: the continuations of `PortalAccess` as entries, with contexts of
   fixed frames, and the cells of the portals in `TapeClean`.
2. Proofs: `CirLiveness` on a graph with its fixpoint as a set, without
   recursion, to which the argument of `FrameAllocationProofs` would carry over.
3. `build_body` in front of `FrameAllocation`, so that `CirCompile` goes on to physical slots.
4. Lowering: the split of a function body at calls and dynamic accesses, against a semantics of the
   source language.
