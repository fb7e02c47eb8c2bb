# TLA+ models of the OpenVCL compiler (TyraX fork)

OpenVCL reads VCL source for the PlayStation 2 vector units, gives its names
registers, schedules its instructions into rows of an upper and a lower one,
and prints the rows. It is one thread from end to end; what is hard about it is
that each pass moves instructions, registers or flags about under the passes
behind it, along branches that the passes see only as positions in a list. The
models therefore all have the same form: **the pass, step by step as the code
does it, and then the program it produced run along every path**, against what
the source program does on that path.

Line numbers are those of the files under `src/src/` unless a directory is
given. SA is `VuSchedulerAnalysis.cpp`, SR `VuSchedulingRules.cpp`, CG
`CodeGenerator.cpp`, RA `RegisterAllocator.cpp`, BS `BranchState.cpp`.

## 1. The system

Source text flows through these parts in this order. Each call returns before
the next one is made; they share the token list and about thirty process-wide
option variables (SR 626-1060).

| part | state it keeps | operations | what is hard | what makes it right |
|---|---|---|---|---|
| command line, main, errors | options, suppression flag | parse options, report | - | - |
| parser (`Parser.cpp`) | state machine over lines, includes, macros, conditionals | one line at a time; then allocate, generate | nesting, retries that change options | every attempt starts from the same tokens |
| expressions (`Expression.cpp`, `Math.cpp`) | operator and value stacks | evaluate a constant | precedence, arity | value of the usual reading |
| tokenizer (`Tokenizer.cpp`, `Token.cpp`) | token list, labels | one line to one token by operand patterns | - | one reading per line |
| instruction tables (`VuInstructionInfo.cpp`, `VuTokenResourceAccess.cpp`) | constant | what a token reads and writes | - | data |
| register allocator (RA, BS, `Alias.cpp`, `Dependency.cpp`) | branch states, aliases with live lines, chains, registers | walk, extend over loops, choose | every branch both ways; merging of what was already chained | a register read holds the value of its name |
| allocation options (RA 1717-3142) | the token list, live lines | drop dead writes, sink loads, trim, split, spread, coalesce | liveness along paths | the same, under each option |
| integer adds (SR 1172) and delay slots (CG 3247-3843) | the token list | three passes over the branches | a filler runs on both paths | the same stores and comparisons on every path |
| flag liveness (SA 1256-1398) | last reader of each flag | extend over back edges to a fixed point | overlapping loops, calls | an ignored flag is not read again |
| dependency graph (SA 76-288, 6616-6684) | edges of a block | build | MAC, ACC: registers; CLIP: shift register; STATUS: accumulates | each read finds its writer |
| block scheduler (SA 337-1231, 1658-1760) | rows, clock, tracker | ready set, pairs, waits, padding, tails | what is in flight when a row issues | each value is ready when read |
| latency tracker (`VuLatencyTracker.cpp`) | ready cycle of each register, Q, P; last flag writes | ask, record, push back | interlocked and non-interlocked results | see the block scheduler |
| program scheduler (SA 6772-6993) | linear clock, entry skew | blocks in file order | branches jump over counted rows | Q is ready on every path |
| best-of arms (SA 1425-1656, CG 2855) | several schedules | keep the shortest | options changed and put back | the emission sees the arm that won |
| kernel planner (SA 2086-2630, 7325-7869, `VuKernelLayout.cpp`, `VuModuloReservationTable.cpp`) | modulo slots, reservations | smallest interval, priorities, place, evict, restore, derive prologue and epilogue, renames | wrap-around, eviction, ending | no two tokens in one slot, no edge broken, every turn reads what it should |
| emission (CG 964-3233) | rows, tracker, clock, whether the program is closed | waits, bubbles, cross-path padding, fillers taken back, end pairs | rows added on one path move the others | the rows do what the slots say, keep every distance, and end |
| known loops (CG 3845-10812) | registers bound to roles | match a shape, print fixed rows | what runs ahead must be taken back | the printed loop leaves the memory of the matched one |
| cost analyzer (`VsmCostAnalyzer.cpp`) | counters per block | read rows of an emitted program | in-flight Q and P across rows, weights, shared names | the reports tell of the same cycles |

`PROJECT.json` lists the parts with their status and, under `hazards`, what is
hard to test in them, each at its line.

## 2. Modules

`EXTENDS` is written ->, a refinement =>.

    VuReadyOrderProofs -> VuReadyOrder -> VuDependencyGraph
    VuBlockScheduleProofs -> VuBlockSchedule -> VuLatencyTracker -> VuDependencyGraph
    VuBlockTimingProofs -> VuBlockScheduleProofs
    VuBlockScheduleProofs: VuReadyOrderProofs by INSTANCE, of the first segment of a
    block and of the whole block, under the refinement
    VuBlockSchedule => VuReadyOrder            (property ImplementsReadyOrder)
    VuFlagLivenessProofs -> VuFlagLiveness
    VuEntrySkewProofs -> VuEntrySkew
    VuDelaySlotsProofs -> VuDelaySlots
    VuLiveRangesProofs -> VuLiveRanges
    VuEntrySkew, VuDelaySlots, VuLiveRanges    (each with a machine of its own)
    VuEmission -> VuEmittedRows -> VuLatencyTracker
    VuKernelLayoutProofs -> VuKernelLayout -> VuModuloPlacement
    VuKnownLoops -> VuXformLoops, VuLightLoops -> VuLoopPatterns -> VuLoopMachine
    VuCostAnalysis
    MC...                                      instances for TLC

**VuDependencyGraph** is `buildVuDependencyGraph` as a relation on positions:
register and resource dependencies, the fan-in of ACC and MAC, the chain of
CLIP, the accumulation of STATUS, and memory. A token is what
`buildVuTokenResourceAccess` returns.

**VuReadyOrder** is the abstract scheduler. State: the row of each token. One
action, `EmitRow(i, j)`: one or two tokens whose predecessors are all in
earlier rows are put in a row. Every strategy, score and best-of arm of the code
picks one of these steps, so what holds here holds for all of them. Its
properties compare what a token reads in that order with what it reads in
source order: the last writer of a register or resource, each entry of the CLIP
window, the set of contributors of STATUS (and which is last, when the mask
asks), the address accesses, and what leaves the block.

**VuLatencyTracker** is the tracker as operators on a record, with the
`--fmac-interlock`, `--branch-interlock` and `--sce-latencies` options as
constants. VuBlockSchedule and VuEmission both keep one, as the scheduler and
the code generator do.

**VuBlockSchedule** is the scheduler with its clock: segments and tail tokens,
`FillWait`/`IssueWaitingUpper` (a row with WAITQ or WAITP beside an upper
token), `ChooseAlone`/`ChoosePair`, `Pad` once per turn of the padding loop,
`Issue`, `PairTail`, `StartTail`. Scores are left open. Behind the schedule
stands a machine that executes the rows: one cycle per word, WAITQ and WAITP
stall, VF operands interlock if the option says so, nothing else waits.

**VuFlagLiveness** is `analyzeFlagLiveness`: `Visit` takes one back edge,
`NextRound` starts another round of the fixed point, `Leave(i)` then starts the
program at the end of any segment and `Run` follows it.

**VuEntrySkew** is the program loop with `VuEntrySkew::enter`,
`recordBlockBranches` and the tracker's Q: `EnterBlock`, `PlaceRow`,
`PlaceDivision`, `PlaceRead`, `PlaceBranch`, `LeaveBlock`; then the rows run,
each conditional branch both ways. A slot notes the cycle it was given and the q
the tracker had there. A label is a slot and no word: `RunLabel` takes no cycle and
counts the labels passed, and the properties allow one row for each.

**VuDelaySlots** is the three passes in their order (CG 1052-1071):
`SinkPreIncrementStore`, `SinkIndependentStore`, `SinkCandidate`,
`RaiseDeadFallthrough`, and `PassOn` where none applies. Then the source runs,
and the result runs along the same turns.

**VuLiveRanges** is the allocator: `ReadArgument`, `WriteFloat`,
`WriteInteger` for one argument each, `Fork`, `Jump`, `StopAtConditional`,
`StopAtJump`, `Exit` for the walk, `ExtendLoop` for the pass over the loops,
`PlaceChain` and `PlaceAlias` for the registers. Then `RunToken` runs the
program along any path; `held` says which name's value each field of each
register has.

**VuEmission** is the strict emitter (CG 2885-3181). Its state is the text so
far, the clock and tracker behind it, whether an [E] pair has closed the
program, and the token last taken back. One action per way a slot becomes rows:
`EmitPadding`, `EmitUpperWithWait`, `EmitRetracted` (`--emit-delay-fillers`),
`EmitFilled`, `EmitSlot`; then `CloseProgram`, and `PadClip` and `PadCondition`,
one inserted row a step. Then slots and rows run along the same turns; each
notes which write every read finds. **VuEmittedRows** is what those last two
passes see of the text: the graph of its rows (CG 1877-1966), windows too short
(CG 2010-2124) and operands too late (CG 2179-2244).

**VuModuloPlacement** is the kernel placer: smallest interval from resources and
recurrences, priorities, first fit into the reservation table (`PlaceNode`),
then eviction (`Ask`, `Exchange`, `Unhelpful`, `Revert`, `GiveUp`) and a wider
interval (`Bump`). **VuKernelLayout** derives from it, as operators, the layout,
the prologue, kernel and epilogues of the rewrite plan, the renames and their
move slots, and compares the plan, run for some passes of the kernel, with the
loop it was made from.

**VuKnownLoops** matches and prints the hand-pipelined loops of
`--enable-known-loop-optimizations` (README.md:528-588): `Schedule` moves a token
of a loop to get another of its schedules, `Refused` and `Accepted` give the list
to one collector after the other, in the order of the code, and `Run` runs the
rows that are printed. **VuLoopPatterns** has the
language both are written in: a shape is a list of clauses over roles
(`Collected`, `Accepts`) and a list of rows under labels. **VuXformLoops** and
**VuLightLoops** have the shapes, one clause for one branch of a collector and one
row for one `emitRawPairedLine`. **VuLoopMachine** computes on values modulo a
prime, with the latencies of VF, VI, Q, P and MAC results, so that an operand
read a row too early has another value.

**VuCostAnalysis** is the cost analyzer: `ReadLabel`, `ReadRow`, `ReadIgnored`
and `EndFile` for two files, `Select` for `--cost-loop`, and the reports as
operators.

## 3. Runs

All sets are given in the MC modules.

| run | instance | shows |
|---|---|---|
| `order_blocks` | blocks of up to 4 tokens, from three universes (memory; ACC, MAC, Q; CLIP, STATUS), MAC and CLIP ignored or not | every order of the ready rule preserves every read |
| `block_words` | blocks of up to 4 tokens with tails, and with timed readers; no interlock, integer loads calibrated | across segments, tails and padding, reads find their writers; where only one of Q and P is in flight no VI register or flag is read early |
| `block_stalls` | blocks of up to 3 tokens and chains of 6; both interlocks | the scheduler implements VuReadyOrder; Q and P are ready by the words alone, and by the stalls too where only one of them is in flight; the clock without waits is that of the machine; the padding loop ends |
| `flags_labels` | programs of up to 4 tokens, every branch to every label, two flags | a dead flag is read on no path; the bound is least; one round settles it |
| `entry_paths` | up to five blocks, two forward branches in a chain, to one label or round the arms of an if | where nothing skipped hides a division above, Q is there on every path without a wait; the skew covers the shortest |
| `slots_paths` | loops of up to 3 tokens and branches over code, both directions | stores and comparisons are those of the source; one filler behind a branch |
| `ranges_paths` | loops of up to 3 tokens, loops in loops, overlapping loops, loops around a branch, choices, loops without an end; 2 VI and 2 VF names of two fields | every read holds its value; no ring of chains; the walk ends |
| `loops_shapes` | 11 loops that fit a shape and 3 that miss one by a number, in every schedule one move away, 1 to 6 turns | each is taken by its own emitter or none; the rows leave the memory of the loop and their input pointer never passes its end |
| `kernel_placement` | loops of up to 3 instructions of 12 kinds and 13 longer ones, 1 wider interval | table and edges stay true through evictions; the search ends; the plan computes what the loop does; renames stay apart |
| `emission` | loops, joins, waits and subroutines of up to 10 slots; both options on and off | the rows run as the slots do, end where they end, keep the clip window and the row above a branch; the passes over the text end |
| `emission_end` | a label at the end behind an unconditional branch | **violated**: no end pair is written |
| `cost_reports` | pairs of a fixed and any file of 4 lines, two selections of loops | the clock is the earliest possible; the reports agree |

**Why the bounds are enough to be of interest.** A dependency is about two
tokens and what stands between them; three or four tokens hold a writer, a
reader, a second writer and a second reader, which is every edge of the graph
and every pair of rows. The flag extension is about two loops that nest, overlap
or are apart, for which four tokens suffice. A quotient needs a division, a
branch, code to jump over (`Gap` rows, less than the latency), and a join; two
branches make the maximum over edges and the inheritance of the skew matter, and
an arm with a division of its own is where the two hypotheses of `QuotientReady`
and the one of `SkewCoversEveryPath` are needed: without any of them TLC finds a
path (section 5). The allocator runs have three registers of
each kind for two names of it: with fewer the allocator reports an error, with
more the low registers are reused the same way. `Threshold` (`--bthres`) is 16 in
the code and 3 in the run; no walk of the instance comes to either, so it cuts
nothing off. `Hops` is 16 in the code and 4 in the run, as often as any program of the
instances writes an integer (`ShortChains`). `MaxTurns` ends a run behind three branches, one turn more than any
wrong filler or missing row needed to show itself. `Guard` is 4096 in the code;
no program of the run asks for more than 7 rows, and `PassesSettle` says so. The
known loops are unrolled at most four times, so six turns reach every prologue,
the main loop at least once, and every remainder. `MaxBumps` is 32 in the code and
1 in the run, `Passes` of the kernel 2: one more than the longest dependence
spans. Pipe times are scaled down there, as the placer only compares them.
`CHECK_DEADLOCK FALSE` stands where a program ends.

**Fairness.** `WF_vars(Step)` in VuBlockSchedule and VuLiveRanges: the code is
one thread that takes the next step of its loop until the loop is over. The
program that is run afterwards is not part of `Step`; it may stop. `WF_vars(Next)`
in VuModuloPlacement for the same reason: the search is one loop.

**Refinement.** `ImplementsReadyOrder` maps the rows of the first segment of a
block to VuReadyOrder: padding is a stutter, a row is `EmitRow`. Later segments
start with the tracker of those before and have the same code; what holds across
segments is checked directly (`BlockReadsPreserved`).

**Types.** VuEntrySkew, VuDelaySlots, VuKnownLoops, VuEmission and VuCostAnalysis
have no type invariant of their own in the runs: a state of a wrong type cannot
be executed by the machine each of them is compared with.

## 4. Theorems

VuReadyOrderProofs, VuBlockScheduleProofs, VuBlockTimingProofs, VuFlagLivenessProofs,
VuEntrySkewProofs, VuDelaySlotsProofs, VuLiveRangesProofs and VuKernelLayoutProofs hold
for every block, program and loop, every set of registers, every latency, mask and
interval.

*Ready order.* The inductive invariant is `TypeOK /\ GraphRespected`: the row of
a token is behind those of its predecessors. It is inductive because a row is
emitted behind all others and its tokens have no predecessor left. Each read
property then follows from the edges alone: if every earlier writer is before
the last one, the last one before the reader and the reader before later writers
(`ReadPreservedFromEdges`), the last writer in rows is the last in source. For
CLIP, where *every* entry of the window counts, the writers a reader follows form
a chain (`ClipChain`, by a least counterexample) and a window is a matter of
their order (`WindowFromOrder`). For STATUS the contributors lie between two
clears (`ClearOrdersContributors`). `ImplicitReadsCorrect` puts the three kinds
together. `NeverStuckCorrect` takes the first token in source order that is left.

*Flag liveness.* The invariant adds to the types that a back edge visited in this
round is closed (a flag alive at its target is alive at its branch), that every
reader counts, and that no flag is extended past any bound that is closed. One
round in branch order is enough, since an extension moves a flag only to the
branch just visited. `FlagLivenessSound` needs the assumption `LabelsOnly`: with
returns it is false (section 5).

*Placement.* The inductive invariant `Inv` says that the table mirrors the slots
(each reserved cell names the node that holds it, and every placed node holds the
cells of its pipe), that all edges between placed nodes hold, and that during an
exchange the same is true of the state to go back to, with the evicted node put
back (`Restorable`). `ReserveMirrors` and `ReleaseMirrors` are the heart: what
release clears is what reserve marked, although both cut a reservation to the
interval, because a node never holds a cell twice. `PlacingKeepsEdges` needs the
check against every placed neighbour in both directions; `RemovingKeepsEdges`
is why an eviction needs none.

*Software pipeline.* `PlanKeepsReadsCorrect` is what the placer is for: prologue,
kernel and epilogue compute what the loop computes, for every loop and every number of
passes, without a rename. `LayoutInv` adds to `Inv` that no slot is in a stage beyond
`maxStage`, although that one is never lowered, and that a finished search has placed
every node; a finished search is then `Laid`. From the table alone follows where a plan
issues a node (`IssuesExactly`): no cell has two, so node i of turn t is in copy
`StageOf(i) + t` and nowhere else, whether that copy leads in, repeats or leads out
(`PlanCopies`), and each node is met once a turn (`TurnsCounted`). From the edges
follows the order: if one of two nodes writes what the other touches they have an edge
each way (`ContendersWait`), one within the turn and one into the next, so their slots
are less than an interval apart (`ContendersNear`), and the plan has them in the order of
the loop whatever their turns (`OrderKept`). The last writer of a key in front of a read
is then the same in both (`LatestMatches`), and so is the last of all. Latencies are no
part of it: those are `EdgesHold`.

*Block scheduler.* For every latency and interlock option too. The invariant
`BlockInv` says that each token is in one slot at most (`Slotted`), that the segment
is the one its first token begins and lies behind the first one or is it
(`Segmented`), that everything before the segment is scheduled and nothing behind it
(`InSegmentOrder`), and that a chosen row is one or two ready tokens or the token
that ends a finished segment (`ChosenRow`). The last conjunct is what makes it
inductive: between the choice and the issue the padding loop runs, and the row must
still be ready afterwards. `EveryTokenOnceCorrect` follows: a finished block has
each of its tokens in exactly one slot, tails included. `ImplementsOrder` proves the
refinement that the run `block_stalls` checks (`ImplementsReadyOrder`): `FillWait`,
`IssueWaitingUpper` and `Issue` of ready tokens of the first segment are one
`EmitRow` each; padding, choices, tails and later segments are stutters.
`RowsAfterAppend` and `RowsAfterJoin` say what a new slot and a token slipped into
the last one do to the row numbers. Neither the tracker nor the clock occurs in
these proofs: no delay, however wrong, can break the order. `FirstSegmentCorrect`
carries the theorems of `VuReadyOrderProofs` over to the detailed scheduler by
instantiating that module with the refinement mapping.

*Whole blocks.* A block is scheduled segment by segment, each with a graph of its own,
and its tails go past every graph; `BlockReadsPreserved` compares what comes out with
the graph of the *whole* block, which the code never builds. The invariant is
`WholeInv`: `BlockInv`, and the rows respect that graph (`RowsRespectGraph`). Three
facts make it inductive. `SegmentEdge`: an edge of the block's graph between two
candidates of one segment is an edge of the segment's graph, although the two
are built from other lists of tokens: a scan for the writer or clear between two
tokens of a segment meets only tokens of the segment (`SameScan`), and a flag the
segment's mask ignores has no reader behind it (`NotIgnored`). `ReadyHasAll` and
`TailHasAll`: what is before the segment is out, so only edges inside it are left.
`NoEdgeInRow`: a tail joins the row above it only where no edge of the block can be.
`TableAssumption` states the two facts of the instruction tables this rests on
(`VuInstructionInfo.cpp`): only FSSET both reads and writes a flag, so a reader the
mask counts is one the graph counts; and whatever accesses memory is a lower
instruction, so an xgkick shares no row with a store, which its pairing test (SA 799)
does not ask. The rows of the whole block are then an order
in the sense of VuReadyOrder (`WholeOrder`), and the lemmas that follow from that
module's invariant alone (`RegisterReadsFromGraph` and its neighbours) give the reads.
`AccessOf` says which status readers may ask for their last contributor to be last:
those in the segment of any two of them. For the others it is false (section 5).

*Block timing.* Here the tracker and the clock are all that counts. Two of each are
compared: those of the scheduler, and those of the machine that runs the slots one by
one (`Machine`), once as it is and once without its stalls, where only the words count.
No two cycles need be equal. `InStep` says that what is under way in the machine ends no
later, seen from where the machine stands, than what the scheduler knows of, seen from
its clock: for Q and P always, for registers and flags without `--fmac-interlock`. Where no
stall is left out of the words, `exact`, the times still to come are equal, and must be:
a WAITQ that ends early in the machine, because the machine has stalled before it, takes
words away from P. That is why `OnePipeline` is a hypothesis of the reads that count
stalls, and `PipesIdle` is what it says of the tracker. `TimingInv` has this of the clocks
behind the slots (`ClocksInStep`) and of every row already issued (`SlotsInTime`), and
of the last row what a tail may use that is slipped into it: the tracker as it was when
that row was issued (`LastRow`). The padding loop goes through it turn by turn
(`PadTiming`), a wait in one row (`WaitRowTiming`). `PipelinedReadsCorrect` has no hypothesis
on options; `ReadsReadyCorrect` is for schedules without the FMAC interlock, as in the
run `block_words`. With it the padding leaves out the words the hardware will stall for,
and the question is another one: do those stalls happen? `StallInv` answers it for a
schedule without waits. Between rows the two clocks are level and know the same times
(`SameTimes`); while a row is being padded the machine may be behind, but then nothing
the hardware does *not* stall for is outstanding (`OnlyStalls`), and some operand it
does stall for is not ready before the clock (`HeldUp`), so the machine will be held up
to the very cycle (`StallsDue`). A tail is slipped into a row after that row was
issued. If it is a branch the machine may stall for it and the clock does not know, but
then it is the last token and nothing reads behind it (`AllOut`). Two assumptions state
what the tables say: an upper instruction reads no VI register and no flag
(`UpperAssumption`), and a branch, an xgkick or a reader of MAC or CLIP reads no VF
register (`TailAssumption`, VuInstructionInfo.cpp); that a branch ends its block is
`buildVuBasicBlocks` (SA 6574).

*Entry skew.* `SkewInv` compares two clocks, the linear one of the scheduler and the
one of the machine, which no step keeps equal. A *place* is a slot of a block, or the
one behind its last; `Real` and `Due` are what the clock and the tracker said there,
less the skew of the block, that is, what the shortest path sees. About the schedule
the invariant says that one place leads to the next (`SlotsLead`), that the first place
of a block is the last of the one above with everything under way put off by what the
skew grew (`BlocksBegin`), that every edge is recorded and covered by the skew of its
target (`EdgesRecorded`), and of the places a branch skips (`SkippedPlaces`) that they
are no sooner than the branch and know of the same division (`Same`), or of one that
outlasts all above the branch (`Late`). That last part is what the code does not
promise by itself: it needs that nothing skipped is divided, or that no branch from
above leads in between and no division in between is shorter (`SkipsWhole`); both are
hypotheses of `QuotientReady`, and section 5 has what happens without them. About the
machine it says that its quotient is no further off than the latency of a division
above (`LatencyBound`) nor than the tracker had it at this place (`QuotientTracked`),
and that it is no sooner than along the shortest path (`NoSooner`). The step that
matters is a branch taken: `Landing` gives the edge and what the skipped places knew,
and `LandsTracked` compares what is left of the quotient: for `Same` the two rows of the
branch are what the edge has saved, for `Late` the bound on what was under way is enough.
`ForwardAssumption` restricts the programs to forward branches, the only ones the code
carries anything over (README.md:243); that a branch ends its block is how blocks are cut
(SA 6574).

*Delay slots.* Three passes rewrite one list again and again, and the run compares only
where it ends. The proof is about the moves: one program *follows* another (`Implements`)
if there is a relation of their machines (`Simulation`) in which whatever way the first
turns, the second turns too, a step at a time or none, and ends with the same stores and
comparisons. That is transitive (`FollowsOn`), so it is enough that the list after a move
follows the list before it, and the inductive invariant is just that the list follows the
program (`FollowsProgram`) with every filler behind a branch and every other token one of
the program's (`Swept`). The moves are of two kinds.
A token that *sinks* (`SinkFollows`): between the place it was taken from and the slot
the machines differ by `left[k]`, what the second still has to do at row k. It must
commute with each token it passes (`Commutes`), be doable in the slot, and not write what
the branch compares (`Sinkable`). For an independent store and for the candidates of the
probe `left` is the token itself (`Swap`, by kinds of tokens: what `CanSinkBelow` asks is
enough because a candidate touches no memory). For the store of an incremented base it
is the store, then the store with its offset lowered (`LoweredSame`). There the value
counts: if the store stores its own base the two are not the same, and the code does not
ask (CG 3380, section 5), so `StoresKeepBase` is a hypothesis of
`ExecutionPreservedCorrect`; the instances fulfil it (`SafeAssumption`).
A *dead fall-through* (`RaiseFollows`): afterwards the branch runs the token also where
it is taken. The machines are the same (`Same`), or the fall-through of the first still
has the token to run (`Late`), or they differ in the one register it writes, on a row the
search from the target has come to (`Apart`). `ReachedClosed` says that this search, cut
off after as many steps as there are rows, has found all: each step before the last adds
a row or adds nothing ever again. Such a row does not read the register
(`DeadOnEveryPath`), and once one writes it the machines are the same. The pass that
looks at the file only (`DeadInFileOrder`) is not needed for this.
At last the runs: what a machine comes to along the turns of the source is the least
closed set of machines (`From`), which needs no paths and no induction. While the source
runs, the list could have come along with it (`Beside`); while the list runs, it has yet
to come to an end with the same stores and comparisons (`Behind`), whose prefix is what
it has so far (`FromExtends`). `OperandAssumption` states how many operands a token has,
that only ADD and LOAD write, and that no filler stands in a program: one whose loops
were pipelined with fillers skips the passes (CG 1045-1071).

*Register allocation.* The walk, the merging and the passes over the loops change one
heap of aliases, and the inductive invariant `Inv` is about that heap and about what the
walkers know of it. `HeapFits` gives each alias a name, the one of every occurrence that
has it; an alias that follows another has the name of that one, is one that is written,
and every alias followed is there (`Sound`). A walker knows of a name only an occurrence
that has an alias (`StateFits`), and no step takes an alias away from an occurrence
(`Keeps`). With that each of the operations keeps the heap: to merge is to rename, and
what followed the absorbed alias follows something that stays (`ReleasedSound`,
`MergedFits`). `TypeOKCorrect` is the part a reader sees of it, without a hypothesis.
That no chain is a ring is said without paths: no set of aliases follows only itself
(`Ends`). An edge keeps that if the alias it comes from is not on the chain it leads to
(`EdgeEnds`); `trySetSameNamePredecessor` asks just that, since a climb bounded by the
number of aliases comes to the end of the chain (`AncestorsClosed`: at one more step it
would be somewhere twice). `releaseAlias` and the tying of carried writes make many such
edges in a row; as the definitions are folds over sets, `FoldExists` unrolls a fold once,
for all subsets, and `FoldInside` carries what each step keeps to the end
(`AllRenamedSound`, `AllTiedSound`, `RunKept`).
The write of an integer is the exception: it looks for itself `Hops` aliases up and no
further (BS 172). `SeesTheEnd` is why that is enough where no integer is written more than
`Hops` times: every alias that follows another is written, all of a chain have one name,
and a chain that goes on would have more of them than the program has writes of it. That
is `ShortChains`, the hypothesis of `ChainsEndCorrect`; the instances fulfil it
(`SafeAssumption`), and without it a ring closes (section 5).

Not proved, and only model-checked: that a block is ever finished; that registers hold
what is read (`ReadsHold`), which needs the lines of every alias against every path of the
program; everything of VuEmission, VuKnownLoops and VuCostAnalysis; and
`RenamesApart` of VuKernelLayout, whose move slots are a fold over a table; liveness (`AllScheduled`,
`Allocates`, `Settles`) and what folds and recursive functions compute are outside what
the provers can do.

## 5. Where the code does something else than is said of it

With a run, and seen with the compiler itself:

- `emission_end`: an unconditional branch sets `exitWritten` (CG 3106, 3146, 3163)
  and a label does not reset it (CG 2744), so an `--exit` or the end of the
  program behind a label that stands behind such a branch writes no [E] pair and
  the path to the label runs off the program (comment CG 1454).

Without a run of their own; the runs name the programs that leave these out
(`SafePrograms`, `SoundPrograms`, `SkipsWhole`, `LabelsOnly`, `ShortChains`). Seen with the compiler:

- SR 151: `plainStoreCanMoveBeforeComputation` lets a store move above anything
  without a side effect, a load of its own address included, so the comparison of
  base and offset in `plainStoreCanMoveBeforePlainMemory` (SR 139) is bypassed.
  CHANGELOG.md:239 names distinct accesses only.
- SA 174: the graph of a segment pins the last contributor for the status readers it
  holds, and without `--schedule-flag-readers` every FSAND is a tail and in none.
  `add w0; add w1,w0; add w2; fsand vi01,0x2` comes out with w2 above w1, so that
  the non-sticky bit the mask asks for is that of w1 (comments SA 130 and SA 209:
  inside the block it is answered). `AccessOf` leaves the question to the readers
  that are answered; without it TLC finds this block in `block_words`.
- SA 737: the cycles of a suppressed stall are pushed out of Q and P alike, but the
  stalls really happen, so a division may be over before the tracker says; the WAITQ
  in front of its reader is then shorter than the cycles the tracker counts for it
  (SA 631), and P is credited with all of them. `rsqrt`; `add`; an `add` that depends on
  it; `esum`; `mulq`; `mfp` under `--fmac-interlock` comes out with the `mfp` directly
  behind the `waitq` and no `waitp`: it issues in cycle 15, 7 after an `esum` that takes
  12 (comment SA 735, "measures that gap in words, which is what the hardware
  guarantees"; README.md:75). `StalledReadsReady` counts the stalls only in blocks that
  write one of the two (`OnePipeline`); without that TLC finds this block.
- SA 1170: an upper token beside the WAITQ it asked for may itself stall for a VF
  operand that is later than Q. The clock has no cycle for that stall, so of a WAITP
  further down, which the tracker counts with all its cycles (SA 631), fewer are left on
  the machine, and an integer load that was to be covered by them is read a row early,
  without any option. `lq`; `div`; `eleng`; `add` of the load; `mulq` of both; `fcand`;
  four chained `iaddiu`; `ilw`; `mfp`; `iaddiu` of the load: the last one issues 4 cycles
  behind the `ilw` where the tracker asks for 5 (`VuLatencyTracker.cpp:255`).
  `ReadsReady` is about blocks that write one of Q and P; without that TLC finds a
  block of this kind.
- SA 1345: the flag extension takes back edges from label branches only; a `jr` that
  returns to a call is none. Two `clipw` of a subroutine behind the last reader are
  exchanged although the `fcand` behind the `bal` reads their window (comment
  SA 1308).
- SA 6847: a label is a token and takes a cycle of the clock, but no word: a `div`
  and its `mulq` come out 7 rows apart across a branch where 8 are needed
  (README.md:244). `QuotientReady` and `SkewCoversEveryPath` allow a row for each label
  passed; what `entry_paths` and the proof show is that nothing *else* shortens a path.
- `VuLatencyTracker.cpp:279`: Q has one ready cycle, that of the last division in the
  file, which is pushed out to the shortest path (README.md:244) although the path may
  have skipped that division. Of an if and an else with a division each, the one late
  in the first arm is forgotten for the one early in the second: the `mulq` behind them
  has no wait and comes 4 rows after the first where 8 are needed. So with a short
  division in an arm that is skipped and a longer one above the branch.
  `SkipsNoDivision` and `SkipsWhole` are the programs where this cannot be.
- CG 3380: the increment of a pre-increment store is compared with the base of the
  store and never with what it stores: `isw.x ptr, 0(ptr)` above `iaddiu ptr, ptr, 1`
  stores the incremented pointer (README.md:583).
- BS 172: the write of an integer looks 16 hops up the chain of its name, itself not
  found, it follows what was there before. A loop whose body writes an integer 17 times,
  with no definition in front of it, closes a ring of 17 aliases on the second turn of the
  walk (comment BS 165, "refuse to install the edge if it'd close a cycle"; RA 3160 says
  of such a depth that it answers "no cycle" for a ring further up); with 16 writes there
  is none. The caps in `processAliases` keep the allocator going, and what is lost is the
  register the chain was to share. `ChainsEndCorrect` is about `ShortChains`; with `Hops`
  1 or 2 and without `SafeAssumption` TLC finds `ChainsEnd` violated by the programs of
  `ranges_paths`.
- RA 1168: what a loop body touches first is decided in file order. A write in an arm
  that a branch skips counts, and the turn that skips it reads another register
  than the one the turn before wrote (comment RA 1100).
- CG 3088 with `--emit-delay-fillers`: the token taken back goes behind the branch and
  an upper token that shares the slot of the branch is never emitted (comment CG 3083).
- The row between an integer producer and the branch that reads it (CG 2158) is lost
  in three ways: a `--barrier` slot between them hides the producer from
  `scheduledSlotsFeedBranch`; a token taken back into the slot of one branch is right
  above the next; and LinearXform prints `iaddiu in` directly above its `ibne` in all
  three of its loops (CG 7309, 7344, 7398), raw rows that no later pass pads. The run
  `loops_shapes` lets LinearXform's branches see their operand at once.
- `VuInstructionInfo.cpp:279` gives an integer load a latency of 4, where a load is
  measured to be readable 3 cycles behind its issue (`VuLatencyTracker.cpp:251`,
  README.md:76). The rows FastLit prints for one turn rely on the measurement: with the
  stalls of `add` and `waitq` (CG 4931-4935) its `iaddiu` reads the `ilw` exactly 3 cycles
  behind. `LoadLatency` is therefore 3; with 4 TLC finds `EmittedMemory` violated there.
- SA 10976: the rewrite plan has the loop's own branch as a node, so with
  `OPENVCL_USE_GENERIC_KERNEL_REWRITE` a branch to a label that is gone stands in
  prologue and kernel (comment SA 10984).
- BS 520: `out_vf` and `out_vi` do not make a value live up to the exit, and
  `BranchState.inl:14` copies no outputs to a forked state.

From the source alone:

- SA 6831: where a path has skipped the division a read waits for, the read waits less
  than the clock has it, and the path is that much shorter than the skew below says. No
  quotient of its own is missed by it: what it waited for is what the tracker has.
  `SkewCoversEveryPath` is about programs whose branches skip no division.
- SA 174 (comment SA 135): with `--schedule-flag-readers` an FSSET reads STATUS but has
  no edge to an FSAND below it unless a contributor stands between.
  `StatusReadsPreserved` asks for one between.
- RA 573: a loop that tests at its top and jumps back at its bottom: a name
  that lives through the loop without being read in it may lose its register.
  The walk stops at the exit branch it has taken before, and the first jump back
  extends nothing. The instances read such names at the top. With the default
  options (no `--loop-liveness-always`, no `--LoopCS`) vectors carried over a
  branch in a loop are lost as well; README.md:80 has the option for it.
- CG 3592: a plain store is admitted as a filler and then refused for its
  latency.
- SA 1563: best-of by cycles also lets a longer schedule win, when the cycles it
  saves reach `VU_PAIR_CYCLES_PER_WORD` for each word it adds; the comment at
  SA 1515 lets only one that is no longer win.
- CG 3100 with `--emit-delay-fillers`: taking back a row shortens a path behind
  the tracker's back (README.md:244). A branch with a filler does not pad the clip
  window at all (CG 2379). The pass for branch operands asks nothing of a `jr`
  (CG 1812), and the graph of the rows lets control fall past an unconditional
  branch (CG 1943), which pads too much and never too little.
- Known loops: DirLightSpec and PtLightSpec accept five squarings or more and print
  five; FinalColor accepts `MINI` of a register and prints it with I; the collectors
  do not ask that two roles have two registers, and FastLit, Scei and FinalColor use
  VF22 to VF26 without asking whether they are free; the collectors other than
  LinearXform's pass over what they do not know.
- `VuKernelLayout.cpp:394` compares a register with a field to one without: the cycles
  a move must stay away from (`VuKernelLayout.h:303`) are always none.
- SA 7402: the placer has no edges for memory or STATUS and none from a node to
  itself; `maxStage` is never lowered when a node is evicted.
- `VsmCostAnalyzer.cpp:662` looks for `__FALLBACK` and does not find
  `__SPEC_FALLBACK1`, which counts as base. Of two adjacent labels the first is lost
  for `--cost-loop`. Of blocks with one canonical label only the one with fewest
  weighted cycles is compared (CostAnalyzer 862), so the deltas of the blocks need not
  add up to that of the file; `ReportsAgree` says so. A repeat set before `analyze` is
  forgotten.

## 6. What the models leave out

- *VuReadyOrder, VuBlockSchedule*: which ready token is taken; different base
  registers are different memory, as the code takes them; the MAC write of a MOVE
  printed as MAX.
- *VuEntrySkew*: P, which has the same code; backward branches, over which
  nothing is carried (README.md:243); rows the emitter adds, which never shorten
  a path.
- *VuDelaySlots*: values are small integers and a label is a token of its own, as
  the parser makes it; tokens of `--emit-delay-fillers` are always looked for,
  which is a superset; PREORDERED and E, D, T tokens never move. A branch to a label
  that is not there leaves the program: the allocator takes no notice of such a branch
  (RA 574, RA 613), and which program the assembler would link it to is not its matter.
- *VuLiveRanges*: one token per line; live ranges are sets of lines, and a trace
  is the lines it has crossed and where the last one began; the cap of 16 hops of the
  write of an integer is `Hops`, those of 16 and 32 hops in `processAliases` are not
  reached; the aliases are visited in the order they were made, where the code has that of
  their addresses; no outputs, no literal registers, no `--cont`,
  no Q stages, none of the options of RA 1717-3142.
- *VuEmission*: the slots are any the scheduler may hand over and not those of
  VuBlockSchedule step by step; the list mode without a schedule (CG 1071-1450);
  kernel bodies baked in (CG 2574-2740, 2919-3035, environment only); E, D and T
  bits; the exemption of full clip masks (CG 2855). Text is a list of rows and labels.
- *VuModuloPlacement, VuKernelLayout*: memory, as in the code; the statistics of the
  planner; the shadow placer; the rewriting of the token list, which only an
  environment variable asks for.
- *Known loops*: arithmetic is uninterpreted but for what the rows rely on
  (VuLoopMachine); the ps2gl templates (CG 5696-6573), fixed rows chosen by the name of
  the program; rows of PtLightSpec for a material from the input (CG 9331-9516), which
  nothing reaches. Loops are those of the tests and examples.
- *VuCostAnalysis*: how a line splits into mnemonics; the order of the reports and their
  text; a wait in the upper slot; D, E and T bits, latency sums.

## 7. Not modelled, and why

- *Allocation options* (RA 1717-3142), `--cont`, outputs and literal registers: each
  is a rewriting of tokens or ranges of its own, off by default but for two, and would
  multiply the states of VuLiveRanges, which are at the limit of what a run can hold.
- *Retries and arms* (`Parser.cpp:2141`, SA 1425-1656, CG 2855): sequential, each step a
  whole run of the passes above; nothing in them depends on order but the options
  they change.
- *Preprocessor, expressions, tokenizer, instruction tables, command line*: text in,
  text out, and constant data; unit tests compare them with what is expected.
- *The whole compiler in one model*: the passes hand each other finished lists. The
  modules are joined where two of them share state, scheduler and tracker, emitter
  and tracker, placement and layout; the rest is joined by what one promises and
  the next assumes.
