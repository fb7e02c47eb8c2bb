-------------------------- MODULE VuModuloPlacement --------------------------
(***************************************************************************)
(* The kernel placer (runVuKernelPlacerAndScaffolding,                     *)
(* VuSchedulerAnalysis.cpp) and the reservation table it fills             *)
(* (VuModuloReservationTable.cpp).  One turn of a loop is laid out on a    *)
(* table of ii cycles, so that a new turn can start every ii cycles: each  *)
(* node gets a slot, a multiple of ii in the slot is a stage of the        *)
(* pipeline.  Nodes are taken in order of priority, each at the first slot *)
(* of its window that the placed nodes and the table allow.  A node that   *)
(* found none may take the slot of one placed node that can move; when     *)
(* that fails too, ii grows by one and everything starts again.            *)
(***************************************************************************)
EXTENDS Integers, Sequences, FiniteSetsExt

CONSTANTS
  Loops,          \* the loop bodies, first token of the turn first
  Base, Field,    \* the names and the fields a key is made of
  Vector,         \* the VF bases
  MaxBumps,       \* how often ii may grow: 32
  IntervalBound,  \* bound of this model: the widest starting interval
  SlotBound       \* bound of this model: the last slot

Pipes == {"none", "upper", "lower"}
Units == {"none", "fdiv", "efu"}
Lanes == {"upper", "lower", "fdiv", "efu"}

(* A register field, or a pipeline resource whose field is of no account.    *)
(* A written key is readable after so many cycles.                           *)
ReadKey    == [base : Base, field : Field]
WrittenKey == [base : Base, field : Field, ready : Nat]

Node ==
  [ pipe       : Pipes,
    unit       : Units,
    duration   : Nat \ {0},     \* the throughput of a division, 1 otherwise
    reads      : Seq(ReadKey),
    writes     : Seq(WrittenKey),
    splittable : BOOLEAN ]      \* vuOpIsSplittableForKernelRename

ASSUME VectorAssumption == Vector \subseteq Base
ASSUME BoundAssumption == {MaxBumps, IntervalBound, SlotBound} \subseteq Nat

(* Only a NOP has no pipe, and a NOP touches nothing. *)
ASSUME LoopsAssumption ==
  \A body \in Loops :
    /\ body \in Seq(Node)
    /\ body # <<>>
    /\ \A i \in DOMAIN body :
         body[i].pipe = "none" /\ body[i].unit = "none"
           => body[i].reads = <<>> /\ body[i].writes = <<>>

-----------------------------------------------------------------------------
(* The dependences of a loop *)

(* The places of s whose base occurs in t as well. *)
Shared(s, t) == {a \in DOMAIN s : \E b \in DOMAIN t : s[a].base = t[b].base}

(* The readiness of what i writes and j reads, field by field. *)
Waits(body, i, j) ==
  {w.ready : w \in {body[i].writes[a] : a \in
     {c \in DOMAIN body[i].writes :
        \E b \in DOMAIN body[j].reads :
          /\ body[i].writes[c].base = body[j].reads[b].base
          /\ body[i].writes[c].field = body[j].reads[b].field}}}

(* The bases the renaming of the kernel would give a register of their own   *)
(* per turn.                                                                 *)
Rotated(body) ==
  {b \in Vector : \E k \in DOMAIN body :
     body[k].splittable /\ \E a \in DOMAIN body[k].writes : body[k].writes[a].base = b}

(* The edges of one kind, found through the first base the two share.        *)
(* computeLoopRecMIIRenamed drops those of the next turn on a rotated base.  *)
Counts(body, renamed, i, j, s, t) ==
  /\ Shared(s, t) # {}
  /\ ~(renamed /\ j < i /\ s[Min(Shared(s, t))].base \in Rotated(body))

(* The latencies j waits for behind i; j of the next turn when it does not   *)
(* come later in the body.                                                   *)
Demands(body, renamed, i, j) ==
  IF i = j THEN {}
  ELSE (IF Counts(body, renamed, i, j, body[i].writes, body[j].reads)
          THEN {1} \cup Waits(body, i, j) ELSE {})
       \cup (IF \/ Counts(body, renamed, i, j, body[i].writes, body[j].writes)
                \/ Counts(body, renamed, i, j, body[i].reads, body[j].writes)
               THEN {1} ELSE {})

Distance(i, j) == IF i < j THEN 0 ELSE 1

-----------------------------------------------------------------------------
(* The interval to start from *)

(* One pass over the edges: an edge of the next turn is m cycles shorter. *)
Relaxed(body, links, m, far) ==
  [j \in DOMAIN body |->
     Max({far[j]} \cup {far[e[1]] + e[3] - m * Distance(e[1], j) : e \in {d \in links : d[2] = j}})]

(* The longest paths, after as many passes as there are nodes: one function  *)
(* in a set, so that each pass is evaluated once.                            *)
Rounds(body, links, m) ==
  FoldSet(LAMBDA n, last : {Relaxed(body, links, m, far) : far \in last},
          {[i \in DOMAIN body |-> 0]}, DOMAIN body)

Between(body, renamed, i, j) == {<<i, j, l>> : l \in Demands(body, renamed, i, j)}

From(body, renamed, i) == UNION {Between(body, renamed, i, j) : j \in DOMAIN body}

Edges(body, renamed) == UNION {From(body, renamed, i) : i \in DOMAIN body}

(* No recurrence needs more than m cycles a turn (computeLoopRecMII, and     *)
(* computeLoopRecMIIRenamed under OPENVCL_USE_GENERIC_KERNEL_REWRITE): as    *)
(* many passes as there are nodes leave nothing to relax.                    *)
Recurs(body, renamed, m) ==
  LET links == Edges(body, renamed)
  IN  \A far \in Rounds(body, links, m) : Relaxed(body, links, m, far) = far

Busy(body, unit) ==
  MapThenSumSet(LAMBDA i : body[i].duration, {i \in DOMAIN body : body[i].unit = unit})

(* computeLoopResMII: no pipe is used for more cycles than a turn has. *)
Resources(body) ==
  Max({ 1,
        Cardinality({i \in DOMAIN body : body[i].pipe = "upper"}),
        Cardinality({i \in DOMAIN body : body[i].pipe = "lower"}),
        Busy(body, "fdiv"),
        Busy(body, "efu") })

(* m is the larger of the two bounds. *)
StartingInterval(body, renamed, m) ==
  LET enough(k) == k >= Resources(body) /\ Recurs(body, renamed, k)
  IN  enough(m) /\ \A k \in 1 .. m - 1 : ~enough(k)

-----------------------------------------------------------------------------
(* Priority (computeLoopPriority): the dependences within one turn *)

Within(body) == {e \in Edges(body, FALSE) : e[1] < e[2]}

Asap(body) == Rounds(body, Within(body), 0)

Height(body) == Rounds(body, {<<e[2], e[1], e[3]>> : e \in Within(body)}, 0)

(* One turn takes at least m - 1 cycles. *)
Length(asap, height, m) == Max({m - 1} \cup {asap[i] + height[i] : i \in DOMAIN asap})

Ranked(asap, height, length) ==
  [ asap     |-> asap,
    height   |-> height,
    alap     |-> [i \in DOMAIN asap |-> length - height[i]],
    mobility |-> [i \in DOMAIN asap |-> length - height[i] - asap[i]],
    length   |-> length ]

Priorities(body, m) ==
  {Ranked(asap, height, Length(asap, height, m)) : asap \in Asap(body), height \in Height(body)}

(* i is placed before j: greater height, less room, earlier in the body. *)
Precedes(pr, i, j) ==
  LET rank(k) == <<-pr.height[k], pr.mobility[k], k>>
  IN  \E n \in 1 .. 3 : rank(i)[n] < rank(j)[n] /\ \A k \in 1 .. n - 1 : rank(i)[k] = rank(j)[k]

-----------------------------------------------------------------------------
VARIABLES
  loop,     \* the loop being placed
  edges,    \* the dependences, of one turn and of the next
  priority, \* asap, alap, height and mobility of its nodes, at miiStart
  first,    \* miiStart
  ii,       \* tryII
  slot,     \* slotOf, Unplaced while the node has none
  table,    \* the reservation table: who holds each cycle of each lane
  visited,  \* the nodes the current pass has dealt with
  asked,    \* the placed nodes the current unplaced one has tried to move
  spent,    \* evictions tried at this interval
  maxStage,
  phase     \* "place", "evict", and the result: "done" or "failed"

vars == <<loop, edges, priority, first, ii, slot, table, visited, asked, spent, maxStage, phase>>

Unplaced == -1
Free == 0

Nodes == DOMAIN loop

Placed(at, i) == at[i] # Unplaced

(* The lane of a node: FDIV and EFU first, whatever pipe issues them. *)
Lane(i) == IF loop[i].unit # "none" THEN loop[i].unit ELSE loop[i].pipe

Stage(s) == s \div ii

EmptyTable(m) == [l \in Lanes |-> [c \in 0 .. m - 1 |-> Free]]

-----------------------------------------------------------------------------
(* The reservation table *)

(* The cycles node i holds from slot s on, around the end of the table. *)
Cells(i, s) == {(s + k) % ii : k \in 0 .. Min({loop[i].duration, ii}) - 1}

CanReserve(held, i, s) == \A c \in Cells(i, s) : held[Lane(i)][c] = Free

Marked(held, i, s, owner) ==
  [held EXCEPT ![Lane(i)] = [c \in 0 .. ii - 1 |-> IF c \in Cells(i, s) THEN owner ELSE @[c]]]

Reserve(held, i, s) == Marked(held, i, s, i)

(* Mutant: a release frees the first cycle only. *)
ReleaseFirst(held, i, s) == [held EXCEPT ![Lane(i)][s % ii] = Free]

Release(held, i, s) == Marked(held, i, s, Free)

-----------------------------------------------------------------------------
(* Where a node may go *)

(* How far the end of an edge is from its start, in slots. *)
Gap(e) == e[3] - Distance(e[1], e[2]) * ii

(* The slots tried: the whole table is exercised. *)
Window(i) ==
  {s \in 0 .. SlotBound :
     /\ priority.asap[i] <= s
     /\ s <= Max({priority.alap[i], priority.length, priority.asap[i] + ii})}

(* Mutant: only what comes before i is looked at. *)
EdgeOkBehind(at, i, s) ==
  \A e \in edges : e[2] = i /\ Placed(at, e[1]) => s - at[e[1]] >= Gap(e)

(* Slot s keeps node i its distance from every placed node, on both sides. *)
EdgeOk(at, i, s) ==
  \A e \in edges :
    /\ e[2] = i /\ Placed(at, e[1]) => s - at[e[1]] >= Gap(e)
    /\ e[1] = i /\ Placed(at, e[2]) => at[e[2]] - s >= Gap(e)

Fits(at, held, i) == {s \in Window(i) : CanReserve(held, i, s) /\ EdgeOk(at, i, s)}

(* The first slot that fits, if any does. *)
FirstFit(at, held, i) ==
  LET fits == Fits(at, held, i) IN {s \in fits : \A r \in fits : s <= r}

(* i comes first, in order of priority, among nodes. *)
Foremost(i, nodes) ==
  /\ i \in nodes
  /\ \A j \in nodes \ {i} : Precedes(priority, i, j)

Higher(stage, s) == Max({stage, Stage(s)})

-----------------------------------------------------------------------------
Init ==
  /\ loop \in Loops
  /\ first \in 1 .. IntervalBound
  /\ \E renamed \in BOOLEAN : StartingInterval(loop, renamed, first)
  /\ edges = Edges(loop, FALSE)
  /\ priority \in Priorities(loop, first)
  /\ ii = first
  /\ slot = [i \in DOMAIN loop |-> Unplaced]
  /\ table = EmptyTable(first)
  /\ visited = {} /\ asked = {} /\ spent = 0
  /\ maxStage = 0
  /\ phase = "place"

Visit(i) ==
  /\ phase = "place"
  /\ Foremost(i, Nodes \ visited)
  /\ visited' = visited \cup {i}

(* A NOP goes where its turn begins, unchecked. *)
PlaceNop(i) ==
  /\ Visit(i)
  /\ Lane(i) = "none"
  /\ priority.asap[i] \in 0 .. SlotBound
  /\ slot' = [slot EXCEPT ![i] = priority.asap[i]]
  /\ maxStage' = Higher(maxStage, priority.asap[i])
  /\ UNCHANGED <<loop, edges, priority, first, ii, table, asked, spent, phase>>

PlaceNode(i) ==
  /\ Visit(i)
  /\ Lane(i) # "none"
  /\ \E s \in FirstFit(slot, table, i) :
       /\ slot' = [slot EXCEPT ![i] = s]
       /\ table' = Reserve(table, i, s)
       /\ maxStage' = Higher(maxStage, s)
  /\ UNCHANGED <<loop, edges, priority, first, ii, asked, spent, phase>>

LeaveNode(i) ==
  /\ Visit(i)
  /\ Lane(i) # "none"
  /\ Fits(slot, table, i) = {}
  /\ UNCHANGED <<loop, edges, priority, first, ii, slot, table, asked, spent, maxStage, phase>>

AllPlaced == \A i \in Nodes : Placed(slot, i)

(* The first pass is over. *)
EndPass ==
  /\ phase = "place"
  /\ visited = Nodes
  /\ phase' = IF AllPlaced THEN "done" ELSE "evict"
  /\ visited' = {}
  /\ UNCHANGED <<loop, edges, priority, first, ii, slot, table, asked, spent, maxStage>>

(* f is the unplaced node whose turn it is; a new one is not begun when as   *)
(* many evictions as there are nodes have been tried.                        *)
Seeking(f) ==
  /\ phase = "evict"
  /\ Foremost(f, {i \in Nodes \ visited : ~Placed(slot, i) /\ Lane(i) # "none"})
  /\ spent < Len(loop) \/ asked # {}

Rivals(f) == {b \in Nodes \ {f} : Placed(slot, b) /\ Lane(b) = Lane(f)}

(* With b out of the way f takes slot s. *)
Without(b) == [slot EXCEPT ![b] = Unplaced]
Openings(f, b) == FirstFit(Without(b), Release(table, b, slot[b]), f)
WithTaken(f, b, s) == [Without(b) EXCEPT ![f] = s]
TableTaken(f, b, s) == Reserve(Release(table, b, slot[b]), f, s)

(* Ask b to move. *)
Ask(f, b) ==
  /\ Seeking(f)
  /\ Foremost(b, Rivals(f) \ asked)
  /\ spent' = spent + 1

(* f takes slot s and b finds slot r. *)
Exchange(f, b) ==
  /\ Ask(f, b)
  /\ \E s \in Openings(f, b) :
       \E r \in FirstFit(WithTaken(f, b, s), TableTaken(f, b, s), b) :
         /\ slot' = [slot EXCEPT ![f] = s, ![b] = r]
         /\ table' = Reserve(TableTaken(f, b, s), b, r)
         /\ maxStage' = Max({maxStage, Stage(s), Stage(r)})
  /\ visited' = visited \cup {f} /\ asked' = {}
  /\ UNCHANGED <<loop, edges, priority, first, ii, phase>>

(* Without b there is still no slot for f: b is put back. *)
Unhelpful(f, b) ==
  /\ Ask(f, b)
  /\ Fits(Without(b), Release(table, b, slot[b]), f) = {}
  /\ table' = Reserve(Release(table, b, slot[b]), b, slot[b])
  /\ asked' = asked \cup {b}
  /\ UNCHANGED <<loop, edges, priority, first, ii, slot, visited, maxStage, phase>>

(* b has nowhere to go: f is taken back and b put back. *)
Revert(f, b) ==
  /\ Ask(f, b)
  /\ \E s \in Openings(f, b) :
       /\ Fits(WithTaken(f, b, s), TableTaken(f, b, s), b) = {}
       /\ table' = Reserve(Release(TableTaken(f, b, s), f, s), b, slot[b])
  /\ asked' = asked \cup {b}
  /\ UNCHANGED <<loop, edges, priority, first, ii, slot, visited, maxStage, phase>>

(* Mutant: the node nobody could move for is sought for again. *)
GiveUpForgetting(f) ==
  /\ Seeking(f)
  /\ Rivals(f) \subseteq asked
  /\ asked' = {}
  /\ UNCHANGED <<loop, edges, priority, first, ii, slot, table, visited, spent, maxStage, phase>>

(* Nobody could move for f. *)
GiveUp(f) ==
  /\ Seeking(f)
  /\ Rivals(f) \subseteq asked
  /\ visited' = visited \cup {f} /\ asked' = {}
  /\ UNCHANGED <<loop, edges, priority, first, ii, slot, table, spent, maxStage, phase>>

Exhausted ==
  /\ phase = "evict"
  /\ ~\E f \in Nodes : Seeking(f)

Recovered ==
  /\ Exhausted /\ AllPlaced
  /\ phase' = "done"
  /\ UNCHANGED <<loop, edges, priority, first, ii, slot, table, visited, asked, spent, maxStage>>

(* Mutant: the table keeps its width. *)
BumpNarrowly ==
  /\ Exhausted /\ ~AllPlaced
  /\ ii < first + MaxBumps
  /\ ii' = ii + 1
  /\ slot' = [i \in Nodes |-> Unplaced]
  /\ table' = EmptyTable(ii)
  /\ visited' = {} /\ asked' = {} /\ spent' = 0
  /\ maxStage' = 0
  /\ phase' = "place"
  /\ UNCHANGED <<loop, edges, priority, first>>

(* A wider interval, and everything from the start. *)
Bump ==
  /\ Exhausted /\ ~AllPlaced
  /\ ii < first + MaxBumps
  /\ ii' = ii + 1
  /\ slot' = [i \in Nodes |-> Unplaced]
  /\ table' = EmptyTable(ii')
  /\ visited' = {} /\ asked' = {} /\ spent' = 0
  /\ maxStage' = 0
  /\ phase' = "place"
  /\ UNCHANGED <<loop, edges, priority, first>>

Fail ==
  /\ Exhausted /\ ~AllPlaced
  /\ ii >= first + MaxBumps
  /\ phase' = "failed"
  /\ UNCHANGED <<loop, edges, priority, first, ii, slot, table, visited, asked, spent, maxStage>>

Terminated == phase \in {"done", "failed"} /\ UNCHANGED vars

Next ==
  \/ \E i \in Nodes : PlaceNop(i)
  \/ \E i \in Nodes : PlaceNode(i)
  \/ \E i \in Nodes : LeaveNode(i)
  \/ EndPass
  \/ \E f, b \in Nodes : Unhelpful(f, b)
  \/ \E f, b \in Nodes : Exchange(f, b)
  \/ \E f, b \in Nodes : Revert(f, b)
  \/ \E f \in Nodes : GiveUp(f)
  \/ Recovered
  \/ Bump
  \/ Fail
  \/ Terminated

Spec == Init /\ [][Next]_vars /\ WF_vars(Next)

-----------------------------------------------------------------------------
TypeOK ==
  /\ loop \in Loops
  /\ {first, ii} \subseteq Nat \ {0}
  /\ slot \in [Nodes -> {Unplaced} \cup 0 .. SlotBound]
  /\ table \in [Lanes -> [0 .. ii - 1 -> {Free} \cup Nodes]]
  /\ visited \subseteq Nodes
  /\ asked \subseteq Nodes
  /\ {spent, maxStage} \subseteq Nat
  /\ phase \in {"place", "evict", "done", "failed"}

(* Any two placed nodes keep the distance the turns of the loop ask of them,  *)
(* whatever was evicted, put back or moved in between: the checks at          *)
(* VuSchedulerAnalysis.cpp:7527, 7636 and 7691 only look at what is placed at *)
(* the time.                                                                  *)
EdgesHold ==
  \A e \in edges :
    Placed(slot, e[1]) /\ Placed(slot, e[2]) => slot[e[2]] - slot[e[1]] >= Gap(e)

(* A cycle of a lane is held by exactly the placed node that covers it: no    *)
(* release of the backtracking frees, and no reservation takes, a cycle of    *)
(* another node (clearLane, VuModuloReservationTable.cpp:70).                 *)
TableTrue ==
  \A l \in Lanes, c \in 0 .. ii - 1, i \in Nodes :
    (table[l][c] = i) <=> (Placed(slot, i) /\ Lane(i) = l /\ c \in Cells(i, slot[i]))

(* The search for a kernel ends, with a kernel or without. *)
Settles == <>(phase \in {"done", "failed"})
=============================================================================
