----------------------------- MODULE VuCostAnalysis -----------------------------
(***************************************************************************)
(* The cost reports (VsmCostAnalyzer, Parser::analyzeVsmCostCompareList):   *)
(* the rows of two scheduled programs, a baseline and a candidate, are     *)
(* read one after the other; every row is charged to the block of its      *)
(* label, with the cycles the division and elementary units hold it up.    *)
(* The reports weigh the blocks by how often their label is expected to    *)
(* run, and compare those of one name.                                     *)
(***************************************************************************)
EXTENDS Integers, FiniteSetsExt, SequencesExt

CONSTANTS
  Pairs,      \* baseline and candidate: two sequences of lines
  Selections, \* labels to their expected iterations (--cost-loop)
  Loops       \* the loop names of the ps2gl preset

(* "name" with what the compilers hang on it: SCE's main loops carry the name *)
(* of their program in front, those of the fast family are named              *)
(* adcLoop_done_lid.                                                          *)
Marks == {"PLAIN", "MAIN_LOOP", "SCE_MAIN_LOOP", "SCE_FAST_MAIN_LOOP", "FALLBACK"}

Label == [name : STRING, mark : Marks]

Units == {"NOP", "UPPER", "LOWER", "BRANCH", "FDIV", "EFU", "WAITQ", "WAITP"}

(* parseCycle, classifyMnemonic: a missing slot counts as a NOP. *)
Line ==
  [kind : {"LABEL"}, label : Label]
    \cup [kind : {"ROW"}, upper : BOOLEAN, lower : Units \ {"UPPER"}, latency : Nat, throughput : Nat]
    \cup [kind : {"IGNORED"}]

ASSUME PairsAssumption == Pairs \subseteq Seq(Line) \X Seq(Line)
ASSUME SelectionsAssumption ==
  \A s \in Selections : DOMAIN s \subseteq Label /\ \A l \in DOMAIN s : s[l] \in Nat \ {0}

Entry == [name |-> "<entry>", mark |-> "PLAIN"]

Baseline  == 1
Candidate == 2

VARIABLES
  files,   \* a pair
  reading, \* the file being read, or the one past the last
  next,    \* its next line
  cost,    \* the analyzer of each file
  repeats  \* the labels selected, once both files are read

vars == <<files, reading, next, cost, repeats>>

(* What a block and the whole file are charged with. *)
Counters ==
  {"cycles", "upper", "lower", "paired", "nopOnly", "nopSlots",
   "issue", "fdiv", "efu", "waitq", "waitp"}

Nothing == [c \in Counters |-> 0]

NewBlock(label) == [label |-> label, charge |-> Nothing]

(* reset *)
NewAnalyzer ==
  [ blocks |-> <<NewBlock(Entry)>>, totals |-> Nothing,
    clock |-> 0, qReady |-> 0, pReady |-> 0, fdivFree |-> 0, efuFree |-> 0 ]

Init ==
  /\ files \in Pairs
  /\ reading = Baseline /\ next = 1
  /\ cost = [f \in {Baseline, Candidate} |-> NewAnalyzer]
  /\ repeats = << >>

-----------------------------------------------------------------------------
(* One row (recordCycle) *)

Later(cycle, than) == Max({0, cycle - than})

Stall(a, row) ==
  LET fdiv == IF row.lower = "FDIV" THEN Later(a.fdivFree, a.clock) ELSE 0
      efu  == IF row.lower = "EFU"  THEN Later(a.efuFree,  a.clock) ELSE 0
  IN  [fdiv |-> fdiv, efu |-> efu, issue |-> Max({fdiv, efu})]

IssueCycle(a, row) == a.clock + Stall(a, row).issue

(* Mutant: an upper instruction beside a wait does not issue with the result. *)
WaitBehindRow(a, row, unit, ready) ==
  IF row.lower = unit THEN Later(ready, IssueCycle(a, row) + 1) ELSE 0

(* A wait alone takes a cycle of its own; one beside an upper instruction     *)
(* holds that up until the result is there.                                   *)
Wait(a, row, unit, ready) ==
  IF row.lower = unit
    THEN Later(ready, IF row.upper THEN IssueCycle(a, row) ELSE IssueCycle(a, row) + 1)
    ELSE 0

Waits(a, row) ==
  [waitq |-> Wait(a, row, "WAITQ", a.qReady), waitp |-> Wait(a, row, "WAITP", a.pReady)]

If(condition) == IF condition THEN 1 ELSE 0

Charge(a, row) ==
  LET lower == row.lower # "NOP"
      stall == Stall(a, row)
      waits == Waits(a, row)
  IN  [ cycles   |-> 1,
        upper    |-> If(row.upper),
        lower    |-> If(lower),
        paired   |-> If(row.upper /\ lower),
        nopOnly  |-> If(~row.upper /\ ~lower),
        nopSlots |-> If(~row.upper) + If(~lower),
        issue    |-> stall.issue, fdiv |-> stall.fdiv, efu |-> stall.efu,
        waitq    |-> waits.waitq, waitp |-> waits.waitp ]

Added(counters, charge) == [c \in Counters |-> counters[c] + charge[c]]

Recorded(a, row) ==
  LET issue  == IssueCycle(a, row)
      charge == Charge(a, row)
      Set(unit, cycle, old) == IF row.lower = unit THEN issue + cycle ELSE old
  IN  [ blocks   |-> [a.blocks EXCEPT ![Len(a.blocks)].charge = Added(@, charge)],
        totals   |-> Added(a.totals, charge),
        clock    |-> a.clock + 1 + charge.issue + Max({charge.waitq, charge.waitp}),
        qReady   |-> Set("FDIV", row.latency + 1, a.qReady),
        pReady   |-> Set("EFU", row.latency + 1, a.pReady),
        fdivFree |-> Set("FDIV", row.throughput, a.fdivFree),
        efuFree  |-> Set("EFU", row.throughput, a.efuFree) ]

(* startBlock: a block without rows gives up its label. *)
Started(a, label) ==
  IF Last(a.blocks).charge.cycles = 0
    THEN [a EXCEPT !.blocks[Len(a.blocks)].label = label]
    ELSE [a EXCEPT !.blocks = Append(@, NewBlock(label))]

-----------------------------------------------------------------------------
(* Reading *)

Unread == reading <= Candidate /\ next <= Len(files[reading])

Take(kind, Analyzed(_, _)) ==
  /\ Unread /\ files[reading][next].kind = kind
  /\ cost' = [cost EXCEPT ![reading] = Analyzed(@, files[reading][next])]
  /\ next' = next + 1
  /\ UNCHANGED <<files, reading, repeats>>

ReadLabel   == Take("LABEL", LAMBDA a, line : Started(a, line.label))
ReadRow     == Take("ROW", LAMBDA a, line : Recorded(a, line))
ReadIgnored == Take("IGNORED", LAMBDA a, line : a)

EndFile ==
  /\ reading <= Candidate /\ next > Len(files[reading])
  /\ reading' = reading + 1 /\ next' = 1
  /\ UNCHANGED <<files, cost, repeats>>

Read == reading > Candidate

(* setBlockRepeat, for every label on the command line: analyze forgets what  *)
(* was set before.                                                            *)
Select ==
  /\ Read /\ repeats = << >>
  /\ repeats' \in Selections
  /\ UNCHANGED <<files, reading, next, cost>>

Reported == Read /\ repeats # << >>

Done == Reported /\ UNCHANGED vars

Next == ReadLabel \/ ReadRow \/ ReadIgnored \/ EndFile \/ Select \/ Done

Spec == Init /\ [][Next]_vars

-----------------------------------------------------------------------------
(* Reports *)

(* Blocks that hold rows. *)
Blocks(f) == {k \in DOMAIN cost[f].blocks : cost[f].blocks[k].charge.cycles > 0}

LabelOf(f, k) == cost[f].blocks[k].label

(* canonicalBlockLabel *)
Canonical(label) ==
  CASE label.mark = "SCE_FAST_MAIN_LOOP" /\ label.name = "adcLoop_done_lid"
         -> [name |-> "xform_loop_lid", mark |-> "PLAIN"]
    [] label.mark \in {"SCE_MAIN_LOOP", "SCE_FAST_MAIN_LOOP"}
         -> [label EXCEPT !.mark = "PLAIN"]
    [] label.mark = "MAIN_LOOP" /\ label.name \in Loops
         -> [label EXCEPT !.mark = "PLAIN"]
    [] OTHER -> label

(* The name a block is selected by: its own before the canonical one. *)
Selected(label) == {l \in {label} : l \in DOMAIN repeats}
                     \cup {l \in {Canonical(label)} : label \notin DOMAIN repeats /\ l \in DOMAIN repeats}

(* blockRepeat *)
Repeat(label) == IF Selected(label) = {} THEN 1 ELSE repeats[CHOOSE l \in Selected(label) : TRUE]

(* estimatedBlockCycles *)
Estimated(f, k) ==
  LET c == cost[f].blocks[k].charge IN c.cycles + c.issue + c.waitq + c.waitp

Static(f, k) == cost[f].blocks[k].charge.cycles

Weighted(f, k) == Estimated(f, k) * Repeat(LabelOf(f, k))

(* summary *)
WeightedTotal(f) == MapThenSumSet(LAMBDA k : Weighted(f, k), Blocks(f))

IsFallback(label) == label.mark = "FALLBACK"

(* blockIsAffineLoop *)
IsLoop(label) == Selected(label) # {}

(* Mutant: a loop is known by its own label alone. *)
RoleByOwnLabel(label) ==
  IF IsFallback(label) THEN "FALLBACK" ELSE IF label \in DOMAIN repeats THEN "LOOP" ELSE "BASE"

(* affineCost *)
Role(label) ==
  IF IsFallback(label) THEN "FALLBACK" ELSE IF IsLoop(label) THEN "LOOP" ELSE "BASE"

Affine(f, role, Cycles(_, _)) ==
  MapThenSumSet(LAMBDA k : Cycles(f, k), {k \in Blocks(f) : Role(LabelOf(f, k)) = role})

(* blockComparisons: of blocks with one canonical label the one with fewest   *)
(* weighted cycles is compared.                                               *)
Names == UNION {{Canonical(LabelOf(f, k)) : k \in Blocks(f)} : f \in {Baseline, Candidate}}

Named(f, name) == {k \in Blocks(f) : Canonical(LabelOf(f, k)) = name}

WeightedCycles(f, k) == Static(f, k) * Repeat(LabelOf(f, k))

Compared(f, name) ==
  IF Named(f, name) = {} THEN 0
  ELSE Weighted(f, CHOOSE k \in Named(f, name) :
                     \A j \in Named(f, name) : WeightedCycles(f, k) <= WeightedCycles(f, j))

Delta(name) == Compared(Candidate, name) - Compared(Baseline, name)

(* analyzeVsmCostCompareList, of --cost-compare-list-check weighted-estimated *)
CheckFails == WeightedTotal(Candidate) > WeightedTotal(Baseline)

-----------------------------------------------------------------------------
(* What a reader of the reports may rely on *)

(* The rows of a file, in order. *)
RowsOf(f) == SelectSeq(files[f], LAMBDA line : line.kind = "ROW")

(* When each row issues at the earliest: behind the row above, and no sooner  *)
(* than its unit has taken every operation before.  "End" is when the row     *)
(* below may issue: a wait lets nothing pass before every result of its unit. *)
Earliest(rows) ==
  LET Uses(k, unit) == rows[k].lower = unit
      AwaitedBy(k)  == CASE Uses(k, "WAITQ") -> "FDIV" [] Uses(k, "WAITP") -> "EFU" [] OTHER -> "NONE"
      Issue(time, k) ==
        Max({time[k - 1].end}
              \cup {time[j].issue + rows[j].throughput :
                      j \in {i \in 1 .. k - 1 : Uses(i, rows[k].lower) /\ rows[k].lower \in {"FDIV", "EFU"}}})
      End(time, k, issue) ==
        Max({issue + 1}
              \cup {time[j].issue + rows[j].latency + 1 + If(rows[k].upper) :
                      j \in {i \in 1 .. k - 1 : Uses(i, AwaitedBy(k))}})
      step(time, k) == LET issue == Issue(time, k)
                       IN  time @@ (k :> [issue |-> issue, end |-> End(time, k, issue)])
  IN  FoldLeft(LAMBDA time, k : step(time, k), 0 :> [issue |-> 0, end |-> 0], [k \in DOMAIN rows |-> k])

(* The estimate is exact for the machine it models: the clock is the earliest *)
(* the row behind the file can issue, when every unit is remembered by its    *)
(* last operation alone.                                                      *)
EstimateIsEarliest ==
  \A f \in {Baseline, Candidate} :
    f < reading => cost[f].clock = Earliest(RowsOf(f))[Len(RowsOf(f))].end

OneBlockPerName(f) ==
  \A j, k \in Blocks(f) : Canonical(LabelOf(f, j)) = Canonical(LabelOf(f, k)) => j = k

(* Every report tells of the same cycles: the blocks of a file add up to its  *)
(* clock, base, loops and fallbacks to the same, and to the weighted total    *)
(* when the loops are weighed; where no two blocks share a name the           *)
(* comparison of the blocks adds up to what the check compares.               *)
ReportsAgree ==
  Reported =>
    /\ \A f \in {Baseline, Candidate} :
         LET Est(role) == Affine(f, role, Estimated)
         IN  /\ Est("BASE") + Est("LOOP") + Est("FALLBACK") = cost[f].clock
             /\ MapThenSumSet(LAMBDA k : Static(f, k), Blocks(f)) = cost[f].totals.cycles
             /\ \A n \in {repeats[l] : l \in DOMAIN repeats} :
                  (\A l \in DOMAIN repeats : repeats[l] = n /\ ~IsFallback(l))
                    => Est("BASE") + Est("FALLBACK") + n * Est("LOOP") = WeightedTotal(f)
    /\ (OneBlockPerName(Baseline) /\ OneBlockPerName(Candidate))
         => /\ MapThenSumSet(Delta, Names) = WeightedTotal(Candidate) - WeightedTotal(Baseline)
            /\ CheckFails => \E name \in Names : Delta(name) > 0

=============================================================================
