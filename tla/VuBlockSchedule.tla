---------------------------- MODULE VuBlockSchedule ----------------------------
(***************************************************************************)
(* The scheduler of one basic block with its clock:                        *)
(* scheduleVuBasicBlockReadyIssueSlotsWithFlagLiveness cuts the block into *)
(* segments of candidates and single tail tokens, and                      *)
(* scheduleReadySegmentIssueSlots turns each segment into issue slots, all *)
(* on one latency tracker.  A slot is a row of one or two tokens, a token  *)
(* beside a WAITQ or WAITP, or padding.  Scores and strategies only decide *)
(* which of the ready tokens comes next; here any of them may.             *)
(*                                                                         *)
(* The slots are then executed by a machine that knows only what the code  *)
(* says of the hardware: every word takes a cycle, WAITQ and WAITP stall   *)
(* for the result in flight, VF operands stall by themselves, and nothing  *)
(* else waits.                                                             *)
(***************************************************************************)
EXTENDS VuLatencyTracker

CONSTANTS
  Blocks,   \* the basic blocks the scheduler may be given
  LiveSets  \* the flags that may be read after the block

ASSUME BlocksAssumption == Blocks \subseteq Seq(Instruction)

(* The rows of the instruction table (VuInstructionInfo.cpp): only FSSET both *)
(* reads and writes a flag, and that is STATUS; a load, a store or an xgkick  *)
(* is a lower instruction, and no move.                                       *)
ASSUME TableAssumption ==
  \A b \in Blocks : \A i \in DOMAIN b :
    /\ b[i].access.implicitReads \cap b[i].access.implicitWrites \cap {"MAC", "CLIP"} = {}
    /\ b[i].access.memoryKind # "NONE" => b[i].lower /\ b[i].form # "MOVE"

(* An upper instruction, and the move that becomes one, reads no VI register  *)
(* and no flag.                                                               *)
ASSUME UpperAssumption ==
  \A b \in Blocks : \A i \in DOMAIN b :
    ~b[i].lower \/ b[i].form = "MOVE" =>
      /\ b[i].access.registerReads \subseteq FloatRegister
      /\ b[i].access.implicitReads \cap {"MAC", "CLIP", "STATUS"} = {}

(* A branch, an xgkick and a reader of MAC or CLIP read no VF register; and a *)
(* branch ends its block (buildVuBasicBlocks).                                *)
ASSUME TailAssumption ==
  \A b \in Blocks : \A i \in DOMAIN b :
    /\ \/ b[i].access.memoryKind = "XGKICK"
       \/ b[i].form \in {"BRANCH", "CALL"}
       \/ b[i].access.implicitReads \cap {"MAC", "CLIP"} # {}
       => b[i].access.registerReads \cap FloatRegister = {}
    /\ b[i].form \in {"BRANCH", "CALL"} => i = Len(b)

ASSUME LiveAssumption == LiveSets \subseteq SUBSET {"MAC", "CLIP", "STATUS"}

VARIABLES
  block,    \* the tokens of the basic block
  live,     \* flags some later block reads, or the program declares live
  slots,    \* the issue slots so far
  tracker,  \* the latency tracker
  cycle,    \* currentCycle
  segment,  \* the segment being scheduled, with its mask and its graph
  chosen    \* the tokens of the row being padded, none between rounds

vars == <<block, live, slots, tracker, cycle, segment, chosen>>

Slot ==
  [ tokens  : SUBSET Nat,
    padding : {"NONE", "NOP", "WAITQ", "WAITP"},
    issue   : Nat,
    cycles  : Nat,
    words   : Nat,      \* emitCycleCount
    ignored : SUBSET {"MAC", "CLIP", "STATUS"} ]

Position == DOMAIN block
InRow(i, s) == i \in slots[s].tokens
Scheduled(i) == \E s \in DOMAIN slots : InRow(i, s)

-----------------------------------------------------------------------------
(* The segment *)

(* isVuMacReader, isVuClipReader, isVuStatusReader: FSSET is none of them. *)
ReadsFlag(i, flag) == TokenReads(block[i], flag) /\ ~TokenWrites(block[i], flag)

(* ignoredFlagWawMaskForIndex over analyzeFlagLiveness. *)
IgnoredFlags(index) ==
  {f \in {"MAC", "CLIP", "STATUS"} \ live : \A j \in Position : ReadsFlag(j, f) => j < index}

(* Mutant: the graph of every segment taken from the start of the block. *)
SegmentFromBlockStart(first) ==
  LET last    == Max({first - 1} \cup {j \in first .. Len(block) :
                                       \A k \in first .. j : block[k].candidate})
      ignored == IgnoredFlags(last)
  IN  [ first   |-> first,
        last    |-> last,
        ignored |-> ignored,
        edges   |-> {e \in (first .. last) \X (first .. last) :
                       Edge([k \in Position |-> block[k].access], ignored,
                            e[1] - first + 1, e[2] - first + 1)} ]

(* The run of candidates from a token on, the flags that are dead behind it, *)
(* and the graph buildVuDependencyGraph builds over its tokens alone.        *)
SegmentFrom(first) ==
  LET last    == Max({first - 1} \cup {j \in first .. Len(block) :
                                       \A k \in first .. j : block[k].candidate})
      ignored == IgnoredFlags(last)
      access  == [k \in 1 .. last - first + 1 |-> block[first + k - 1].access]
  IN  [ first   |-> first,
        last    |-> last,
        ignored |-> ignored,
        edges   |-> {e \in (first .. last) \X (first .. last) :
                       Edge(access, ignored, e[1] - first + 1, e[2] - first + 1)} ]

Segment   == segment.first .. segment.last
Remaining == {i \in Segment : ~Scheduled(i)}

Blockers(i) == {e[1] : e \in {d \in segment.edges : d[2] = i}}

Ready(i) ==
  /\ i \in Remaining
  /\ \A p \in Blockers(i) : Scheduled(p)

-----------------------------------------------------------------------------
(* Two tokens in one row *)

(* tokenSchedulesAsLower: a move becomes an upper MAX where MAC is not read. *)
SchedulesAsLower(t, ignored) == t.lower /\ ~(t.form = "MOVE" /\ "MAC" \in ignored)

Lower(i) == SchedulesAsLower(block[i], segment.ignored)

WritesMacForPair(i) == TokenWrites(block[i], "MAC") \/ (block[i].form = "MOVE" /\ ~Lower(i))

NoDataDependency(a, b) ==
  ~RegisterRaw(a.access, b.access) /\ ~RegisterRaw(b.access, a.access)
                                   /\ ~RegisterWaw(a.access, b.access)

(* vuTokenPairResourcesAreIndependent, for two candidates. *)
PairIndependent(i, j) ==
  LET a == block[i].access
      b == block[j].access
  IN  /\ ~(WritesMacForPair(i) /\ Reads(<<a, b>>, 2, "MAC"))
      /\ ~(WritesMacForPair(j) /\ Reads(<<a, b>>, 1, "MAC"))
      /\ a.implicitWrites \cap b.implicitReads = {}
      /\ a.implicitReads \cap b.implicitWrites = {}
      /\ a.implicitWrites \cap b.implicitWrites \subseteq AccumulatingResource
      /\ NoDataDependency(block[i], block[j])

(* What a row may wait for without a word, unless the strategy counts cycles. *)
PairingHazardDelay(tokens, at, stallAware) ==
  IF FmacInterlock /\ ~stallAware
    THEN ManualReadHazardDelay(tracker, tokens, at)
    ELSE ReadHazardDelay(tracker, tokens, at)

(* Mutant: a token that waits for another is taken for a partner. *)
PartnersNotReady(i, stallAware) ==
  {j \in Remaining \ {i} :
     /\ Lower(j) # Lower(i)
     /\ PairIndependent(i, j)
     /\ PairingHazardDelay({block[i], block[j]}, cycle, stallAware)
          <= PairingHazardDelay({block[i]}, cycle, stallAware)}

Partners(i, stallAware) ==
  {j \in Remaining \ {i} :
     /\ Ready(j)
     /\ Lower(j) # Lower(i)
     /\ PairIndependent(i, j)
     /\ PairingHazardDelay({block[i], block[j]}, cycle, stallAware)
          <= PairingHazardDelay({block[i]}, cycle, stallAware)}

(* i is the last blocker of a token of the other pipe. *)
Unblocks(i) ==
  \E k \in Remaining :
    /\ {p \in Blockers(k) : ~Scheduled(p)} = {i}
    /\ block[i].lower # block[k].lower

(* A row goes out half empty for want of a partner of the best token; another *)
(* ready token of its pipe may then take the row (preferUnblockingWhenUnpaired). *)
GoesAlone(i, stallAware) ==
  \E b \in Remaining :
    /\ Ready(b)
    /\ Partners(b, stallAware) = {}
    /\ i = b \/ (block[i].lower = block[b].lower /\ Unblocks(i))

-----------------------------------------------------------------------------
(* Waiting *)

DelayOf(tokens) == ReadHazardDelay(tracker, {block[i] : i \in tokens}, cycle)
KindOf(tokens)  == PaddingKind(tracker, {block[i] : i \in tokens}, cycle)

(* waitPaddingCycleCount *)
WaitCycles(kind) ==
  CASE kind = "WAITQ" -> Max({tracker.q, cycle + 1}) - cycle
    [] kind = "WAITP" -> Max({tracker.p, cycle + 1}) - cycle
    [] OTHER          -> 1

(* An upper token beside the WAITQ or WAITP of kind: it issues when the wait ends. *)
WaitRow(i, kind) ==
  LET issue == cycle + WaitCycles(kind)
  IN  /\ slots' = Append(slots, [ tokens |-> {i}, padding |-> kind, issue |-> cycle,
                                  cycles |-> WaitCycles(kind) + 1, words |-> 1, ignored |-> segment.ignored ])
      /\ tracker' = RecordWrites(tracker, block[i], issue)
      /\ cycle' = issue + 1
      /\ UNCHANGED <<block, live, segment, chosen>>

(* selectUpperWaitFiller: while lower token w waits for Q or P, upper token u *)
(* is ready and waits for nothing.                                            *)
Filler(w, u) ==
  /\ Ready(w) /\ Lower(w) /\ DelayOf({w}) > 0 /\ KindOf({w}) # "NOP"
  /\ Ready(u) /\ ~Lower(u) /\ DelayOf({u}) <= 0

HasFiller == Cardinality(Segment) > 1 /\ \E w, u \in Remaining : Filler(w, u)

WaitsBesideItself(i) ==
  Cardinality(Segment) > 1 /\ ~Lower(i) /\ DelayOf({i}) > 0 /\ KindOf({i}) # "NOP"

-----------------------------------------------------------------------------
(* Rounds of the loop over a segment *)

NoRow == {}

Init ==
  /\ block \in Blocks
  /\ live \in LiveSets
  /\ slots = <<>>
  /\ tracker = ResetTracker
  /\ cycle = 0
  /\ segment = SegmentFrom(1)
  /\ chosen = NoRow

FillWait(w, u) ==
  /\ chosen = NoRow
  /\ Cardinality(Segment) > 1
  /\ Filler(w, u)
  /\ WaitRow(u, KindOf({w}))

(* The best token is an upper one that waits for Q or P: its partner, if one *)
(* was found, stays behind.                                                  *)
IssueWaitingUpper(i) ==
  /\ chosen = NoRow
  /\ Ready(i)
  /\ ~HasFiller
  /\ WaitsBesideItself(i)
  /\ WaitRow(i, KindOf({i}))

ChooseAlone(i) ==
  /\ chosen = NoRow
  /\ Ready(i)
  /\ ~HasFiller
  /\ ~WaitsBesideItself(i)
  /\ \E stallAware \in BOOLEAN : GoesAlone(i, stallAware)
  /\ chosen' = {i}
  /\ UNCHANGED <<block, live, slots, tracker, cycle, segment>>

ChoosePair(i, j) ==
  /\ chosen = NoRow
  /\ Ready(i)
  /\ ~HasFiller
  /\ ~WaitsBesideItself(i)
  /\ \E stallAware \in BOOLEAN : j \in Partners(i, stallAware)
  /\ chosen' = {i, j}
  /\ UNCHANGED <<block, live, slots, tracker, cycle, segment>>

(* The words of a wait: a suppressed NOP is a stall of the FMAC pipeline. *)
PaddingWords(kind, manual) ==
  IF FmacInterlock /\ kind = "NOP" THEN Min({manual, 1}) ELSE WaitCycles(kind)

(* Mutant: only the cycles that became words are counted. *)
PadWords ==
  /\ chosen # NoRow
  /\ DelayOf(chosen) > 0
  /\ LET words == PaddingWords(KindOf(chosen),
                    ManualReadHazardDelay(tracker, {block[i] : i \in chosen}, cycle))
     IN  cycle' = cycle + words
  /\ UNCHANGED <<block, live, slots, tracker, segment, chosen>>

(* One turn of appendReadHazardPaddingSlots. *)
Pad ==
  /\ chosen # NoRow
  /\ DelayOf(chosen) > 0
  /\ LET kind   == KindOf(chosen)
         count  == WaitCycles(kind)
         manual == ManualReadHazardDelay(tracker, {block[i] : i \in chosen}, cycle)
         words  == PaddingWords(kind, manual)
         slot   == [ tokens |-> {}, padding |-> kind, issue |-> cycle, cycles |-> count,
                     words |-> words, ignored |-> {} ]
     IN  /\ slots' = IF words > 0 THEN Append(slots, slot) ELSE slots
         /\ tracker' = DelayPipelinedResultsBy(tracker, count - words)
         /\ cycle' = cycle + count
  /\ UNCHANGED <<block, live, segment, chosen>>

(* The row goes out; a tail ends its segment. *)
Issue ==
  /\ chosen # NoRow
  /\ DelayOf(chosen) <= 0
  /\ LET tail == \E i \in chosen : ~block[i].candidate
     IN  /\ slots' = Append(slots, [ tokens |-> chosen, padding |-> "NONE", issue |-> cycle,
                                     cycles |-> 1, words |-> 1,
                                     ignored |-> IF tail THEN {} ELSE segment.ignored ])
         /\ segment' = IF tail THEN SegmentFrom(segment.last + 2) ELSE segment
  /\ tracker' = RecordRow(tracker, {block[i] : i \in chosen}, cycle)
  /\ cycle' = cycle + 1
  /\ chosen' = NoRow
  /\ UNCHANGED <<block, live>>

-----------------------------------------------------------------------------
(* The token behind a segment: a branch, an xgkick, a flag reader, a wait.   *)

(* tokenCanPairWithBarrierTail and tokenCanPairWithFlagReaderTail *)
TailFits(p, t, ignored) ==
  LET a == p.access
      b == t.access
      barrier    == b.memoryKind = "XGKICK" \/ t.form = "BRANCH"
      flagReader == /\ b.implicitReads \cap {"MAC", "CLIP"} # {}
                    /\ a.memoryKind = "NONE" /\ b.memoryKind = "NONE"
                    /\ t.form # "CALL"
  IN  /\ barrier \/ flagReader
      /\ SchedulesAsLower(p, ignored) # SchedulesAsLower(t, ignored)
      /\ p.form \notin {"BRANCH", "CALL", "WAIT"} /\ t.form # "WAIT"
      /\ a.implicitWrites \cap (b.implicitReads \cup b.implicitWrites) = {}
      /\ b.implicitWrites \cap a.implicitReads = {}
      /\ NoDataDependency(p, t)

(* tryPairTailWithPreviousSlot, and the hazard its caller asks for. *)
JoinsRow(t) ==
  /\ slots # <<>>
  /\ LET row == slots[Len(slots)]
     IN  /\ row.padding = "NONE" /\ row.cycles = 1 /\ Cardinality(row.tokens) = 1
         /\ PairingHazardDelay({block[t]}, row.issue, FALSE) <= 0
         /\ \A p \in row.tokens : TailFits(block[p], block[t], row.ignored)

AtTail ==
  /\ chosen = NoRow
  /\ Remaining = {}
  /\ segment.last < Len(block)

(* Mutant: the segment behind a paired tail begins one token too late. *)
PairTailSkips ==
  /\ AtTail
  /\ LET t == segment.last + 1
         row == slots[Len(slots)]
     IN  /\ JoinsRow(t)
         /\ slots' = [slots EXCEPT ![Len(slots)].tokens = @ \cup {t}]
         /\ tracker' = RecordWrites(tracker, block[t], row.issue)
         /\ segment' = SegmentFrom(t + 2)
  /\ UNCHANGED <<block, live, cycle, chosen>>

PairTail ==
  /\ AtTail
  /\ LET t == segment.last + 1
         row == slots[Len(slots)]
     IN  /\ JoinsRow(t)
         /\ slots' = [slots EXCEPT ![Len(slots)].tokens = @ \cup {t}]
         /\ tracker' = RecordWrites(tracker, block[t], row.issue)
         /\ segment' = SegmentFrom(t + 1)
  /\ UNCHANGED <<block, live, cycle, chosen>>

StartTail ==
  /\ AtTail
  /\ LET t == segment.last + 1
     IN  /\ ~JoinsRow(t)
         /\ chosen' = {t}
  /\ UNCHANGED <<block, live, slots, tracker, cycle, segment>>

Finished == chosen = NoRow /\ Remaining = {} /\ segment.last = Len(block)

Done == Finished /\ UNCHANGED vars

Step ==
  \/ \E w, u \in Remaining : FillWait(w, u)
  \/ \E i \in Remaining : IssueWaitingUpper(i)
  \/ \E i \in Remaining : ChooseAlone(i)
  \/ \E i, j \in Remaining : ChoosePair(i, j)
  \/ Pad
  \/ Issue
  \/ PairTail
  \/ StartTail

Next == Step \/ Done

Spec == Init /\ [][Next]_vars

(* One thread runs the loop to its end. *)
FairSpec == Spec /\ WF_vars(Step)

-----------------------------------------------------------------------------
(* What a reader of the code may rely on *)

TypeOK ==
  /\ block \in Seq(Instruction)
  /\ live \in LiveSets
  /\ slots \in Seq(Slot)
  /\ tracker \in Tracker
  /\ cycle \in Nat
  /\ segment.first \in 1 .. Len(block) + 1
  /\ segment.edges \subseteq Segment \X Segment
  /\ chosen \subseteq Position

InOneSegment(b, i, j) == \A k \in i .. j : b[k].candidate

(* What the block asks of its rows.  A status reader that names a non-sticky  *)
(* bit asks for the last contributor to stay last.  The graph of a segment    *)
(* answers that for the readers it holds; a reader behind the segment of two  *)
(* of its contributors, as every tail is, is not seen there and not answered. *)
AccessOf(b) ==
  LET access == [i \in DOMAIN b |-> b[i].access]
      Answered(r) ==
        \A i, j \in DOMAIN b :
          /\ i < j /\ InOneSegment(b, i, j)
          /\ ContributorAt(access, i, r, "STATUS")
          /\ ContributorAt(access, j, r, "STATUS")
          => InOneSegment(b, i, r)
  IN  [r \in DOMAIN b |-> [access[r] EXCEPT !.needsLast = @ /\ Answered(r)]]

TokenSlots(n) == {s \in 1 .. n : slots[s].tokens # {}}

RowOf(i) == IF Scheduled(i)
              THEN Cardinality(TokenSlots(CHOOSE s \in DOMAIN slots : InRow(i, s)))
              ELSE 0

(* The rows of the first segment of a block are an order VuReadyOrder allows. *)
FirstSegment == 1 .. SegmentFrom(1).last

Order == INSTANCE VuReadyOrder WITH
  Blocks      <- BlockType,
  IgnoredSets <- SUBSET {"MAC", "CLIP", "STATUS"},
  block       <- [i \in FirstSegment |-> block[i].access],
  ignored     <- SegmentFrom(1).ignored,
  row         <- [i \in FirstSegment |-> RowOf(i)],
  rows        <- Cardinality({s \in TokenSlots(Len(slots)) : slots[s].tokens \cap FirstSegment # {}})

(* The rows of the whole block, its tails included, and what may be read of  *)
(* the flags behind it.                                                      *)
Whole == INSTANCE VuReadyOrder WITH
  Blocks      <- BlockType,
  IgnoredSets <- SUBSET {"MAC", "CLIP", "STATUS"},
  block       <- AccessOf(block),
  ignored     <- {"MAC", "CLIP", "STATUS"} \ live,
  row         <- [i \in Position |-> RowOf(i)],
  rows        <- Cardinality(TokenSlots(Len(slots)))

(* The code that turns a segment into rows, padding and waits implements the *)
(* abstract order: a row goes out only when all its tokens wait for is out.  *)
ImplementsReadyOrder == Order!Spec

(* Every register read and ordered memory pair of a finished block, across   *)
(* its segments and in the rows its tails were slipped into, is as in the    *)
(* source; and the masks of the segments together keep every flag a reader   *)
(* behind the segment, or behind the block, may ask for (the non-sticky bits  *)
(* of STATUS only as far as AccessOf says).                                  *)
BlockReadsPreserved ==
  Finished =>
    /\ Whole!RegisterReadsPreserved
    /\ Whole!MemoryOrderPreserved
    /\ Whole!ImplicitReadsPreserved
    /\ Whole!LiveOutPreserved

-----------------------------------------------------------------------------
(* The machine that runs the slots *)

(* The machine is what the code says of the hardware (VuLatencyTracker.h).   *)
(* It keeps its own tracker, filled at the cycles the rows really issue.     *)
(* The code trusts the FMAC interlock to stall, but not to carry a division  *)
(* on: the words between it and its reader must be enough, so the machine is *)
(* also run without the stalls.                                              *)
WaitEnd(machine, padding) ==
  CASE padding = "WAITQ" -> Max({machine.cycle, machine.tracker.q})
    [] padding = "WAITP" -> Max({machine.cycle, machine.tracker.p})
    [] OTHER             -> machine.cycle

StallEnds(machine, row) ==
  {RegisterReady(machine.tracker, row, r)
     : r \in {s \in RegisterReads(row) : Interlocked(machine.tracker, row, s)}}

IssueAt(machine, row, padding, stalling) ==
  Max({WaitEnd(machine, padding)} \cup IF stalling THEN StallEnds(machine, row) ELSE {})

RunSlot(machine, row, slot, stalling) ==
  LET at == IssueAt(machine, row, slot.padding, stalling)
  IN  IF slot.padding = "NOP"
        THEN [machine EXCEPT !.cycle = @ + slot.words]
        ELSE [ tracker |-> RecordRow(machine.tracker, row, at),
               cycle   |-> Max({at, machine.cycle + 1} \cup {at + 1 : t \in row}) ]

Operands(slot) == {block[i] : i \in slot.tokens}

(* The machine behind each of the slots. *)
Machine(stalling) ==
  LET run[n \in 0 .. Len(slots)] ==
        IF n = 0 THEN [tracker |-> ResetTracker, cycle |-> 0]
                 ELSE RunSlot(run[n - 1], Operands(slots[n]), slots[n], stalling)
  IN  run

(* The result of a division or of the EFU is read before it arrives. *)
EarlyPipelinedRead(n, stalling) ==
  LET machine == Machine(stalling)[n - 1]
      row     == Operands(slots[n])
      at      == IssueAt(machine, row, slots[n].padding, stalling)
  IN  \/ RowReads(row, "Q") /\ machine.tracker.q > at
      \/ RowReads(row, "P") /\ machine.tracker.p > at

(* A register the hardware does not stall for is read before it is ready. *)
EarlyRegisterRead(n) ==
  LET machine == Machine(TRUE)[n - 1]
      row     == Operands(slots[n])
      at      == IssueAt(machine, row, slots[n].padding, TRUE)
  IN  \E r \in RegisterReads(row) :
        ~Interlocked(machine.tracker, row, r) /\ RegisterReady(machine.tracker, row, r) > at

(* A flag is read before its last write is visible. *)
EarlyFlagRead(n) ==
  LET machine == Machine(TRUE)[n - 1]
      row     == Operands(slots[n])
  IN  FlagDelay(machine.tracker, row, IssueAt(machine, row, slots[n].padding, TRUE)) > 0

(* A wait for Q counts as words for P, and for every register and flag, and  *)
(* a wait for P for Q; but the machine may have stalled for something the     *)
(* clock of the scheduler has no cycle for, and the wait then ends early:     *)
(* with both in flight the words promise nothing once the machine stalls.    *)
OnePipeline ==
  \/ \A i \in Position : ~TokenWrites(block[i], "Q")
  \/ \A i \in Position : ~TokenWrites(block[i], "P")

OperandsReady == \A n \in DOMAIN slots : ~EarlyRegisterRead(n) /\ ~EarlyFlagRead(n)

(* Every integer read waits in words for what the hardware does not stall    *)
(* for, and every flag read for the flag of the last write before it, where  *)
(* only one of Q and P is in flight.                                          *)
ReadsReady == Finished /\ OnePipeline => OperandsReady

(* A reader of Q or P never finds the previous quotient: in no block when    *)
(* the words alone are counted, and in none with only one of the two in      *)
(* flight when the stalls that became no words let it go on.                  *)
PipelinedReadsReady ==
  Finished =>
    \A n \in DOMAIN slots, stalling \in BOOLEAN :
      (stalling => OnePipeline) => ~EarlyPipelinedRead(n, stalling)

(* That, and a schedule that never waits for Q or P is on the machine's       *)
(* clock: the stalls it leaves out of the words happen.                       *)
StalledReadsReady ==
  /\ PipelinedReadsReady
  /\ Finished /\ (\A n \in DOMAIN slots : slots[n].padding \in {"NONE", "NOP"}) => OperandsReady

(* The scheduler finishes: every turn of the padding loop comes closer to the *)
(* cycle the row may issue in, although it moves Q and P away.                *)
AllScheduled == <>Finished
================================================================================
