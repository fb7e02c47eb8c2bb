------------------------------- MODULE VuEmission -------------------------------
(***************************************************************************)
(* The strict emitter (CodeGenerator::emitStrictScheduledProgram) turns    *)
(* the issue slots of a scheduled program into rows: padding, waits, pairs, *)
(* branches with their bubble above and their delay slot below, the [E]    *)
(* pair of an exit.  With --emit-delay-fillers it takes the last row back   *)
(* and puts it behind the branch.  The end of beginProcess then pads what  *)
(* only the finished text shows.                                           *)
(*                                                                         *)
(* The slots and the rows are run along the same turns of their branches,  *)
(* each noting which write every read finds.                               *)
(***************************************************************************)
EXTENDS VuEmittedRows

CONSTANTS
  Programs,    \* issue slots, as the scheduler hands them over
  OptionSets,  \* settings of --emit-delay-fillers and --branch-bubble-on-dependency
  Guard,       \* turns after which a padding pass gives up (4096)
  MaxTurns     \* branches a run follows

Options == [delayFillers : BOOLEAN, bubbleOnDependency : BOOLEAN]

(* One or two tokens, or none in a slot of padding. *)
IssueSlot ==
  [ tokens  : Seq(Item),
    padding : {"NONE", "NOP", "WAITQ", "WAITP"},
    cycles  : Nat,
    words   : Nat ]

ASSUME ProgramAssumption == Programs \subseteq Seq(IssueSlot)
ASSUME OptionAssumption == OptionSets \subseteq Options
ASSUME GuardAssumption == {Guard, MaxTurns} \subseteq Nat

VARIABLES
  slots,    \* the program
  options,
  at,       \* the slot the loop has come to
  out,      \* what has been emitted, with the clock and the tracker
  moved,    \* m_emittedDelayFiller: the "at" of the token last taken back
  phase,    \* "slots", then the passes "clip" and "condition", then "run"
  tries,    \* turns the pass has taken
  source,   \* the machine that runs the slots
  output,   \* the machine that runs the rows
  turns     \* which way each branch went

emitter == <<slots, options, at, out, moved, phase, tries>>
machines == <<source, output, turns>>
vars == <<emitter, machines>>

(* Where a branch leads that goes to no place in the program. *)
Onward   == 0   \* to what follows
AtEnd    == -1  \* an [E]
AtReturn == -2  \* a register branch
AtCut    == -3  \* behind MaxTurns branches
OffEnd   == -4  \* past the last row

(* leads: where the branch above leads, while its slot is executed; branches: *)
(* how many were executed; writer: the last token to write a register or a    *)
(* resource; reads: token, execution and the writers it found; above: the row *)
(* executed before; pushed: rows executed since a CLIP; end: Onward, or where *)
(* the run came to its end.                                                    *)
Machine ==
  [ pc       : Nat,
    leads    : Int,
    branches : Nat,
    writer   : [Register \cup Resource -> Nat],
    reads    : SUBSET (Nat \X Nat \X SUBSET ((Register \cup Resource) \X Nat)),
    above    : SUBSET Item,
    pushed   : 0 .. ClipWindow,
    end      : {Onward, AtEnd, AtReturn, AtCut, OffEnd} ]

Start ==
  [ pc |-> 1, leads |-> Onward, branches |-> 0, writer |-> [r \in Register \cup Resource |-> 0],
    reads |-> {}, above |-> {}, pushed |-> ClipWindow, end |-> Onward ]

Init ==
  /\ slots \in Programs
  /\ options \in OptionSets
  /\ at = 1
  /\ out = [lines |-> <<>>, exitWritten |-> TRUE, cycle |-> 0, tracker |-> ResetTracker]
  /\ moved = 0
  /\ phase = "slots"
  /\ tries = 0
  /\ source = Start
  /\ output = Start
  /\ turns = <<>>

-----------------------------------------------------------------------------
(* Tokens *)

HasDelaySlot(t) == t.branch # "NONE"

(* isVuTerminalUnconditionalBranch, of jr among the register branches. *)
Terminal(t) == t.branch \in {"JUMP", "RETURN"}

(* branchNeedsPreBubble: every branch but a plain jump. *)
NeedsBubble(t) == t.branch \in {"COND", "CALL", "RETURN"}

(* vuTokensHaveDataDependency, of the partner of a branch and its filler. *)
DataDependency(s, t) == RegisterRaw(s.ins.access, t.ins.access) \/ RegisterWaw(s.ins.access, t.ins.access)

(* Mutant: the registers of the branch are not compared. *)
FitsAnyBranch(t, branch) == t.role = "CODE" /\ t.integer /\ ~t.filler /\ ~HasDelaySlot(t)

(* canMoveIntoBranchDelaySlot; the stores it names fail its test of the       *)
(* latency.                                                                   *)
CanMoveIntoSlot(t, branch) ==
  /\ t.role = "CODE" /\ t.integer /\ ~t.filler /\ ~HasDelaySlot(t)
  /\ t.ins.access.memoryKind = "NONE"
  /\ t.ins.access.implicitReads \cup t.ins.access.implicitWrites = {}
  /\ WritesOf(t) \cap (ReadsOf(branch) \cup WritesOf(branch)) = {}
  /\ ReadsOf(t) \cap WritesOf(branch) = {}

IsPadding(slot) == slot.tokens = <<>>

(* slotCanBecomeBranchDelayFiller *)
CanBecomeFiller(slot, branch) ==
  /\ options.delayFillers
  /\ Len(slot.tokens) = 1
  /\ CanMoveIntoSlot(slot.tokens[1], branch)

(* What --branch-interlock leaves to the hardware. *)
InterlockedProducer(t) ==
  /\ BranchInterlock
  /\ t.ins.access.memoryKind = "LOAD" \/ t.ins.access.implicitReads \cap {"CLIP", "MAC", "STATUS"} # {}

FeedsBranch(slot, branch) ==
  \E t \in Range(slot.tokens) \ {branch} :
    ~InterlockedProducer(t) /\ WritesOf(t) \cap ReadsOf(branch) # {}

(* scheduledSlotsFeedBranch: the slot above, and the one above that when the  *)
(* slot between is about to move into the delay slot.                         *)
SlotsFeedBranch(i, branch) ==
  \/ i > 1 /\ FeedsBranch(slots[i - 1], branch)
  \/ i > 2 /\ CanBecomeFiller(slots[i - 1], branch) /\ FeedsBranch(slots[i - 2], branch)

(* m_skipBranchPreBubble *)
SkipsBubble(i, branch) == options.bubbleOnDependency /\ ~SlotsFeedBranch(i, branch)

-----------------------------------------------------------------------------
(* Lines.  Each operator takes what has been emitted to what is emitted next. *)

WithLine(o, line) == [o EXCEPT !.lines = Append(@, line)]

Nop(o) == [o EXCEPT !.lines = Append(@, NopLine), !.cycle = @ + 1]

Nops(n, o) == [o EXCEPT !.lines = @ \o [k \in 1 .. n |-> NopLine], !.cycle = @ + n]

EndPair(o) ==
  [o EXCEPT !.lines = @ \o <<RowLine({}, "E"), NopLine>>, !.exitWritten = TRUE]

(* A row of tokens, their writes recorded, and the clock moved on. *)
IssueRow(o, tokens, recorded) ==
  [o EXCEPT !.lines   = Append(@, RowLine(tokens, "NONE")),
            !.tracker = FoldSet(LAMBDA t, k : RecordWrites(k, t.ins, o.cycle), @, recorded),
            !.cycle   = @ + 1]

(* emittedRowsSinceClipWrite, as a set with that number or empty behind a     *)
(* label.                                                                     *)
RowsSincePush(o) ==
  {n \in 0 .. Len(o.lines) - 1 :
     /\ PushesClip(o.lines[Len(o.lines) - n])
     /\ \A k \in 0 .. n - 1 : LET line == o.lines[Len(o.lines) - k]
                              IN  line.kind = "ROW" /\ ~PushesClip(line)}

(* padForClipFlagWindow *)
WithClipPads(o, tokens) ==
  IF /\ \E t \in tokens : TokenReads(t.ins, "CLIP")
     /\ ~\E t \in tokens : TokenWrites(t.ins, "CLIP")
    THEN Nops(Max({0} \cup {ClipWindow - 1 - n : n \in RowsSincePush(o)}), o)
    ELSE o

(* padForBranchPreBubble *)
WithBubble(o, branch, skip) ==
  IF NeedsBubble(branch) /\ ~skip /\ (o.lines = <<>> \/ Last(o.lines) # NopLine) THEN Nop(o) ELSE o

(* emitSingleToken *)
Single(o, t, skip) ==
  LET padded == WithClipPads(o, {t})
  IN  IF HasDelaySlot(t)
        THEN Nop(IssueRow(WithBubble(padded, t, skip), {t}, {}))
        ELSE IssueRow(padded, {t}, {t})

(* The rows of a branch whose slot is filled: the second part of              *)
(* emitBranchWithDelayFiller.                                                 *)
BranchWithFiller(o, branch, filler, skip) ==
  IssueRow(IssueRow(WithBubble(o, branch, skip), {branch}, {}), {filler}, {filler})

(* emitPairedTokens up to the rows of its delay slot. *)
PairRow(o, pair, skip) ==
  LET padded  == WithClipPads(o, pair)
      bubbled == FoldSet(LAMBDA t, k : WithBubble(k, t, skip), padded, pair)
  IN  IssueRow(bubbled, pair, pair)

Pair(o, pair, skip) ==
  IF \E t \in pair : HasDelaySlot(t) THEN Nop(PairRow(o, pair, skip)) ELSE PairRow(o, pair, skip)

(* emitPairedBranchWithDelayFiller *)
PairWithFiller(o, pair, filler, skip) == IssueRow(PairRow(o, pair, skip), {filler}, {filler})

Emits(t) == t.role = "CODE"

(* Mutant: an instruction does not open the program again. *)
PreparedStaysClosed(o, t) ==
  CASE t.role = "LABEL" -> WithLine(o, LabelLine(t.name))
    [] t.role = "CONT"  -> EndPair(o)
    [] t.role = "EXIT"  -> IF o.exitWritten THEN o ELSE EndPair(o)
    [] OTHER            -> o

(* prepareStrictScheduledToken *)
Prepared(o, t) ==
  CASE t.role = "LABEL" -> WithLine(o, LabelLine(t.name))
    [] t.role = "CONT"  -> EndPair(o)
    [] t.role = "EXIT"  -> IF o.exitWritten THEN o ELSE EndPair(o)
    [] t.role = "CODE"  -> [o EXCEPT !.exitWritten = FALSE]
    [] OTHER            -> o

Closed(o, tokens) == [o EXCEPT !.exitWritten = @ \/ \E t \in tokens : Terminal(t)]

-----------------------------------------------------------------------------
(* One turn of the loop over the slots *)

Slot == slots[at]

Here == Range(Slot.tokens)

(* What prepareStrictScheduledToken leaves, of the first and then the second. *)
Ready == FoldLeft(LAMBDA o, t : Prepared(o, t), out, Slot.tokens)

Emitted == {t \in Here : Emits(t)}

(* branchTokenInScheduledSlot, as a set. *)
BranchHere == {t \in Here : HasDelaySlot(t)}

(* The next slot that is not padding. *)
SlotBehind(i) == Min({k \in i + 1 .. Len(slots) + 1 : k > Len(slots) \/ ~IsPadding(slots[k])})

NextSlot == SlotBehind(at)

(* The token marked as delay filler in the next slot that is not padding. *)
FillerHere ==
  IF BranchHere # {} /\ NextSlot <= Len(slots)
    THEN {t \in Range(slots[NextSlot].tokens) : t.filler}
    ELSE {}

(* The token of the slot above that --emit-delay-fillers takes back: its row  *)
(* is the last line.                                                          *)
Retracted ==
  IF options.delayFillers /\ at > 1 /\ FillerHere = {} /\ BranchHere # {}
    THEN {t \in Range(slots[at - 1].tokens) :
            /\ Len(slots[at - 1].tokens) = 1
            /\ t.at # moved
            /\ \A b \in BranchHere : CanMoveIntoSlot(t, b)
            /\ Last(Ready.lines).kind = "ROW"}
    ELSE {}

Advance(o, next) ==
  /\ out' = o
  /\ at' = next
  /\ UNCHANGED <<slots, options, phase, tries>>

AtSlot == phase = "slots" /\ at <= Len(slots)

(* emitWaitQ, emitWaitP *)
WaitEnds(kind) == Max({out.cycle + 1, IF kind = "WAITQ" THEN out.tracker.q ELSE out.tracker.p})

(* emitStrictScheduledPadding *)
EmitPadding ==
  /\ AtSlot /\ IsPadding(Slot)
  /\ LET cycles == Max({1, Slot.cycles})
         words  == Min({Slot.words, cycles})
     IN  IF Slot.padding = "NOP"
           THEN Advance([Nops(words, out) EXCEPT
                           !.tracker = DelayPipelinedResultsBy(@, cycles - words),
                           !.cycle   = out.cycle + cycles], at + 1)
           ELSE Advance([out EXCEPT !.lines = Append(@, RowLine({}, Slot.padding)),
                                    !.cycle = WaitEnds(Slot.padding)], at + 1)
  /\ UNCHANGED moved

(* An upper token beside a wait. *)
WaitsBeside ==
  /\ Slot.padding \in {"WAITQ", "WAITP"}
  /\ \E t \in Here : Emitted = {t} /\ ~t.ins.lower

(* emitUpperWithWait *)
EmitUpperWithWait ==
  /\ AtSlot /\ ~IsPadding(Slot)
  /\ WaitsBeside
  /\ \E t \in Emitted :
       LET pending == IF Slot.padding = "WAITQ" THEN out.tracker.q ELSE out.tracker.p
           issue   == Max({pending, out.cycle})
       IN  Advance([Ready EXCEPT !.lines   = Append(@, RowLine({t}, Slot.padding)),
                                    !.tracker = RecordWrites(@, t.ins, issue),
                                    !.cycle   = issue + 1], at + 1)
  /\ UNCHANGED moved

Plain == AtSlot /\ ~IsPadding(Slot) /\ ~WaitsBeside

(* The row above goes behind the branch; whatever shares the slot of the      *)
(* branch is not emitted.                                                     *)
EmitRetracted ==
  /\ Plain
  /\ \E c \in Retracted, b \in BranchHere :
       /\ LET taken == [Prepared(Ready, c) EXCEPT !.lines = Front(@)]
          IN  Advance(Closed(BranchWithFiller(taken, b, c, SkipsBubble(at, b)), {b}), at + 1)
       /\ moved' = c.at

(* The rows a filler waits for behind the partner of its branch, all but one. *)
FillerPads(o, filler) == Max({0, ReadHazardDelay(o.tracker, {filler.ins}, o.cycle) - 1})

FilledRows(o, branch, filler, skip) ==
  LET partner == Emitted \ {branch}
      alone   == Single(o, CHOOSE p \in partner : TRUE, skip)
  IN  IF \E p \in partner : DataDependency(p, filler)
        THEN BranchWithFiller(Nops(FillerPads(alone, filler), alone), branch, filler, skip)
      ELSE IF partner # {} THEN PairWithFiller(o, Emitted, filler, skip)
      ELSE BranchWithFiller(o, branch, filler, skip)

(* The branch and the filler of the next slot, which is then behind. *)
EmitFilled ==
  /\ Plain
  /\ \E f \in FillerHere, b \in BranchHere :
       Advance(Closed(FilledRows(Prepared(Ready, f), b, f, SkipsBubble(at, b)), {b}), NextSlot + 1)
  /\ UNCHANGED moved

(* tokensCanPair, of two tokens the scheduler has found to be independent. *)
Pairs(pair) == \E s, t \in pair : s.ins.lower /\ ~t.ins.lower

SlotRows(o) ==
  LET skip == \E b \in BranchHere : SkipsBubble(at, b)
  IN  IF Cardinality(Emitted) = 2 /\ Pairs(Emitted)
        THEN Pair(o, Emitted, skip)
        ELSE FoldLeft(LAMBDA k, t : IF Emits(t) THEN Single(k, t, skip) ELSE k, o, Slot.tokens)

EmitSlot ==
  /\ Plain
  /\ FillerHere = {} /\ Retracted = {}
  /\ Advance(Closed(SlotRows(Ready), Emitted), at + 1)
  /\ UNCHANGED moved

-----------------------------------------------------------------------------
(* The end of beginProcess *)

To(next) == phase' = next /\ tries' = 0

(* The end pair, if the last instruction left the program open. *)
CloseProgram ==
  /\ phase = "slots" /\ at > Len(slots)
  /\ out' = IF out.exitWritten THEN out ELSE EndPair(out)
  /\ To("clip")
  /\ UNCHANGED <<slots, options, at, moved>>

(* padClipFlagWindowAcrossPaths *)
PadClip ==
  /\ phase = "clip"
  /\ IF ClipWindow > 1 /\ tries < Guard /\ ShortWindows(out.lines) # {}
       THEN out' = [out EXCEPT !.lines = ClipPadded(@)] /\ tries' = tries + 1 /\ UNCHANGED phase
       ELSE To("condition") /\ UNCHANGED out
  /\ UNCHANGED <<slots, options, at, moved>>

(* padBranchConditionAcrossPaths *)
PadCondition ==
  /\ phase = "condition"
  /\ IF options.bubbleOnDependency /\ tries < Guard /\ FedThroughLabel(out.lines) # {}
       THEN out' = [out EXCEPT !.lines = BubbleInserted(@)] /\ tries' = tries + 1 /\ UNCHANGED phase
       ELSE To("run") /\ UNCHANGED out
  /\ UNCHANGED <<slots, options, at, moved>>

Emit ==
  /\ \/ EmitPadding \/ EmitUpperWithWait \/ EmitRetracted \/ EmitFilled \/ EmitSlot
     \/ CloseProgram \/ PadClip \/ PadCondition
  /\ UNCHANGED machines

-----------------------------------------------------------------------------
(* Running *)

Keys(access, direction) ==
  IF direction = "read" THEN access.registerReads \cup access.implicitReads
                        ELSE access.registerWrites \cup access.implicitWrites

(* All tokens of a row read before one of them writes. *)
Executed(m, row) ==
  LET Times(t)  == Cardinality({e \in m.reads : e[1] = t.at})
      Found(t)  == {<<r, m.writer[r]>> : r \in Keys(t.ins.access, "read")}
      Writer(r) == {t.at : t \in {u \in row : r \in Keys(u.ins.access, "write")}}
  IN  [m EXCEPT
         !.reads    = @ \cup {<<t.at, Times(t), Found(t)>> : t \in row},
         !.writer   = [r \in DOMAIN @ |-> IF Writer(r) = {} THEN @[r] ELSE Max(Writer(r))],
         !.above    = row,
         !.branches = @ + Cardinality({t \in row : HasDelaySlot(t)}),
         !.pushed   = IF \E t \in row : TokenWrites(t.ins, "CLIP") THEN 0 ELSE Min({@ + 1, ClipWindow})]

HasBranch(row) == \E t \in row : HasDelaySlot(t)

(* The turns the branch of a row may take. *)
Turns(row) ==
  IF ~HasBranch(row) THEN {"NONE"}
  ELSE IF Len(turns) >= MaxTurns THEN {"CUT"}
  ELSE IF \E t \in row : t.branch = "COND" THEN {"TAKEN", "NOT TAKEN"} ELSE {"TAKEN"}

(* Where a row leads on a turn; Place gives the place of a label. *)
LeadsTo(row, turn, Place(_)) ==
  CASE turn = "CUT"   -> AtCut
    [] turn = "TAKEN" -> LET branch == CHOOSE t \in row : HasDelaySlot(t)
                         IN  IF branch.branch = "RETURN" THEN AtReturn ELSE Place(branch.name)
    [] OTHER          -> Onward

Went(m, leads) ==
  IF leads = Onward THEN [m EXCEPT !.pc = @ + 1, !.leads = Onward]
  ELSE IF leads < 0 THEN [m EXCEPT !.end = leads]
  ELSE [m EXCEPT !.pc = leads, !.leads = Onward]

SlotOfLabel(name) ==
  SelectInSeq(slots, LAMBDA s : \E t \in Range(s.tokens) : t.role = "LABEL" /\ t.name = name)

HoldsFiller(i) == i <= Len(slots) /\ \E t \in Range(slots[i].tokens) : t.filler

Ends(slot) == \E t \in Range(slot.tokens) : t.role \in {"EXIT", "CONT"}

(* One slot.  A branch takes effect behind the filler of its delay slot; the  *)
(* program ends behind its last slot.                                         *)
RunSlot ==
  /\ phase = "run"
  /\ source.end = Onward /\ source.pc <= Len(slots)
  /\ LET slot == slots[source.pc]
         row  == {t \in Range(slot.tokens) : Emits(t)}
         m    == Executed(source, row)
         next == SlotBehind(source.pc)
     IN  \E turn \in Turns(row) :
           LET leads == IF Ends(slot) THEN AtEnd ELSE LeadsTo(row, turn, SlotOfLabel)
           IN  /\ source' = IF HasBranch(row) /\ HoldsFiller(next)
                              THEN [m EXCEPT !.pc = next, !.leads = leads]
                            ELSE Went(m, IF source.leads # Onward THEN source.leads ELSE leads)
               /\ turns' = IF HasBranch(row) THEN Append(turns, turn) ELSE turns
  /\ UNCHANGED <<emitter, output>>

RunBehindSlots ==
  /\ phase = "run"
  /\ source.end = Onward /\ source.pc > Len(slots)
  /\ source' = [source EXCEPT !.end = AtEnd]
  /\ UNCHANGED <<emitter, output, turns>>

RowTurn(m, row) ==
  IF ~HasBranch(row) THEN "NONE"
  ELSE IF m.branches < Len(turns) THEN turns[m.branches + 1] ELSE "CUT"

(* One row, on the turns the slots have taken. *)
RunRow ==
  /\ phase = "run"
  /\ source.end # Onward /\ output.end = Onward
  /\ LET rows == RowsOf(out.lines)
     IN  output' =
           IF output.pc > Len(rows) THEN [output EXCEPT !.end = OffEnd]
           ELSE LET row   == rows[output.pc]
                    m     == Executed(output, row.tokens)
                    leads == IF row.extra = "E" THEN AtEnd
                             ELSE LeadsTo(row.tokens, RowTurn(output, row.tokens),
                                          LAMBDA name : LabelRow(out.lines, name))
                IN  IF output.leads # Onward THEN Went(m, output.leads)
                    ELSE [m EXCEPT !.pc = @ + 1, !.leads = leads]
  /\ UNCHANGED <<emitter, source, turns>>

Ran == output.end # Onward

Done == Ran /\ UNCHANGED vars

Next == Emit \/ RunSlot \/ RunBehindSlots \/ RunRow \/ Done

Spec == Init /\ [][Next]_vars

-----------------------------------------------------------------------------
(* What a reader of the code may rely on *)

(* Padding, pairing, retracting and filling delay slots change nothing of     *)
(* what the program does: along every path each scheduled instruction is      *)
(* executed as often as in the schedule, and each read finds the same write.  *)
RunsAsScheduled == Ran => output.reads = source.reads

(* Every path through the rows ends where the schedule ends it, at an [E] or  *)
(* a return: none runs past the last row.                                     *)
EveryPathEnds == Ran => output.end = source.end

(* The row about to run keeps the distances the hardware does not: a reader of *)
(* the clip flags comes ClipWindow rows or more behind the last push, and a    *)
(* branch does not test what an integer instruction in the row executed before *)
(* it wrote, along whatever path it was reached.                               *)
RowGapsKept ==
  LET rows == RowsOf(out.lines)
  IN  phase = "run" /\ output.end = Onward /\ output.pc \in DOMAIN rows
        => /\ ReadsClip(rows[output.pc]) => output.pushed >= ClipWindow - 1
           /\ ~Feeds([tokens |-> output.above], rows[output.pc])

(* Both passes over the finished text come to an end by themselves: a row put *)
(* in settles the path it was put in for and unsettles no other.              *)
PassesSettle == tries < Guard

=============================================================================
