----------------------------- MODULE VuEmittedRows -----------------------------
(***************************************************************************)
(* The text the code generator has emitted: label lines and instruction    *)
(* rows.  The flow graph over the rows (buildEmittedRowGraph) and the two   *)
(* passes that read distances off it and insert NOP rows                    *)
(* (insertOneCrossPathClipPad, insertOneCrossPathBranchBubble).             *)
(***************************************************************************)
EXTENDS VuLatencyTracker, SequencesExt

CONSTANTS
  Label,      \* names of labels
  NoLabel,
  ClipWindow  \* vuClipFlagVisibilityLatency

ASSUME LabelAssumption == NoLabel \notin Label
ASSUME ClipWindowAssumption == ClipWindow \in Nat

(* A token as it reaches the emitter.  "at" tells tokens apart; "name" is     *)
(* the label itself or the target of a branch; RETURN stands for jr and jalr; *)
(* "integer" is integer arithmetic, the unit IALU without its flag readers. *)
Item ==
  [ at      : Nat,
    role    : {"CODE", "LABEL", "EXIT", "CONT", "BARRIER"},
    ins     : Instruction,
    branch  : {"NONE", "COND", "JUMP", "CALL", "RETURN"},
    name    : Label \cup {NoLabel},
    integer : BOOLEAN,
    filler  : BOOLEAN ]

(* classifyEmittedLine: directives and comments are left out. *)
Line(items) ==
  [ kind   : {"LABEL", "ROW"},
    name   : Label \cup {NoLabel},
    tokens : SUBSET items,
    extra  : {"NONE", "E", "WAITQ", "WAITP"} ]

RowLine(tokens, extra) == [kind |-> "ROW", name |-> NoLabel, tokens |-> tokens, extra |-> extra]
LabelLine(name)        == [kind |-> "LABEL", name |-> name, tokens |-> {}, extra |-> "NONE"]
NopLine                == RowLine({}, "NONE")

ReadsOf(t)  == t.ins.access.registerReads
WritesOf(t) == t.ins.access.registerWrites

PushesClip(line) == \E t \in line.tokens : TokenWrites(t.ins, "CLIP")
ReadsClip(line)  == \E t \in line.tokens : TokenReads(t.ins, "CLIP")

-----------------------------------------------------------------------------
(* buildEmittedRowGraph, for the lines "code" *)

RowsOf(code) == SelectSeq(code, LAMBDA line : line.kind = "ROW")

(* The number of rows among the first n lines. *)
RowsUpTo(code, n) == Cardinality({k \in 1 .. n : code[k].kind = "ROW"})

(* The line a row is written on. *)
LineOfRow(code, i) == CHOOSE k \in DOMAIN code : code[k].kind = "ROW" /\ RowsUpTo(code, k) = i

(* The first row below the first line of the label. *)
LabelRow(code, name) ==
  1 + RowsUpTo(code, SelectInSeq(code, LAMBDA line : line = LabelLine(name)))

Labelled(code, i) ==
  \E k \in DOMAIN code : code[k].kind = "LABEL" /\ LabelRow(code, code[k].name) = i

Branches(rows, i, kinds) == {t \in rows[i].tokens : t.branch \in kinds}

(* Where a row with a direct branch leads. *)
Targets(code, i) ==
  {LabelRow(code, t.name) : t \in Branches(RowsOf(code), i, {"COND", "JUMP", "CALL"})}

FallsThrough(rows, i) == IF Branches(rows, i, {"RETURN"}) = {} THEN {i + 1} ELSE {}

(* A delay slot executes whichever way its branch goes, so the row behind a   *)
(* branch fans out; it also falls through when the branch is unconditional.   *)
(* Nothing is known of where jr and jalr lead.                                *)
Successors(code, i) ==
  LET rows == RowsOf(code)
  IN  (FallsThrough(rows, i) \cup (IF i > 1 THEN Targets(code, i - 1) ELSE {})) \cap DOMAIN rows

InDelaySlot(code, i) ==
  i > 1 /\ Branches(RowsOf(code), i - 1, {"COND", "JUMP", "CALL"}) # {}

-----------------------------------------------------------------------------
(* The clip window along paths *)

(* The rows some path enters d rows behind a push. *)
BehindPush(code) ==
  LET rows == RowsOf(code)
      behind[d \in 0 .. ClipWindow] ==
        IF d = 0
          THEN UNION {Successors(code, i) : i \in {j \in DOMAIN rows : PushesClip(rows[j])}}
          ELSE UNION {Successors(code, i) : i \in {j \in behind[d - 1] : ~PushesClip(rows[j])}}
  IN  behind

(* Rows between a push above on the page and row i, no label between: what    *)
(* the emitter has measured itself.                                           *)
MeasuredOnPage(code, i) ==
  {n \in 0 .. i - 2 :
     /\ PushesClip(RowsOf(code)[i - 1 - n])
     /\ \A j \in i - n .. i : ~Labelled(code, j)}

(* Mutant: the window is looked at on the page alone. *)
ShortWindowsOnPage(code) == {}

(* The readers a path reaches too early and the page does not show: <<row,    *)
(* distance>>, fewest rows first.                                             *)
ShortWindows(code) ==
  LET rows   == RowsOf(code)
      behind == BehindPush(code)
  IN  {e \in (DOMAIN rows) \X (0 .. ClipWindow - 2) :
         /\ ReadsClip(rows[e[1]]) /\ ~PushesClip(rows[e[1]])
         /\ e[1] \in behind[e[2]]
         /\ \A d \in 0 .. e[2] - 1 : e[1] \notin behind[d]
         /\ ~InDelaySlot(code, e[1])
         /\ \A n \in MeasuredOnPage(code, e[1]) : e[2] < n}

(* Mutant: the pads go above the label of the row. *)
PaddedAboveLabel(code, i, count) ==
  LET line == LineOfRow(code, i)
      top  == IF line > 1 /\ code[line - 1].kind = "LABEL" THEN line - 1 ELSE line
  IN  SubSeq(code, 1, top - 1) \o [n \in 1 .. count |-> NopLine] \o SubSeq(code, top, Len(code))

(* NOP rows directly above row i, below its label. *)
Padded(code, i, count) ==
  LET line == LineOfRow(code, i)
  IN  SubSeq(code, 1, line - 1) \o [n \in 1 .. count |-> NopLine] \o SubSeq(code, line, Len(code))

(* insertOneCrossPathClipPad *)
ClipPadded(code) ==
  LET first == CHOOSE e \in ShortWindows(code) : \A f \in ShortWindows(code) : e[1] <= f[1]
  IN  Padded(code, first[1], ClipWindow - 1 - first[2])

-----------------------------------------------------------------------------
(* The condition of a branch along paths *)

Conditions(row) == UNION {ReadsOf(t) : t \in {u \in row.tokens : u.branch = "COND"}}

(* rowWritesIntegerRegister over branchConditionRegisters: integer arithmetic *)
(* alone.                                                                     *)
Feeds(above, row) ==
  \E t \in above.tokens : t.integer /\ WritesOf(t) \cap Conditions(row) # {}

(* Labelled branches that a path enters straight from a row that writes their *)
(* condition.                                                                 *)
FedThroughLabel(code) ==
  LET rows == RowsOf(code)
  IN  {i \in DOMAIN rows :
         /\ Labelled(code, i) /\ ~InDelaySlot(code, i)
         /\ \E p \in DOMAIN rows : i \in Successors(code, p) /\ Feeds(rows[p], rows[i])}

(* insertOneCrossPathBranchBubble *)
BubbleInserted(code) == Padded(code, Min(FedThroughLabel(code)), 1)
=============================================================================
