---------------------------- MODULE VuKernelLayout ----------------------------
(***************************************************************************)
(* What becomes of a placed loop (VuKernelLayout.cpp and                   *)
(* applyVuGenericKernelRewritePlans, VuSchedulerAnalysis.cpp).  The nodes  *)
(* of all stages, side by side, are the kernel: one pass of it works on    *)
(* as many turns as there are stages.  Copies of the kernel with the late  *)
(* stages left out lead in, copies with the early stages left out lead     *)
(* out.  A row has four lanes, listed upper, lower, fdiv, efu; a NOP is in *)
(* no lane and falls out of the plan.                                      *)
(*                                                                         *)
(* The second half are the renames planned for registers that two stages   *)
(* share: a scratch register for each, and a cycle of the kernel for the   *)
(* move that brings the value back.                                        *)
(***************************************************************************)
EXTENDS VuModuloPlacement, SequencesExt

CONSTANTS
  KeyOrder,   \* the VF keys in the order of their names
  Candidates, \* the scratch registers, VF31 down to VF02
  Passes      \* bound of this model: how often the kernel is run

ASSUME KeyOrderAssumption == KeyOrder \in Seq(ReadKey)
ASSUME CandidatesAssumption == Candidates \in Seq(Vector)
ASSUME PassesAssumption == Passes \in Nat

LaneOrder == <<"upper", "lower", "fdiv", "efu">>

StageOf(i) == Stage(slot[i])
ModSlot(i) == slot[i] % ii
StageCount == maxStage + 1

(* vuKernelLayoutEntryLess *)
LayoutLess(i, j) ==
  LET key(k) == <<StageOf(k), ModSlot(k), k>>
  IN  \E n \in 1 .. 3 : key(i)[n] < key(j)[n] /\ \A k \in 1 .. n - 1 : key(i)[k] = key(j)[k]

-----------------------------------------------------------------------------
(* The template and the envelope *)

Sharing(nodes, c, lane) == {i \in nodes : Lane(i) = lane /\ ModSlot(i) = c}

(* Of several entries in one cell the last of the layout stays. *)
Cell(nodes, c, lane) ==
  {i \in Sharing(nodes, c, lane) : \A j \in Sharing(nodes, c, lane) \ {i} : LayoutLess(j, i)}

Row(nodes, c) == [lane \in Range(LaneOrder) |-> Cell(nodes, c, lane)]

(* One copy of the kernel with the given nodes. *)
Copy(nodes) == [c \in 0 .. ii - 1 |-> Row(nodes, c)]

(* Mutant: the last copy that leads in has the last stage already. *)
PrologEager ==
  [p \in 1 .. StageCount - 1 |-> Copy({i \in Nodes : StageOf(i) <= p})]

(* Copy p leads in with the stages up to p. *)
Prolog ==
  [p \in 1 .. StageCount - 1 |-> Copy({i \in Nodes : StageOf(i) <= p - 1})]

Main == Copy(Nodes)

(* Copy q leads out with the stages from q on. *)
Drain ==
  [q \in 1 .. StageCount - 1 |-> Copy({i \in Nodes : StageOf(i) >= q})]

(* The plan, with the kernel run k times. *)
Planned(k) == Prolog \o [m \in 1 .. k |-> Main] \o Drain

(* As many turns of the loop as the plan works on. *)
Turns(k) == StageCount - 1 + k

-----------------------------------------------------------------------------
(* Reads *)

Keys(s) == {[base |-> s[a].base, field |-> s[a].field] : a \in DOMAIN s}

WritesKey(i, key) == key \in Keys(loop[i].writes)

(* What a run issues, each at its copy, its cycle and its place in the row.   *)
Issues(run) ==
  {x \in [copy : DOMAIN run, cycle : 0 .. ii - 1, lane : DOMAIN LaneOrder, node : Nodes] :
     x.node \in run[x.copy][x.cycle][LaneOrder[x.lane]]}

(* The order in which the tokens of a plan are put down (rewritePushCycle).   *)
Ahead(x, y) ==
  \/ x.copy < y.copy
  \/ x.copy = y.copy /\ x.cycle < y.cycle
  \/ x.copy = y.copy /\ x.cycle = y.cycle /\ x.lane < y.lane

(* The turn x belongs to: a node is met once per turn.                        *)
TurnOf(issues, x) ==
  Cardinality({y \in issues : y.node = x.node /\ ~Ahead(x, y)})

(* The last writer of key among the given, and its turn.                      *)
Latest(issues, given, key) ==
  LET writers == {y \in given : WritesKey(y.node, key)}
  IN  {<<y.node, TurnOf(issues, y)>> : y \in {y \in writers : \A z \in writers : ~Ahead(y, z)}}

(* The last node of a set in the body.                                        *)
LastOf(nodes) == {i \in nodes : \A a \in nodes : a <= i}

(* The last writer of key in front of node j of turn t of the loop. *)
Source(j, t, key) ==
  LET above == {i \in 1 .. j - 1 : WritesKey(i, key)}
      below == {i \in j .. Len(loop) : WritesKey(i, key)}
  IN  IF above # {} THEN {<<i, t>> : i \in LastOf(above)}
      ELSE IF t > 1 THEN {<<i, t - 1>> : i \in LastOf(below)}
      ELSE {}

(* The plan works on every node once a turn, every read finds the value the  *)
(* loop would give it and the loop leaves with the values it would leave     *)
(* with: stages overlap and the plan renames nothing (buildVuKernelEnvelope, *)
(* VuKernelLayout.cpp:50).                                                   *)
PlanKeepsReads ==
  phase = "done" => \A k \in 1 .. Passes :
    LET issues == Issues(Planned(k))
        issued == {i \in Nodes : Lane(i) # "none"}
        written == UNION {Keys(loop[i].writes) : i \in issued}
    IN  /\ \A i \in issued : Cardinality({x \in issues : x.node = i}) = Turns(k)
        /\ \A x \in issues : \A key \in Keys(loop[x.node].reads) :
             Latest(issues, {y \in issues : Ahead(y, x)}, key)
               = Source(x.node, TurnOf(issues, x), key)
        /\ \A key \in written :
             Latest(issues, issues, key) = Source(Len(loop) + 1, Turns(k), key)

-----------------------------------------------------------------------------
(* The renames *)

VectorKeys(s) == {key \in Keys(s) : key.base \in Vector}

(* Two stages touch key and one of them writes it (buildVuKernelRegisterPlan). *)
SharedByStages(key) ==
  \E i, j \in Nodes :
    /\ StageOf(i) # StageOf(j)
    /\ key \in VectorKeys(loop[i].writes)
    /\ key \in VectorKeys(loop[j].reads) \cup VectorKeys(loop[j].writes)

(* The keys with a hint, in the order of the register map. *)
Hinted == SelectSeq(KeyOrder, SharedByStages)

UsedBases ==
  {key.base : key \in UNION {VectorKeys(loop[i].reads) \cup VectorKeys(loop[i].writes) : i \in Nodes}}

(* Mutant: a scratch register is not reserved once it is given away. *)
DecisionsSharing ==
  LET left == SelectSeq(Candidates, LAMBDA r : r \notin UsedBases)
  IN  [d \in DOMAIN Hinted |-> [reg |-> Hinted[d], scratch |-> SubSeq(left, 1, Min({1, Len(left)}))]]

(* buildVuKernelRenameDecisions: the first candidate the loop does not touch *)
(* and no earlier decision took; none when they run out.                     *)
Decisions ==
  LET left == SelectSeq(Candidates, LAMBDA r : r \notin UsedBases)
  IN  [d \in DOMAIN Hinted |-> [reg |-> Hinted[d], scratch |-> SubSeq(left, d, Min({d, Len(left)}))]]

HasScratch(d) == Decisions[d].scratch # <<>>

(* baseOfRegKey strips the field of what is read; the key of a decision has  *)
(* its own.                                                                  *)
NameOf(key) == <<key.base, key.field>>
BaseNameOf(key) == <<key.base>>

Forbidden(d) ==
  {ModSlot(i) : i \in {k \in Nodes : \E key \in VectorKeys(loop[k].reads) :
                          BaseNameOf(key) = NameOf(Decisions[d].reg)}}

FreeCells(lane, taken, d) ==
  {c \in 0 .. ii - 1 :
     Sharing(Nodes, c, lane) = {} /\ c \notin Forbidden(d) /\ <<c, lane>> \notin taken}

(* The first free cycle of the upper lane, or else of the lower one. *)
MoveCell(taken, d) ==
  IF ~HasScratch(d) THEN <<>>
  ELSE IF FreeCells("upper", taken, d) # {} THEN << <<Min(FreeCells("upper", taken, d)), "upper">> >>
  ELSE IF FreeCells("lower", taken, d) # {} THEN << <<Min(FreeCells("lower", taken, d)), "lower">> >>
  ELSE <<>>

(* buildVuKernelRenameMoveSlots: one decision after the other. *)
MoveSlots ==
  FoldLeft(LAMBDA cells, d : Append(cells, MoveCell({cells[e][1] : e \in {e \in DOMAIN cells : cells[e] # <<>>}}, d)),
           <<>>, [d \in DOMAIN Decisions |-> d])

(* No two renames share a scratch register, none takes one the loop uses, and *)
(* no two moves share a cycle with each other or with a node                  *)
(* (VuKernelLayout.cpp:299, 374).                                             *)
RenamesApart ==
  phase = "done" =>
    /\ \A d \in DOMAIN Decisions : \A r \in ToSet(Decisions[d].scratch) : r \notin UsedBases
    /\ \A d, e \in DOMAIN Decisions : d # e =>
         /\ ToSet(Decisions[d].scratch) \cap ToSet(Decisions[e].scratch) = {}
         /\ ToSet(MoveSlots[d]) \cap ToSet(MoveSlots[e]) = {}
    /\ \A d \in DOMAIN Decisions : \A cell \in ToSet(MoveSlots[d]) :
         \A i \in Nodes : ~(ModSlot(i) = cell[1] /\ Lane(i) = cell[2])
=============================================================================
