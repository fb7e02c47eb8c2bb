----------------------------- MODULE VuDelaySlots -----------------------------
(***************************************************************************)
(* The passes of the code generator that put an instruction into the delay *)
(* slot of a branch (CodeGenerator::fillPreIncrementStoreBranchDelaySlots, *)
(* fillBranchDelaySlots and fillDeadFallthroughBranchDelaySlots).  A token  *)
(* from above the branch runs one word later than it was written; a token   *)
(* from behind it runs on both paths.                                      *)
(*                                                                         *)
(* The source and then the filled program are run along the same turns of  *)
(* their branches, each storing and comparing register values.  Labels are *)
(* tokens of their own, as the parser makes them.                          *)
(***************************************************************************)
EXTENDS Integers, Sequences, SequencesExt

CONSTANTS
  Regs,             \* integer registers
  Programs,         \* token lists
  MaxTurns,         \* a run stops behind this many branches
  EmitDelayFillers  \* --emit-delay-fillers: look further up than one token

Op == {"ADD", "STORE", "LOAD", "LABEL", "BRANCH", "JUMP", "RETURN"}

(* ADD: dst = from[1] + imm.  LOAD: dst = memory[from[1] + imm].             *)
(* STORE: memory[from[1] + imm] = from[2].  BRANCH compares its registers,   *)
(* JUMP goes to the label "to", RETURN to the address in from[1].            *)
Token == [op : Op, dst : Regs \cup {0}, from : Seq(Regs), imm : Int, to : Nat, filler : BOOLEAN]

ASSUME RegsAssumption == Regs \subseteq Int /\ 0 \notin Regs
ASSUME ProgramAssumption == Programs \subseteq Seq(Token)

(* The operands of each kind of token; and the passes are the first to fill a *)
(* slot: a program whose loops were pipelined with a filler skips them.       *)
ASSUME OperandAssumption ==
  \A p \in Programs : \A i \in DOMAIN p :
    /\ p[i].op \in {"ADD", "LOAD"} => p[i].from # <<>>
    /\ p[i].op = "STORE" => Len(p[i].from) = 2
    /\ p[i].op \notin {"ADD", "LOAD"} => p[i].dst = 0
    /\ ~p[i].filler

ASSUME TurnAssumption == MaxTurns \in Nat
ASSUME OptionAssumption == EmitDelayFillers \in BOOLEAN

VARIABLES
  program,  \* the tokens before the passes
  code,     \* the tokens as the passes have left them
  pass,     \* the pass, then which program runs
  cursor,   \* the token a pass has come to
  source,   \* the machine that runs program
  output,   \* the machine that runs code
  turns     \* which way each branch went

tokens == <<program, code, pass, cursor>>
vars == <<tokens, source, output, turns>>

Machine == [pc : Nat, regs : [Regs -> Int], stores : Seq(Int \X Int), compared : Seq(Seq(Int))]

Start == [pc |-> 1, regs |-> [r \in Regs |-> 10 * r], stores |-> <<>>, compared |-> <<>>]

Init ==
  /\ program \in Programs
  /\ code = program
  /\ pass = "pre"
  /\ cursor = 1
  /\ source = Start
  /\ output = Start
  /\ turns = <<>>

-----------------------------------------------------------------------------
(* Tokens *)

Reads(t)  == Range(t.from)
Writes(t) == {t.dst} \ {0}

HasDelaySlot(t) == t.op \in {"BRANCH", "JUMP", "RETURN"}

Labels(t, label) == t.op = "LABEL" /\ t.to = label

HasLabel(list, label) == \E i \in DOMAIN list : Labels(list[i], label)

(* The first token with the label. *)
LabelRow(list, label) == SelectInSeq(list, LAMBDA t : Labels(t, label))

(* A branch to a label that is not there leaves the program. *)
Destination(list, label) ==
  IF HasLabel(list, label) THEN LabelRow(list, label) ELSE Len(list) + 1

(* integerSelfImmediateAdd *)
SelfAdd(t) == t.op = "ADD" /\ t.from = <<t.dst>> /\ ~t.filler

PlainStore(t) == t.op = "STORE" /\ ~t.filler

(* Mutant: a branch whose slot is taken is given another filler. *)
FilledNever(i) == FALSE

(* nextTokenIsBranchDelayFiller *)
Filled(i) == i < Len(code) /\ code[i + 1].filler

-----------------------------------------------------------------------------
(* What may move into the slot of the branch at i *)

(* A store, the increment of a register the branch reads, and the branch. *)
StoreAboveIncrement(i) ==
  /\ i > 2
  /\ ~Filled(i)
  /\ PlainStore(code[i - 2])
  /\ SelfAdd(code[i - 1])
  /\ code[i - 1].dst \in Reads(code[i])

(* movePreIncrementStoreIntoBranchDelaySlot: the base is the incremented register. *)
PreIncrementStore(i) == StoreAboveIncrement(i) /\ code[i - 2].from[1] = code[i - 1].dst

(* adjustPlainStoreOffset *)
OffsetLowered(store, amount) == [store EXCEPT !.imm = @ - amount]

(* moveIndependentStoreIntoBranchDelaySlot *)
IndependentStore(i) == StoreAboveIncrement(i) /\ code[i - 1].dst \notin Reads(code[i - 2])

(* Mutant: the registers of the branch are not looked at. *)
FitsAnyBranch(j, i) == code[j].op = "ADD" /\ ~code[j].filler

(* canMoveIntoBranchDelaySlot.  The stores it speaks of never pass its test *)
(* of the latency, which is 4 for all of them.                              *)
FitsSlot(j, i) ==
  /\ code[j].op = "ADD"
  /\ ~code[j].filler
  /\ Writes(code[j]) \cap Reads(code[i]) = {}

DataDependency(s, t) == Writes(s) \cap (Reads(t) \cup Writes(t)) # {}

(* vuTokenCanMoveBefore(crossed, moved), for an integer token that sinks. *)
CanSinkBelow(moved, crossed) ==
  /\ crossed.op \in {"ADD", "LOAD", "STORE"}
  /\ ~DataDependency(moved, crossed)
  /\ ~DataDependency(crossed, moved)

ProbeSteps == 16

(* The tokens that may fill the slot: the one above the branch, else those the *)
(* probe accepts further up.                                                  *)
Candidates(i) ==
  IF i > 1 /\ FitsSlot(i - 1, i)
  THEN {i - 1}
  ELSE {j \in 1 .. i - 2 :
          /\ EmitDelayFillers
          /\ j >= i - 1 - ProbeSteps
          /\ FitsSlot(j, i)
          /\ \A k \in j + 1 .. i - 1 : CanSinkBelow(code[j], code[k])}

-----------------------------------------------------------------------------
(* Liveness at the target of a branch *)

(* writesAreDeadFromTarget *)
DeadInFileOrder(r, target) ==
  \A k \in target .. Len(code) :
    r \in Reads(code[k]) => \E j \in target .. k - 1 : r \in Writes(code[j])

(* The branch that transfers control behind row i: its own, or the one whose *)
(* slot it is in.                                                            *)
Transfers(i) ==
  \/ HasDelaySlot(code[i]) /\ ~Filled(i)
  \/ code[i].filler

Branch(i) == IF code[i].filler THEN code[i - 1] ELSE code[i]

Below(i) == {i + 1} \cap DOMAIN code

Successors(i) ==
  IF Transfers(i)
  THEN {LabelRow(code, Branch(i).to)} \cup (IF Branch(i).op = "JUMP" THEN {} ELSE Below(i))
  ELSE Below(i)

(* The rows the value of r in front of the target can reach unchanged. *)
Reached(r, target) ==
  LET steps[n \in 0 .. Len(code)] ==
        IF n = 0
        THEN {target}
        ELSE steps[n - 1] \cup UNION {Successors(i) : i \in {j \in steps[n - 1] :
                                        r \notin Reads(code[j]) \cup Writes(code[j])}}
  IN steps[Len(code)]

(* Mutant: only the order of the file is looked at. *)
DeadBelowOnly(r, target) == TRUE

(* writesAreDeadFromTargetOnEveryPath; a graph with an unknown way refuses. *)
DeadOnEveryPath(r, target) ==
  /\ \A i \in DOMAIN code :
       HasDelaySlot(code[i]) => code[i].op # "RETURN" /\ HasLabel(code, code[i].to)
  /\ \A i \in Reached(r, target) : r \notin Reads(code[i])

(* moveDeadFallthroughIntoBranchDelaySlot *)
DeadFallthrough(i) ==
  /\ code[i].op = "BRANCH"
  /\ ~Filled(i)
  /\ i < Len(code)
  /\ code[i + 1].op = "ADD"
  /\ HasLabel(code, code[i].to)
  /\ LET target == LabelRow(code, code[i].to)
     IN /\ target > i
        /\ DeadInFileOrder(code[i + 1].dst, target)
        /\ DeadOnEveryPath(code[i + 1].dst, target)

-----------------------------------------------------------------------------
(* The passes *)

Passing == pass \in {"pre", "fill", "dead"}

Filler(t) == [t EXCEPT !.filler = TRUE]

(* Takes the token at j out and puts the filler behind the branch at cursor. *)
Sink(j, filler) ==
  /\ code' = InsertAt(RemoveAt(code, j), cursor, filler)
  /\ UNCHANGED <<program, pass, cursor, source, output, turns>>

AtBranch == Passing /\ cursor <= Len(code) /\ code[cursor].op \in {"BRANCH", "JUMP"}

SinkPreIncrementStore ==
  /\ AtBranch
  /\ pass \in {"pre", "fill"}
  /\ PreIncrementStore(cursor)
  /\ Sink(cursor - 2, Filler(OffsetLowered(code[cursor - 2], code[cursor - 1].imm)))

SinkIndependentStore ==
  /\ AtBranch
  /\ pass = "fill"
  /\ IndependentStore(cursor)
  /\ Sink(cursor - 2, Filler(code[cursor - 2]))

SinkCandidate ==
  /\ AtBranch
  /\ pass = "fill"
  /\ ~Filled(cursor)
  /\ ~PreIncrementStore(cursor)
  /\ ~IndependentStore(cursor)
  /\ Candidates(cursor) # {}
  /\ LET j == CHOOSE j \in Candidates(cursor) : \A k \in Candidates(cursor) : k <= j
     IN Sink(j, Filler(code[j]))

RaiseDeadFallthrough ==
  /\ AtBranch
  /\ pass = "dead"
  /\ DeadFallthrough(cursor)
  /\ code' = [code EXCEPT ![cursor + 1] = Filler(@)]
  /\ UNCHANGED <<program, pass, cursor, source, output, turns>>

(* The branch can be given nothing, or the token is none. *)
PassOn ==
  /\ Passing
  /\ cursor <= Len(code)
  /\ AtBranch =>
       CASE pass = "pre"  -> ~PreIncrementStore(cursor)
         [] pass = "fill" -> /\ ~PreIncrementStore(cursor)
                             /\ ~IndependentStore(cursor)
                             /\ Filled(cursor) \/ Candidates(cursor) = {}
         [] pass = "dead" -> ~DeadFallthrough(cursor)
  /\ cursor' = cursor + 1
  /\ UNCHANGED <<program, code, pass, source, output, turns>>

NextPass ==
  /\ Passing
  /\ cursor > Len(code)
  /\ pass' = CASE pass = "pre" -> "fill" [] pass = "fill" -> "dead" [] pass = "dead" -> "source"
  /\ cursor' = 1
  /\ UNCHANGED <<program, code, source, output, turns>>

-----------------------------------------------------------------------------
(* Running *)

(* What memory holds at an address: the last value stored there, or its own. *)
Memory(m, address) ==
  IF \E i \in DOMAIN m.stores : m.stores[i][1] = address
  THEN m.stores[SelectLastInSeq(m.stores, LAMBDA s : s[1] = address)][2]
  ELSE 100 + address

Executed(m, t) ==
  LET address == m.regs[t.from[1]] + t.imm
  IN CASE t.op = "ADD"   -> [m EXCEPT !.regs[t.dst] = address]
       [] t.op = "LOAD"  -> [m EXCEPT !.regs[t.dst] = Memory(m, address)]
       [] t.op = "STORE" -> [m EXCEPT !.stores = Append(@, <<address, m.regs[t.from[2]]>>)]
       [] t.op = "LABEL" -> m

(* A branch compares, runs the filler in its slot, and goes its way. *)
Turned(list, m, taken) ==
  LET t        == list[m.pc]
      filled   == m.pc < Len(list) /\ list[m.pc + 1].filler
      compared == [m EXCEPT !.compared = Append(@, [k \in DOMAIN t.from |-> m.regs[t.from[k]]])]
      ran      == IF filled THEN Executed(compared, list[m.pc + 1]) ELSE compared
  IN [ran EXCEPT !.pc = IF t.op = "RETURN" THEN Len(list) + 1
                        ELSE IF taken THEN Destination(list, t.to)
                        ELSE m.pc + (IF filled THEN 2 ELSE 1)]

Ended(list, m) == m.pc > Len(list) \/ Len(m.compared) = MaxTurns

Straight(list, m) == [Executed(m, list[m.pc]) EXCEPT !.pc = @ + 1]

RunSource ==
  /\ pass = "source"
  /\ ~Ended(program, source)
  /\ IF HasDelaySlot(program[source.pc])
     THEN \E taken \in BOOLEAN :
            /\ program[source.pc].op # "BRANCH" => taken
            /\ source' = Turned(program, source, taken)
            /\ turns' = Append(turns, taken)
     ELSE source' = Straight(program, source) /\ turns' = turns
  /\ UNCHANGED <<tokens, output>>

RunOutput ==
  /\ pass = "output"
  /\ ~Ended(code, output)
  /\ output' = IF HasDelaySlot(code[output.pc])
               THEN Turned(code, output, turns[Len(output.compared) + 1])
               ELSE Straight(code, output)
  /\ UNCHANGED <<tokens, source, turns>>

NextRun ==
  /\ \/ pass = "source" /\ Ended(program, source) /\ pass' = "output"
     \/ pass = "output" /\ Ended(code, output)    /\ pass' = "done"
  /\ UNCHANGED <<program, code, cursor, source, output, turns>>

Next ==
  \/ SinkPreIncrementStore \/ SinkIndependentStore \/ SinkCandidate \/ RaiseDeadFallthrough
  \/ PassOn \/ NextPass
  \/ RunSource \/ RunOutput \/ NextRun

Spec == Init /\ [][Next]_vars

-----------------------------------------------------------------------------

(* No program stores a register to the address it holds and increments it by  *)
(* itself: movePreIncrementStoreIntoBranchDelaySlot lowers the offset of such *)
(* a store, and its value, read behind the increment, it cannot lower.        *)
StoresKeepBase ==
  \A list \in Programs : \A i \in DOMAIN list, j \in DOMAIN list :
    PlainStore(list[i]) /\ SelfAdd(list[j]) =>
      ~(list[i].from[1] = list[j].dst /\ list[i].from[2] = list[j].dst)

(* A filler stands right behind the branch it was moved for, and no branch  *)
(* has two: the emitter writes the token behind a branch into its slot.     *)
FillersBehindBranches ==
  \A i \in DOMAIN code :
    code[i].filler => i > 1 /\ code[i - 1].op \in {"BRANCH", "JUMP"} /\ ~code[i - 1].filler

(* On every path the filled program stores the values of the source program *)
(* at its addresses, in its order, and each branch compares the values it    *)
(* compared in the source program, so that both go the same way.             *)
ExecutionPreserved ==
  /\ pass = "output" => /\ IsPrefix(output.stores, source.stores)
                        /\ IsPrefix(output.compared, source.compared)
  /\ pass = "done" => output.stores = source.stores /\ output.compared = source.compared
================================================================================
