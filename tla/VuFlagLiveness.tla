--------------------------- MODULE VuFlagLiveness ---------------------------
(***************************************************************************)
(* Which flags are dead behind a token (analyzeFlagLiveness): the last     *)
(* reader of each flag in the token list, moved to the end of every loop   *)
(* it stands in.  The scheduler may reorder the writers of a dead flag.    *)
(*                                                                         *)
(* The analysis settles first; then the program runs on from the end of    *)
(* any segment, along its branches, and must not meet a reader of a flag   *)
(* the segment was scheduled without.                                      *)
(***************************************************************************)
EXTENDS Naturals, Sequences

CONSTANTS
  Flag,        \* MAC, CLIP and STATUS
  Programs,    \* the token lists
  RoundLimit   \* rounds the extension is allowed (guard < 64)

(* A conditional branch falls through, a jump and a call do not; a return is *)
(* a jr through the link register.                                           *)
Token ==
  [ reads  : SUBSET Flag,
    branch : {"NONE", "CONDITIONAL", "JUMP", "CALL", "RETURN"},
    target : Nat ]

ASSUME RoundAssumption == RoundLimit \in Nat \ {0}
ASSUME ProgramAssumption == Programs \subseteq Seq(Token)
ASSUME LabelAssumption ==
  \A p \in Programs : \A i \in DOMAIN p :
    p[i].branch \in {"CONDITIONAL", "JUMP", "CALL"} => p[i].target \in DOMAIN p

VARIABLES
  program,
  declared,  \* the flags the program declares as its contract with the next one
  last,      \* lastMacReader, lastClipReader, lastStatusReader; 0 for none
  visited,   \* the back edges visited in this round end here or before
  round,
  changed,   \* a flag was extended in this round
  from,      \* the end of the segment the run began behind, 0 while settling
  at         \* the token the run has reached

analysis == <<last, visited, round, changed>>
vars == <<program, declared, last, visited, round, changed, from, at>>

Position == DOMAIN program

Readers(flag) == {i \in Position : flag \in program[i].reads}

(* branchTargetLabel, for a label at or above the branch. *)
BackEdges ==
  {b \in Position : /\ program[b].branch \in {"CONDITIONAL", "JUMP", "CALL"}
                    /\ program[b].target <= b}

(* Where control may go from a token. *)
Successors(i) ==
  {j \in Position :
     \/ program[i].branch \in {"NONE", "CONDITIONAL"} /\ j = i + 1
     \/ program[i].branch \in {"CONDITIONAL", "JUMP", "CALL"} /\ j = program[i].target
     \/ /\ program[i].branch = "RETURN"
        /\ \E c \in Position : program[c].branch = "CALL" /\ j = c + 1}

-----------------------------------------------------------------------------

(* The flags a segment that ends at a token need not keep for what follows   *)
(* (ignoredFlagWawMaskForIndex).                                             *)
IgnoredFlags(index) == {f \in Flag \ declared : index > last[f]}

Settling == from = 0

Init ==
  /\ program \in Programs
  /\ declared \in SUBSET Flag
  /\ last \in [Flag -> 0 .. Len(program)]
  /\ \A f \in Flag : /\ \A i \in Readers(f) : i <= last[f]
                     /\ last[f] \in Readers(f) \cup {0}
  /\ visited = 0
  /\ round = 0
  /\ changed = FALSE
  /\ from = 0
  /\ at = 0

(* Mutant: a reader on the first token of the loop does not count. *)
ExtendedStrict(b) ==
  [f \in Flag |-> IF program[b].target < last[f] /\ last[f] < b THEN b ELSE last[f]]

(* Mutant: a reader above the loop counts. *)
ExtendedAlways(b) == [f \in Flag |-> IF last[f] < b THEN b ELSE last[f]]

(* Mutant: the extension ends behind the branch. *)
ExtendedPast(b) ==
  [f \in Flag |-> IF program[b].target <= last[f] /\ last[f] < b THEN b + 1 ELSE last[f]]

(* A flag read inside the loop is live to the end of it. *)
Extended(b) ==
  [f \in Flag |-> IF program[b].target <= last[f] /\ last[f] < b THEN b ELSE last[f]]

(* Mutant: the outermost loop first. *)
NextEdgeDescending(b) ==
  /\ b \in BackEdges
  /\ visited = 0 \/ b < visited
  /\ \A e \in BackEdges : e > b => visited # 0 /\ e >= visited

(* The back edges are held in the order of their branches. *)
NextEdge(b) ==
  /\ b \in BackEdges
  /\ b > visited
  /\ \A e \in BackEdges : e > visited => e >= b

Visit(b) ==
  /\ Settling
  /\ NextEdge(b)
  /\ last' = Extended(b)
  /\ changed' = (changed \/ Extended(b) # last)
  /\ visited' = b
  /\ UNCHANGED <<program, declared, round, from, at>>

RoundOver == \A b \in BackEdges : b <= visited

Again == changed /\ round + 1 < RoundLimit

NextRound ==
  /\ Settling
  /\ RoundOver
  /\ Again
  /\ visited' = 0
  /\ round' = round + 1
  /\ changed' = FALSE
  /\ UNCHANGED <<program, declared, last, from, at>>

(* The analysis is settled; control leaves the end of some segment. *)
Leave(i) ==
  /\ Settling
  /\ RoundOver
  /\ ~Again
  /\ from' = i
  /\ at' \in Successors(i)
  /\ UNCHANGED <<program, declared, analysis>>

Run ==
  /\ ~Settling
  /\ at' \in Successors(at)
  /\ UNCHANGED <<program, declared, analysis, from>>

Next ==
  \/ \E b \in Position : Visit(b)
  \/ NextRound
  \/ \E i \in Position : Leave(i)
  \/ Run

Spec == Init /\ [][Next]_vars

-----------------------------------------------------------------------------

TypeOK ==
  /\ program \in Seq(Token)
  /\ declared \subseteq Flag
  /\ last \in [Flag -> 0 .. Len(program)]
  /\ visited \in 0 .. Len(program)
  /\ round \in 0 .. RoundLimit - 1
  /\ changed \in BOOLEAN
  /\ from \in 0 .. Len(program)
  /\ at \in 0 .. Len(program)

(* A flag whose writers a segment may exchange is not read on any path from  *)
(* the end of that segment, loops included ("dead ONLY IF CONTROL NEVER      *)
(* COMES BACK").                                                             *)
DeadFlagsUnread ==
  ~Settling => \A f \in IgnoredFlags(from) : at \notin Readers(f)

Closed(b, n) == program[b].target <= n => b <= n

(* A bound of the live range of a flag: past every reader, and past the end  *)
(* of every loop it reaches into.                                            *)
LiveBound(f, n) ==
  /\ \A i \in Readers(f) : i <= n
  /\ \A b \in BackEdges : Closed(b, n)

(* The analysis ends on the least bound: it extends a flag only for a loop   *)
(* that can come back to a reader ("a program with no backward branch is     *)
(* unaffected, and so is a loop whose reader already sits last").            *)
LeastBound ==
  ~Settling =>
    \A f \in Flag :
      /\ LiveBound(f, last[f])
      /\ \A n \in 0 .. Len(program) : LiveBound(f, n) => last[f] <= n

(* The round after the first one finds nothing left to extend, so the limit  *)
(* of the rounds never cuts a fixpoint short, however loops nest or overlap.  *)
SettledInOneRound == round > 0 => ~changed
=============================================================================
