---------------------------- MODULE MCFlagLiveness ----------------------------
(* Instances of VuFlagLiveness: every token list up to a length. *)
EXTENDS VuFlagLiveness

CONSTANT MaxLength

Plain(reads) == [reads |-> reads, branch |-> "NONE", target |-> 0]

BranchesOf(kinds, n) == [reads : {{}}, branch : kinds, target : 1 .. n]

(* Loops that nest and overlap, forward branches. *)
LabelTokens(n) ==
  {Plain({})} \cup {Plain({f}) : f \in Flag} \cup BranchesOf({"CONDITIONAL", "JUMP"}, n)
LabelPrograms == UNION {[1 .. n -> LabelTokens(n)] : n \in 1 .. MaxLength}
===============================================================================
