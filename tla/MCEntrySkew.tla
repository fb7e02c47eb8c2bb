------------------------------ MODULE MCEntrySkew ------------------------------
(* Instances of VuEntrySkew: divisions, forward branches over rows, readers. *)
EXTENDS VuEntrySkew

CONSTANT Gap      \* the rows a branch skips

Rows(kinds, n) == UNION {[1 .. k -> kinds] : k \in 0 .. n}

Others(n) == [i \in 1 .. n |-> "OTHER"]

Straight(rows)        == [rows |-> rows, target |-> 0, conditional |-> FALSE]
Branching(rows, t, c) == [rows |-> rows \o <<"BRANCH">>, target |-> t, conditional |-> c]
Labelled(rows)        == <<"LABEL">> \o rows

DivLatency == [row \in {"DIV", "RSQRT"} |-> IF row = "DIV" THEN 7 ELSE 13]

(* A branch over an arm, which runs into what is below or is left by a branch *)
(* of its own over another arm.                                               *)
ArmPrograms ==
  { << Branching(a, 3, TRUE),
       IF left THEN Branching(arm, 4, FALSE) ELSE Straight(arm),
       Straight(Labelled(c \o Others(rest))),
       Straight(Labelled(d)) >>
    : a \in Rows({"DIV", "RSQRT", "OTHER"}, 1), left \in BOOLEAN,
      arm \in {Others(skip) \o b : skip \in {0, Gap}, b \in Rows({"DIV", "RSQRT", "READ"}, 1)},
      c \in Rows({"DIV", "READ"}, 1), d \in Rows({"READ", "OTHER"}, 2), rest \in {0, 2 * Gap} }

(* Two branches in a row, to labels of their own or to one label. *)
ChainPrograms ==
  { << Branching(<<"DIV">> \o a, to, c1),
       Straight(Others(skip1) \o b),
       Branching(Labelled(b), 5, c2),
       Straight(Others(skip2)),
       Straight(Labelled(d)) >>
    : a \in Rows({"DIV", "OTHER"}, 1), b \in Rows({"DIV", "READ", "OTHER"}, 1),
      d \in Rows({"DIV", "READ", "OTHER"}, 2),
      to \in {3, 5}, c1 \in BOOLEAN, c2 \in BOOLEAN,
      skip1 \in {0, Gap}, skip2 \in {1, Gap} }

PathPrograms == ChainPrograms \cup ArmPrograms
================================================================================
