------------------------------- MODULE MCEmission -------------------------------
(* Instances of VuEmission: short programs over a few kinds of issue slots.  *)
EXTENDS VuEmission

NoAccess == [ registerReads |-> {}, registerWrites |-> {}, implicitReads |-> {},
              implicitWrites |-> {}, memoryKind |-> "NONE", memoryBase |-> "none",
              hasMemoryOffset |-> TRUE, memoryOffset |-> 0, needsLast |-> FALSE ]

Code(reads, writes, latency, lower) ==
  [ at |-> 0, role |-> "CODE", branch |-> "NONE", name |-> NoLabel, integer |-> FALSE,
    filler |-> FALSE,
    ins |-> [ access |-> [NoAccess EXCEPT !.registerReads = reads, !.registerWrites = writes],
              form |-> "OTHER", latency |-> latency, lower |-> lower, candidate |-> TRUE ] ]

Mark(role, name) == [Code({}, {}, 0, TRUE) EXCEPT !.role = role, !.name = name]

Branch(branch, reads, name) == [Code(reads, {}, 2, TRUE) EXCEPT !.branch = branch, !.name = name]

Iadd(i) == [Code({i}, {i}, 1, TRUE) EXCEPT !.integer = TRUE]
Add     == [Code({"f1"}, {"f1"}, 3, FALSE) EXCEPT !.ins.access.implicitWrites = {"MAC", "STATUS"}]
MulQ    == [Add EXCEPT !.ins.access.implicitReads = {"Q"}]
Div     == [Code({"f1"}, {}, 7, TRUE) EXCEPT !.ins.access.implicitWrites = {"Q"}]
Esadd   == [Code({"f1"}, {}, 6, TRUE) EXCEPT !.ins.access.implicitWrites = {"P"}]
Clip    == [Code({"f1"}, {}, 3, FALSE) EXCEPT !.ins.access.implicitWrites = {"CLIP"}]
Fcand   == [Code({}, {"i1"}, 1, TRUE) EXCEPT !.ins.access.implicitReads = {"CLIP"}]
Sq      == [Code({"f1", "i2"}, {}, 4, TRUE) EXCEPT !.ins.access.memoryKind = "STORE",
                                                   !.ins.access.memoryBase = "i2"]
Ibgtz   == Branch("COND", {"i1"}, "L")
B       == Branch("JUMP", {}, "L")
Bal     == [Branch("CALL", {}, "M") EXCEPT !.ins.access.registerWrites = {"i2"}]
Jr      == Branch("RETURN", {"i2"}, NoLabel)

Row(tokens)         == [tokens |-> tokens, padding |-> "NONE", cycles |-> 1, words |-> 1]
Pad(cycles, words)  == [tokens |-> <<>>, padding |-> "NOP", cycles |-> cycles, words |-> words]
Wait(tokens, kind)  == [tokens |-> tokens, padding |-> kind, cycles |-> 2, words |-> 1]

One(t)      == Row(<<t>>)
Filling(t)  == Row(<<[t EXCEPT !.filler = TRUE]>>)
LabelL      == One(Mark("LABEL", "L"))
LabelM      == One(Mark("LABEL", "M"))
Exit        == One(Mark("EXIT", NoLabel))
Cont        == One(Mark("CONT", NoLabel))
Barrier     == One(Mark("BARRIER", NoLabel))
Two(s, t)   == Row(<<s, t>>)

(* Every token its own number. *)
Numbered(p) ==
  [i \in DOMAIN p |-> [p[i] EXCEPT !.tokens = [k \in DOMAIN @ |-> [@[k] EXCEPT !.at = 2 * i + k]]]]

-----------------------------------------------------------------------------
(* A loop closed by its branch: clip pushes and tests, producers of the       *)
(* condition, candidates to take back, padding. *)
Loops ==
  {<<LabelL, a, b, c, d, e>> :
     a \in {One(Clip), One(Fcand)},
     b \in {One(Clip), One(Iadd("i1")), Pad(2, 1)},
     c \in {One(Add), One(Iadd("i2")), One(Iadd("i1")), Two(Add, Iadd("i1"))},
     d \in {One(Ibgtz), Two(Add, Ibgtz)},
     e \in {Filling(Iadd("i2")), Filling(Sq), Filling(Iadd("i1")), One(Fcand)}}

(* A branch forward over a slot or two, to a label that is also fallen into. *)
Joins ==
  {<<a, b, c, d, LabelL, e>> :
     a \in {One(Clip), One(Iadd("i1"))},
     b \in {One(Ibgtz), One(B), Two(Add, Ibgtz)},
     c \in {Filling(Iadd("i2")), Pad(1, 1), One(Fcand)},
     d \in {One(Clip), One(Iadd("i1")), Exit, Cont},
     e \in {One(Fcand), One(Ibgtz), Exit, Barrier}}

(* Waits, alone and beside an upper token, and a filler behind padding. *)
Waits ==
  {<<LabelL, a, b, c, d, e>> :
     a \in {One(Div), One(Esadd)},
     b \in {Wait(<<>>, "WAITQ"), Wait(<<MulQ>>, "WAITQ"), Wait(<<>>, "WAITP"), Wait(<<Add>>, "WAITP")},
     c \in {Two(Add, Ibgtz), One(Ibgtz)},
     d \in {Pad(1, 1), Pad(3, 0)},
     e \in {Filling(Sq), Filling(Iadd("i1"))}}

(* A subroutine behind an exit. *)
Calls ==
  {<<a, One(Bal), b, Exit, LabelM, c, One(Jr), d, LabelL, One(Add)>> :
     a \in {One(Iadd("i1")), One(Clip)},
     b \in {Filling(Iadd("i1")), One(Fcand), One(B)},
     c \in {One(Add), One(Fcand)},
     d \in {Filling(Iadd("i1")), Exit}}

-----------------------------------------------------------------------------
(* Shapes the emitter breaks.  The runs named in the README show each. *)

Holds(slot, T(_)) == \E t \in Range(slot.tokens) : T(t)
HasFiller(slot)   == Holds(slot, LAMBDA t : t.filler)
IsRole(slot, r)   == Holds(slot, LAMBDA t : t.role = r)

(* A candidate above a branch with a partner: the partner is lost. *)
LosesPartner(p) ==
  \E i \in 2 .. Len(p) :
    /\ Holds(p[i], HasDelaySlot) /\ Len(p[i].tokens) = 2
    /\ i < Len(p) => ~HasFiller(p[i + 1])
    /\ Holds(p[i - 1], LAMBDA t : t.integer /\ ~t.filler)

(* The last slot above i that is no label leaves the program open. *)
OpenAbove(p, i) ==
  LET acting == {h \in 1 .. i - 1 : ~HasFiller(p[h]) /\ \E r \in {"CODE", "EXIT", "CONT"} : IsRole(p[h], r)}
  IN  acting # {} /\ LET last == p[Max(acting)] IN IsRole(last, "CODE") /\ ~Holds(last, Terminal)

(* A label behind what closes the program, and nothing before it ends: no [E] *)
(* is written behind the label.                                              *)
LeavesExit(p) ==
  \E i \in DOMAIN p, j \in 2 .. Len(p) + 1 :
    /\ i < j /\ IsRole(p[i], "LABEL") /\ ~OpenAbove(p, i)
    /\ j <= Len(p) => IsRole(p[j], "EXIT")
    /\ \A k \in i + 1 .. j - 1 : ~IsRole(p[k], "CODE") /\ ~IsRole(p[k], "CONT")

SoundPrograms ==
  {Numbered(p) : p \in {q \in Loops \cup Joins \cup Waits \cup Calls :
                           ~LosesPartner(q) /\ ~LeavesExit(q)}}

(* A forward branch over an unconditional branch, to a label at the end: the  *)
(* jump has closed the program, and what the label leads to is not.           *)
EndPrograms ==
  {Numbered(<<LabelM, a, One(Ibgtz), Pad(1, 1), [One(B) EXCEPT !.tokens[1].name = "M"], b, LabelL, Exit>>) :
     a \in {One(Iadd("i1")), One(Add), One(Clip)}, b \in {Pad(1, 1), Filling(Sq), Filling(Iadd("i2"))}}

AllOptions == Options
================================================================================
