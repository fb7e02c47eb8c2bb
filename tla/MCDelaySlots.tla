----------------------------- MODULE MCDelaySlots -----------------------------
(* Instances of VuDelaySlots: loops with stores, and branches over code. *)
EXTENDS VuDelaySlots

Make(op, dst, from, imm, to) ==
  [op |-> op, dst |-> dst, from |-> from, imm |-> imm, to |-> to, filler |-> FALSE]

Add(d, a)     == Make("ADD", d, <<a>>, 1, 0)
Store(a, b)   == Make("STORE", 0, <<a, b>>, 0, 0)
Load(d, a)    == Make("LOAD", d, <<a>>, 0, 0)
Label(l)      == Make("LABEL", 0, <<>>, 0, l)
To(l, from)   == Make("BRANCH", 0, from, 0, l)
Jump(l)       == Make("JUMP", 0, <<>>, 0, l)
Return(a)     == Make("RETURN", 0, <<a>>, 0, 0)

Lists(kinds, n) == UNION {[1 .. k -> kinds] : k \in 0 .. n}

Adds   == {Add(d, a) : d \in Regs, a \in Regs}
Stores == {Store(1, 2), Store(2, 1)}
Loads  == {Load(1, 2)}

(* A loop of up to three tokens. *)
Loops(kinds, n) ==
  { <<Label(1)>> \o body \o <<back, Store(2, 1)>>
    : body \in Lists(kinds, n), back \in {To(1, <<1>>), To(1, <<1, 2>>), Jump(1)} }

(* A branch over one or two tokens, then a way back, a way over a write, a return or nothing. *)
Skips ==
  { <<Label(1)>> \o above \o <<To(2, from)>> \o over \o <<Label(2)>> \o below \o end
    : above \in Lists({Add(1, 1), Add(2, 1), Store(1, 2)}, 1),
      from \in {<<1>>, <<2>>},
      over \in Lists({Add(1, 1), Add(1, 2), Add(2, 1), Store(2, 1), Load(1, 2)}, 2),
      below \in Lists({Add(1, 2), Store(1, 2), Store(2, 1)}, 1),
      end \in { <<>>, <<To(1, <<2>>)>>, <<Return(1)>>,
                <<To(3, <<2>>), Add(1, 2), Label(3), Store(2, 1)>>,
                <<To(3, <<2>>), Store(1, 2), Jump(1), Label(3), Store(2, 2)>> } }

(* Stores that do not read what is incremented under them. *)
Independent == Loops({Store(2, 2), Add(1, 1), Add(1, 2), Add(2, 1)}, 3)

SafePrograms == Loops(Adds \cup Stores \cup Loads, 3) \cup Independent \cup Skips

(* What the theorem on execution asks of the programs, these fulfil. *)
ASSUME SafeAssumption == StoresKeepBase
================================================================================
