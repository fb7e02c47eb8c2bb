--------------------------- MODULE VuDelaySlotsProofs ---------------------------
(* Proofs about VuDelaySlots, for every program, every set of registers and   *)
(* any number of turns: each move of a token into a delay slot leaves a       *)
(* program that follows the one before step by step (a simulation), so that   *)
(* the filled program does what the source does on every path.                *)
EXTENDS VuDelaySlots, FiniteSetTheorems, WellFoundedInduction, TLAPS

-----------------------------------------------------------------------------
(* Numbers and sequences *)

LEMMA LeastNumber ==
  ASSUME NEW S \in SUBSET Nat, S # {}
  PROVE  \E m \in S : \A k \in S : m <= k
<1>1. PICK m \in S : \A k \in S : <<k, m>> \notin OpToRel(<, Nat)
  BY NatLessThanWellFounded, WFMin
<1>2. \A k \in S : ~(k < m)
  BY <1>1, Zenon DEF OpToRel
<1> QED
  BY <1>2

(* The first and the last of some places of a sequence.                       *)
LEMMA FirstPlace ==
  ASSUME NEW n \in Nat, NEW S \in SUBSET (1 .. n), S # {}
  PROVE  Min(S) \in S /\ \A y \in S : Min(S) <= y
<1>1. PICK x \in S : \A y \in S : x <= y
  BY LeastNumber
<1> QED
  BY <1>1 DEF Min

LEMMA LastPlace ==
  ASSUME NEW n \in Nat, NEW S \in SUBSET (1 .. n), S # {}
  PROVE  Max(S) \in S
<1> DEFINE back == {n - x : x \in S}
<1>0. \A x \in S : x \in Int /\ x <= n /\ n - x \in Nat
  OBVIOUS
<1>1. back \in SUBSET Nat /\ back # {}
  BY <1>0
<1>2. PICK b \in back : \A k \in back : b <= k
  BY <1>1, LeastNumber
<1>3. PICK x \in S : b = n - x
  BY <1>2
<1>4. ASSUME NEW y \in S PROVE x >= y
  <2>1. n - y \in back
    OBVIOUS
  <2>2. b <= n - y
    BY <1>2, <2>1
  <2> QED
    BY <1>0, <1>3, <2>2
<1> QED
  BY <1>4 DEF Max

LEMMA Longer ==
  ASSUME NEW S, NEW s \in Seq(S), NEW e \in S
  PROVE  Append(s, e) \in Seq(S) /\ Len(Append(s, e)) = Len(s) + 1 /\ Append(s, e)[Len(s) + 1] = e
OBVIOUS

LEMMA PrefixSelf ==
  ASSUME NEW S, NEW s \in Seq(S)
  PROVE  IsPrefix(s, s)
BY DEF IsPrefix

LEMMA PrefixAppend ==
  ASSUME NEW S, NEW s \in Seq(S), NEW t \in Seq(S), NEW e \in S, IsPrefix(s, t)
  PROVE  IsPrefix(s, Append(t, e))
<1>1. Len(s) <= Len(t) /\ SubSeq(s, 1, Len(s)) = SubSeq(t, 1, Len(s))
  BY DEF IsPrefix
<1>2. SubSeq(Append(t, e), 1, Len(s)) = SubSeq(t, 1, Len(s))
  BY <1>1
<1> QED
  BY <1>1, <1>2 DEF IsPrefix

-----------------------------------------------------------------------------
(* What a token does to the registers and the memory *)

File == [Regs -> Int]
Store == Seq(Int \X Int)

Fine(t) ==
  /\ t \in Token
  /\ t.op \in {"ADD", "LOAD"} => t.from # <<>>
  /\ t.op = "STORE" => Len(t.from) = 2
  /\ t.op \notin {"ADD", "LOAD"} => t.dst = 0

Cell(stores, address) ==
  IF \E i \in DOMAIN stores : stores[i][1] = address
  THEN stores[SelectLastInSeq(stores, LAMBDA s : s[1] = address)][2]
  ELSE 100 + address

LEMMA CellIsInt ==
  ASSUME NEW s \in Store, NEW x \in Int
  PROVE  Cell(s, x) \in Int
<1> DEFINE I == {i \in 1 .. Len(s) : s[i][1] = x}
<1>1. CASE I # {}
  <2>1. I \in SUBSET (1 .. Len(s)) /\ Len(s) \in Nat
    BY DEF Store
  <2>2. Max(I) \in I
    BY <1>1, <2>1, LastPlace
  <2>3. SelectLastInSeq(s, LAMBDA e : e[1] = x) = Max(I)
    BY <1>1 DEF SelectLastInSeq
  <2>4. s[Max(I)] \in Int \X Int
    BY <2>2 DEF Store
  <2>5. s[SelectLastInSeq(s, LAMBDA e : e[1] = x)][2] \in Int
    BY <2>3, <2>4
  <2> QED
    BY <2>5 DEF Cell
<1>2. CASE I = {}
  <2>1. DOMAIN s = 1 .. Len(s)
    BY DEF Store
  <2>2. ~ \E i \in DOMAIN s : s[i][1] = x
    BY <1>2, <2>1
  <2> QED
    BY <2>2 DEF Cell
<1> QED
  BY <1>1, <1>2

Address(g, t) == g[t.from[1]] + t.imm

RegsAfter(g, s, t) ==
  CASE t.op = "ADD"  -> [g EXCEPT ![t.dst] = Address(g, t)]
    [] t.op = "LOAD" -> [g EXCEPT ![t.dst] = Cell(s, Address(g, t))]
    [] OTHER         -> g

StoresAfter(g, s, t) ==
  IF t.op = "STORE" THEN Append(s, <<Address(g, t), g[t.from[2]]>>) ELSE s

Works == {"ADD", "LOAD", "STORE"}

LEMMA TokenOperands ==
  ASSUME NEW t, Fine(t)
  PROVE  /\ t.op \in Op /\ t.imm \in Int /\ t.dst \in Regs \cup {0} /\ t.from \in Seq(Regs)
         /\ t.filler \in BOOLEAN /\ t.to \in Nat
         /\ t.op \in Works => Len(t.from) >= 1 /\ t.from[1] \in Regs
         /\ t.op = "STORE" => t.from[2] \in Regs /\ Reads(t) = {t.from[1], t.from[2]}
         /\ t.op \in Works => t.from[1] \in Reads(t)
<1>1. t \in Token
  BY DEF Fine
<1>2. t.op \in Op /\ t.imm \in Int /\ t.dst \in Regs \cup {0} /\ t.from \in Seq(Regs)
      /\ t.filler \in BOOLEAN /\ t.to \in Nat
  BY <1>1 DEF Token
<1> DEFINE from == t.from
<1>3. from \in Seq(Regs) /\ DOMAIN from = 1 .. Len(from) /\ Len(from) \in Nat
  BY <1>2
<1>4. t.op \in Works => Len(from) >= 1
  <2>1. from # <<>> => Len(from) >= 1
    BY <1>3
  <2>2. t.op \in {"ADD", "LOAD"} => from # <<>>
    BY DEF Fine
  <2>3. t.op = "STORE" => Len(from) = 2
    BY DEF Fine
  <2> HIDE DEF from
  <2> QED
    BY <2>1, <2>2, <2>3 DEF Works
<1>5. t.op = "STORE" => Len(from) = 2
  BY DEF Fine
<1> HIDE DEF from
<1>6. Reads(t) = {from[k] : k \in DOMAIN from}
  BY DEF Reads, Range, from
<1>7. Len(from) = 2 => from[2] \in Regs /\ {from[k] : k \in DOMAIN from} = {from[1], from[2]}
  BY <1>3
<1>8. Len(from) >= 1 => from[1] \in Regs /\ from[1] \in {from[k] : k \in DOMAIN from}
  BY <1>3
<1> QED
  BY <1>2, <1>4, <1>5, <1>6, <1>7, <1>8 DEF from

LEMMA AfterTyped ==
  ASSUME NEW g \in File, NEW s \in Store, NEW t, Fine(t)
  PROVE  RegsAfter(g, s, t) \in File /\ StoresAfter(g, s, t) \in Store
<1>1. t.op \in Works => Address(g, t) \in Int
  BY TokenOperands DEF Address, File
<1>2. t.op \in Works => Cell(s, Address(g, t)) \in Int
  BY <1>1, CellIsInt
<1>3. RegsAfter(g, s, t) \in File
  BY <1>1, <1>2 DEF RegsAfter, File, Works
<1>4. t.op = "STORE" => g[t.from[2]] \in Int
  BY TokenOperands DEF File
<1>5. StoresAfter(g, s, t) \in Store
  BY <1>1, <1>4 DEF StoresAfter, Store, Works
<1> QED
  BY <1>3, <1>5

(* A machine is its four parts.                                               *)
LEMMA MachineParts ==
  ASSUME NEW m \in Machine
  PROVE  /\ m.pc \in Nat /\ m.regs \in File /\ m.stores \in Store /\ m.compared \in Seq(Seq(Int))
         /\ m = [pc |-> m.pc, regs |-> m.regs, stores |-> m.stores, compared |-> m.compared]
BY DEF Machine, File, Store

LEMMA ExecutedParts ==
  ASSUME NEW m \in Machine, NEW t, Fine(t), t.op \in Works \cup {"LABEL"}
  PROVE  Executed(m, t) = [pc |-> m.pc, regs |-> RegsAfter(m.regs, m.stores, t),
                           stores |-> StoresAfter(m.regs, m.stores, t), compared |-> m.compared]
<1>1. m = [pc |-> m.pc, regs |-> m.regs, stores |-> m.stores, compared |-> m.compared]
  BY MachineParts
<1>2. Memory(m, Address(m.regs, t)) = Cell(m.stores, Address(m.regs, t))
  BY DEF Memory, Cell
<1>3. CASE t.op = "ADD"
  BY <1>1, <1>3 DEF Executed, RegsAfter, StoresAfter, Address
<1>4. CASE t.op = "LOAD"
  BY <1>1, <1>2, <1>4 DEF Executed, RegsAfter, StoresAfter, Address
<1>5. CASE t.op = "STORE"
  BY <1>1, <1>5 DEF Executed, RegsAfter, StoresAfter, Address
<1>6. CASE t.op = "LABEL"
  BY <1>1, <1>6 DEF Executed, RegsAfter, StoresAfter
<1> QED
  BY <1>3, <1>4, <1>5, <1>6 DEF Works

-----------------------------------------------------------------------------
(* Programs as the passes leave them, and how a machine runs them *)

FilledAt(list, i) == i < Len(list) /\ list[i + 1].filler

Sunk(list, i) ==
  list[i].filler => /\ list[i].op \in {"ADD", "STORE"}
                    /\ i > 1 /\ list[i - 1].op \in {"BRANCH", "JUMP"} /\ ~list[i - 1].filler

Listed(list) ==
  /\ list \in Seq(Token)
  /\ \A i \in DOMAIN list : Fine(list[i]) /\ Sunk(list, i)

Compare(g, t) == [k \in DOMAIN t.from |-> g[t.from[k]]]

WhereTo(list, p, taken) ==
  IF list[p].op = "RETURN" THEN Len(list) + 1
  ELSE IF taken THEN Destination(list, list[p].to)
  ELSE p + (IF FilledAt(list, p) THEN 2 ELSE 1)

Step(list, m, taken) == IF HasDelaySlot(list[m.pc]) THEN Turned(list, m, taken) ELSE Straight(list, m)

LEMMA DestinationPlace ==
  ASSUME NEW list \in Seq(Token), NEW label
  PROVE  /\ Destination(list, label) \in 1 .. Len(list) + 1
         /\ Destination(list, label) \in DOMAIN list
              => list[Destination(list, label)].op = "LABEL"
         /\ HasLabel(list, label) => /\ Destination(list, label) = LabelRow(list, label)
                                     /\ LabelRow(list, label) \in DOMAIN list
<1> DEFINE I == {i \in 1 .. Len(list) : Labels(list[i], label)}
<1>1. DOMAIN list = 1 .. Len(list) /\ Len(list) \in Nat
  OBVIOUS
<1>2. HasLabel(list, label) <=> I # {}
  BY <1>1 DEF HasLabel
<1>3. CASE I # {}
  <2>1. I \in SUBSET (1 .. Len(list))
    OBVIOUS
  <2>2. Min(I) \in I
    BY <1>1, <1>3, <2>1, FirstPlace
  <2>3. LabelRow(list, label) = Min(I)
    BY <1>3 DEF LabelRow, SelectInSeq
  <2>4. Destination(list, label) = Min(I) /\ Min(I) \in 1 .. Len(list)
    BY <1>2, <1>3, <2>2, <2>3 DEF Destination
  <2>5. list[Min(I)].op = "LABEL"
    BY <2>2 DEF Labels
  <2> HIDE DEF I
  <2> QED
    BY <1>1, <2>3, <2>4, <2>5
<1>4. CASE I = {}
  <2>1. Destination(list, label) = Len(list) + 1
    BY <1>2, <1>4 DEF Destination
  <2> QED
    BY <1>1, <1>2, <1>4, <2>1
<1> QED
  BY <1>3, <1>4

LEMMA StraightParts ==
  ASSUME NEW list, Listed(list), NEW m \in Machine, m.pc \in DOMAIN list, ~HasDelaySlot(list[m.pc])
  PROVE  /\ Straight(list, m) = [ pc |-> m.pc + 1,
                                  regs |-> RegsAfter(m.regs, m.stores, list[m.pc]),
                                  stores |-> StoresAfter(m.regs, m.stores, list[m.pc]),
                                  compared |-> m.compared ]
         /\ Straight(list, m) \in Machine
<1> DEFINE t == list[m.pc]
<1>1. Fine(t)
  BY DEF Listed
<1>2. t.op \in Works \cup {"LABEL"}
  BY <1>1, TokenOperands DEF HasDelaySlot, Works, Op
<1>3. m.pc \in Nat /\ m.regs \in File /\ m.stores \in Store /\ m.compared \in Seq(Seq(Int))
  BY MachineParts
<1>4. RegsAfter(m.regs, m.stores, t) \in File /\ StoresAfter(m.regs, m.stores, t) \in Store
  BY <1>1, <1>3, AfterTyped
<1>5. Executed(m, t) = [pc |-> m.pc, regs |-> RegsAfter(m.regs, m.stores, t),
                        stores |-> StoresAfter(m.regs, m.stores, t), compared |-> m.compared]
  BY <1>1, <1>2, ExecutedParts
<1>6. Straight(list, m) = [Executed(m, t) EXCEPT !.pc = @ + 1]
  BY DEF Straight
<1> HIDE DEF t
<1>7. Straight(list, m) = [ pc |-> m.pc + 1, regs |-> RegsAfter(m.regs, m.stores, t),
                            stores |-> StoresAfter(m.regs, m.stores, t), compared |-> m.compared ]
  BY <1>5, <1>6
<1>8. Straight(list, m) \in Machine
  BY <1>3, <1>4, <1>7 DEF Machine, File, Store
<1> QED
  BY <1>7, <1>8 DEF t

RegsInSlot(list, m) ==
  IF FilledAt(list, m.pc) THEN RegsAfter(m.regs, m.stores, list[m.pc + 1]) ELSE m.regs

StoresInSlot(list, m) ==
  IF FilledAt(list, m.pc) THEN StoresAfter(m.regs, m.stores, list[m.pc + 1]) ELSE m.stores

LEMMA TurnedParts ==
  ASSUME NEW list, Listed(list), NEW m \in Machine, m.pc \in DOMAIN list, NEW taken \in BOOLEAN
  PROVE  /\ Turned(list, m, taken) = [ pc |-> WhereTo(list, m.pc, taken),
                                       regs |-> RegsInSlot(list, m),
                                       stores |-> StoresInSlot(list, m),
                                       compared |-> Append(m.compared, Compare(m.regs, list[m.pc])) ]
         /\ Turned(list, m, taken) \in Machine
         /\ WhereTo(list, m.pc, taken) \in 1 .. Len(list) + 1
<1> DEFINE t == list[m.pc]
           c == Append(m.compared, Compare(m.regs, t))
           n == [m EXCEPT !.compared = c]
           fill == list[m.pc + 1]
           filled == FilledAt(list, m.pc)
           ran == IF filled THEN Executed(n, fill) ELSE n
           to == WhereTo(list, m.pc, taken)
<1>1. Fine(t) /\ list \in Seq(Token) /\ m.pc \in 1 .. Len(list) /\ Len(list) \in Nat
  BY DEF Listed
<1>2. m.pc \in Nat /\ m.regs \in File /\ m.stores \in Store /\ m.compared \in Seq(Seq(Int))
      /\ m = [pc |-> m.pc, regs |-> m.regs, stores |-> m.stores, compared |-> m.compared]
  BY MachineParts
<1>3. Compare(m.regs, t) \in Seq(Int)
  <2>1. t.from \in Seq(Regs)
    BY <1>1, TokenOperands
  <2> DEFINE from == t.from
             seen(k) == m.regs[from[k]]
             values == [k \in 1 .. Len(from) |-> seen(k)]
  <2> HIDE DEF t
  <2>2. Len(from) \in Nat /\ DOMAIN from = 1 .. Len(from) /\ \A k \in 1 .. Len(from) : from[k] \in Regs
    BY <2>1
  <2>3. Compare(m.regs, t) = values
    BY <2>2 DEF Compare
  <2>4. \A k \in 1 .. Len(from) : seen(k) \in Int
    BY <1>2, <2>2 DEF File
  <2> HIDE DEF seen, from
  <2>5. values \in Seq(Int)
    BY <2>2, <2>4
  <2> QED
    BY <2>3, <2>5
<1>4. c \in Seq(Seq(Int))
  BY <1>2, <1>3
<1>5. Turned(list, m, taken) = [ran EXCEPT !.pc = to]
  BY DEF Turned, FilledAt, WhereTo, Compare
<1>6. filled => Fine(fill) /\ fill.op \in Works
  <2>1. filled => m.pc + 1 \in DOMAIN list /\ fill.filler
    BY <1>1 DEF FilledAt
  <2> QED
    BY <2>1 DEF Listed, Sunk, Works
<1>7. to \in 1 .. Len(list) + 1
  <2>1. Destination(list, t.to) \in 1 .. Len(list) + 1
    BY <1>1, DestinationPlace
  <2> QED
    BY <1>1, <2>1 DEF WhereTo, FilledAt
<1> HIDE DEF t, c, fill, filled, to
<1>8. n = [pc |-> m.pc, regs |-> m.regs, stores |-> m.stores, compared |-> c]
  BY <1>2
<1>9. n \in Machine
  BY <1>2, <1>4, <1>8 DEF Machine, File, Store
<1> HIDE DEF n
<1>10. CASE filled
  <2>1. ran = [pc |-> m.pc, regs |-> RegsAfter(m.regs, m.stores, fill),
               stores |-> StoresAfter(m.regs, m.stores, fill), compared |-> c]
    BY <1>6, <1>8, <1>9, <1>10, ExecutedParts
  <2>2. RegsAfter(m.regs, m.stores, fill) \in File /\ StoresAfter(m.regs, m.stores, fill) \in Store
    BY <1>2, <1>6, <1>10, AfterTyped
  <2>3. Turned(list, m, taken) = [pc |-> to, regs |-> RegsAfter(m.regs, m.stores, fill),
               stores |-> StoresAfter(m.regs, m.stores, fill), compared |-> c]
    BY <1>5, <2>1
  <2>4. Turned(list, m, taken) \in Machine
    BY <1>1, <1>4, <1>7, <2>2, <2>3 DEF Machine, File, Store
  <2> QED
    BY <1>7, <1>10, <2>3, <2>4 DEF RegsInSlot, StoresInSlot, filled, fill, c, t, to
<1>11. CASE ~filled
  <2>3. Turned(list, m, taken) = [pc |-> to, regs |-> m.regs, stores |-> m.stores, compared |-> c]
    BY <1>5, <1>8, <1>11
  <2>4. Turned(list, m, taken) \in Machine
    BY <1>1, <1>2, <1>4, <1>7, <2>3 DEF Machine, File, Store
  <2> QED
    BY <1>7, <1>11, <2>3, <2>4 DEF RegsInSlot, StoresInSlot, filled, fill, c, t, to
<1> QED
  BY <1>10, <1>11

-----------------------------------------------------------------------------
(* One program follows another: whatever turns the first takes, the second    *)
(* takes the same, a step at a time or none, and ends with the same stores    *)
(* and comparisons.                                                           *)

MayTurn(list, m, taken) == list[m.pc].op \in {"JUMP", "RETURN"} => taken

Agrees(A, B, a, b) ==
  /\ a.pc \in 1 .. Len(A) + 1 /\ b.pc \in 1 .. Len(B) + 1
  /\ a.compared = b.compared
  /\ Ended(A, a) => Ended(B, b) /\ a.stores = b.stores

Follows(A, B, R, a, b, taken) ==
  \/ ~HasDelaySlot(A[a.pc]) /\ <<Step(A, a, taken), b>> \in R
  \/ /\ ~Ended(B, b)
     /\ A[a.pc].op = B[b.pc].op
     /\ <<Step(A, a, taken), Step(B, b, taken)>> \in R

Simulation(A, B, R) ==
  /\ R \in SUBSET (Machine \X Machine)
  /\ <<Start, Start>> \in R
  /\ \A a \in Machine, b \in Machine : <<a, b>> \in R =>
       /\ Agrees(A, B, a, b)
       /\ \A taken \in BOOLEAN : ~Ended(A, a) /\ MayTurn(A, a, taken) => Follows(A, B, R, a, b, taken)

Implements(A, B) == \E R : Simulation(A, B, R)

LEMMA StartTyped == Start \in Machine
<1>1. [r \in Regs |-> 10 * r] \in [Regs -> Int]
  BY RegsAssumption
<1>2. <<>> \in Seq(Int \X Int) /\ <<>> \in Seq(Seq(Int))
  OBVIOUS
<1> QED
  BY <1>1, <1>2 DEF Start, Machine

LEMMA StepTyped ==
  ASSUME NEW list, Listed(list), NEW m \in Machine, m.pc \in DOMAIN list, NEW taken \in BOOLEAN
  PROVE  Step(list, m, taken) \in Machine
<1>1. CASE HasDelaySlot(list[m.pc])
  BY <1>1, TurnedParts DEF Step
<1>2. CASE ~HasDelaySlot(list[m.pc])
  BY <1>2, StraightParts DEF Step
<1> QED
  BY <1>1, <1>2

LEMMA FollowsItself ==
  ASSUME NEW list, Listed(list)
  PROVE  Implements(list, list)
<1> DEFINE Fit == {m \in Machine : m.pc \in 1 .. Len(list) + 1}
           R == {x \in Machine \X Machine : x[1] = x[2] /\ x[1] \in Fit}
<1>1. \A a \in Machine, b \in Machine : <<a, b>> \in R <=> a = b /\ a \in Fit
  OBVIOUS
<1>2. list \in Seq(Token) /\ Len(list) \in Nat /\ DOMAIN list = 1 .. Len(list)
  BY DEF Listed
<1>3. <<Start, Start>> \in R
  <2>1. Start \in Fit
    BY <1>2, StartTyped DEF Start
  <2> QED
    BY <2>1, StartTyped, <1>1
<1>4. ASSUME NEW a \in Fit, NEW taken \in BOOLEAN, ~Ended(list, a)
      PROVE  Step(list, a, taken) \in Fit
  <2>1. a \in Machine /\ a.pc \in DOMAIN list
    BY <1>2, <1>4 DEF Ended
  <2>2. Step(list, a, taken) \in Machine
    BY <2>1, StepTyped
  <2>3. CASE HasDelaySlot(list[a.pc])
    <3>1. Step(list, a, taken).pc = WhereTo(list, a.pc, taken)
      BY <2>1, <2>3, TurnedParts DEF Step
    <3> QED
      BY <2>1, <2>2, <3>1, TurnedParts
  <2>4. CASE ~HasDelaySlot(list[a.pc])
    <3>1. Step(list, a, taken).pc = a.pc + 1
      BY <2>1, <2>4, StraightParts DEF Step
    <3> QED
      BY <1>2, <2>1, <2>2, <3>1
  <2> QED
    BY <2>3, <2>4
<1>5. ASSUME NEW a \in Fit
      PROVE  /\ Agrees(list, list, a, a)
             /\ \A taken \in BOOLEAN :
                  ~Ended(list, a) /\ MayTurn(list, a, taken) => Follows(list, list, R, a, a, taken)
  <2>1. Agrees(list, list, a, a)
    BY DEF Agrees
  <2>2. ASSUME NEW taken \in BOOLEAN, ~Ended(list, a) PROVE Follows(list, list, R, a, a, taken)
    <3>1. Step(list, a, taken) \in Fit
      BY <1>4, <2>2
    <3>2. <<Step(list, a, taken), Step(list, a, taken)>> \in R
      BY <3>1
    <3> QED
      BY <2>2, <3>2 DEF Follows
  <2> QED
    BY <2>1, <2>2
<1>6. R \in SUBSET (Machine \X Machine)
  OBVIOUS
<1> HIDE DEF R
<1>7. Simulation(list, list, R)
  BY <1>1, <1>3, <1>5, <1>6 DEF Simulation
<1> QED
  BY <1>7 DEF Implements

(* What follows a program that follows another follows that one.              *)
LEMMA FollowsOn ==
  ASSUME NEW A, NEW B, NEW C, Listed(A), Listed(B), Implements(A, B), Implements(B, C)
  PROVE  Implements(A, C)
<1>1. PICK R : Simulation(A, B, R)
  BY DEF Implements
<1>2. PICK S : Simulation(B, C, S)
  BY DEF Implements
<1> DEFINE T == {x \in Machine \X Machine : \E m \in Machine : <<x[1], m>> \in R /\ <<m, x[2]>> \in S}
<1>3. \A a \in Machine, c \in Machine :
        <<a, c>> \in T <=> \E m \in Machine : <<a, m>> \in R /\ <<m, c>> \in S
  OBVIOUS
<1>4. T \in SUBSET (Machine \X Machine)
  OBVIOUS
<1> HIDE DEF T
<1>5. <<Start, Start>> \in T
  BY <1>1, <1>2, <1>3, StartTyped DEF Simulation
<1>6. ASSUME NEW a \in Machine, NEW c \in Machine, <<a, c>> \in T
      PROVE  /\ Agrees(A, C, a, c)
             /\ \A taken \in BOOLEAN :
                  ~Ended(A, a) /\ MayTurn(A, a, taken) => Follows(A, C, T, a, c, taken)
  <2>1. PICK b \in Machine : <<a, b>> \in R /\ <<b, c>> \in S
    BY <1>3, <1>6
  <2>2. Agrees(A, B, a, b) /\ Agrees(B, C, b, c)
    BY <1>1, <1>2, <2>1 DEF Simulation
  <2>3. Agrees(A, C, a, c)
    BY <2>2 DEF Agrees
  <2>4. ASSUME NEW taken \in BOOLEAN, ~Ended(A, a), MayTurn(A, a, taken)
        PROVE  Follows(A, C, T, a, c, taken)
    <3>1. Follows(A, B, R, a, b, taken)
      BY <1>1, <2>1, <2>4 DEF Simulation
    <3>2. a.pc \in DOMAIN A
      <4>1. A \in Seq(Token) /\ a.pc \in 1 .. Len(A) + 1 /\ ~(a.pc > Len(A))
        BY <2>2, <2>4 DEF Listed, Agrees, Ended
      <4> QED
        BY <4>1
    <3>3. Step(A, a, taken) \in Machine
      BY <3>2, StepTyped
    <3>4. CASE ~HasDelaySlot(A[a.pc]) /\ <<Step(A, a, taken), b>> \in R
      <4>1. <<Step(A, a, taken), c>> \in T
        BY <1>3, <2>1, <3>3, <3>4
      <4> QED
        BY <3>4, <4>1 DEF Follows
    <3>5. CASE /\ ~Ended(B, b) /\ A[a.pc].op = B[b.pc].op
               /\ <<Step(A, a, taken), Step(B, b, taken)>> \in R
      <4>1. MayTurn(B, b, taken)
        BY <2>4, <3>5 DEF MayTurn
      <4>2. Follows(B, C, S, b, c, taken)
        BY <1>2, <2>1, <3>5, <4>1 DEF Simulation
      <4>3. b.pc \in DOMAIN B
        <5>1. B \in Seq(Token) /\ b.pc \in 1 .. Len(B) + 1 /\ ~(b.pc > Len(B))
          BY <2>2, <3>5 DEF Listed, Agrees, Ended
        <5> QED
          BY <5>1
      <4>4. Step(B, b, taken) \in Machine
        BY <4>3, StepTyped
      <4>5. CASE ~HasDelaySlot(B[b.pc]) /\ <<Step(B, b, taken), c>> \in S
        <5>1. ~HasDelaySlot(A[a.pc])
          BY <3>5, <4>5 DEF HasDelaySlot
        <5>2. <<Step(A, a, taken), c>> \in T
          BY <1>3, <3>3, <3>5, <4>4, <4>5
        <5> QED
          BY <5>1, <5>2 DEF Follows
      <4>6. CASE /\ ~Ended(C, c) /\ B[b.pc].op = C[c.pc].op
                 /\ <<Step(B, b, taken), Step(C, c, taken)>> \in S
        <5>1. Step(C, c, taken) \in Machine
          BY <1>2, <4>6 DEF Simulation
        <5>2. <<Step(A, a, taken), Step(C, c, taken)>> \in T
          BY <1>3, <3>3, <3>5, <4>4, <4>6, <5>1
        <5> QED
          BY <3>5, <4>6, <5>2 DEF Follows
      <4> QED
        BY <4>2, <4>5, <4>6 DEF Follows
    <3> QED
      BY <3>1, <3>4, <3>5 DEF Follows
  <2> QED
    BY <2>3, <2>4
<1>7. Simulation(A, C, T)
  BY <1>4, <1>5, <1>6 DEF Simulation
<1> QED
  BY <1>7 DEF Implements

-----------------------------------------------------------------------------
(* A token that sinks *)

(* B is A with the token at j taken out and f put behind the branch at i.     *)
Moved(A, B, j, i, f) ==
  /\ B \in Seq(Token) /\ Len(B) = Len(A)
  /\ \A k \in 1 .. Len(A) : k < j \/ k > i => B[k] = A[k]
  /\ \A k \in j + 1 .. i : B[k - 1] = A[k]
  /\ B[i] = f

LEMMA SinkMoves ==
  ASSUME NEW A \in Seq(Token), NEW i \in 1 .. Len(A), NEW j \in 1 .. i - 1, NEW f \in Token
  PROVE  Moved(A, InsertAt(RemoveAt(A, j), i, f), j, i, f)
<1> DEFINE n == Len(A)
           front == SubSeq(A, 1, j - 1)
           rest == SubSeq(A, j + 1, n)
           s == RemoveAt(A, j)
<1>1. n \in Nat /\ i \in Nat /\ j \in Nat /\ 1 <= j /\ j < i /\ i <= n
  OBVIOUS
<1>2. /\ front \in Seq(Token) /\ Len(front) = j - 1
      /\ \A k \in 1 .. j - 1 : front[k] = A[k]
  BY <1>1
<1>3. /\ rest \in Seq(Token) /\ Len(rest) = n - j
      /\ \A k \in 1 .. n - j : rest[k] = A[j + k]
  BY <1>1
<1>4. s = front \o rest
  BY DEF RemoveAt
<1> HIDE DEF front, rest, s, n
<1>5. s \in Seq(Token) /\ Len(s) = n - 1
  <2>1. front \in Seq(Token) /\ rest \in Seq(Token)
    BY <1>2, <1>3
  <2>2. s \in Seq(Token) /\ Len(s) = Len(front) + Len(rest)
    BY <1>4, <2>1
  <2> QED
    BY <1>1, <1>2, <1>3, <2>2
<1>6. \A k \in 1 .. n - 1 : s[k] = IF k < j THEN A[k] ELSE A[k + 1]
  <2> SUFFICES ASSUME NEW k \in 1 .. n - 1 PROVE s[k] = IF k < j THEN A[k] ELSE A[k + 1]
    OBVIOUS
  <2>1. s[k] = IF k <= j - 1 THEN front[k] ELSE rest[k - (j - 1)]
    BY <1>1, <1>2, <1>3, <1>4
  <2>2. CASE k < j
    BY <1>1, <1>2, <2>1, <2>2
  <2>3. CASE ~(k < j)
    <3>1. k - (j - 1) \in 1 .. n - j /\ j + (k - (j - 1)) = k + 1
      BY <1>1, <2>3
    <3> QED
      BY <1>1, <1>3, <2>1, <2>3, <3>1
  <2> QED
    BY <2>2, <2>3
<1> DEFINE above == SubSeq(s, 1, i - 1)
           below == SubSeq(s, i, n - 1)
           B == InsertAt(s, i, f)
<1>7. /\ above \in Seq(Token) /\ Len(above) = i - 1
      /\ \A k \in 1 .. i - 1 : above[k] = s[k]
  BY <1>1, <1>5
<1>8. /\ below \in Seq(Token) /\ Len(below) = n - i
      /\ \A k \in 1 .. n - i : below[k] = s[i + k - 1]
  BY <1>1, <1>5
<1>9. B = above \o <<f>> \o below
  BY <1>5 DEF InsertAt
<1> HIDE DEF above, below, B
<1>10. B \in Seq(Token) /\ Len(B) = n
  <2> DEFINE top == above \o <<f>>
  <2>1. above \in Seq(Token) /\ below \in Seq(Token)
    BY <1>7, <1>8
  <2>2. top \in Seq(Token) /\ Len(top) = Len(above) + 1
    BY <2>1
  <2>3. B = top \o below
    BY <1>9
  <2> HIDE DEF top
  <2>4. B \in Seq(Token) /\ Len(B) = Len(top) + Len(below)
    <3>1. top \in Seq(Token) /\ below \in Seq(Token)
      BY <2>1, <2>2
    <3>2. top \o below \in Seq(Token) /\ Len(top \o below) = Len(top) + Len(below)
      BY ONLY <3>1
    <3> QED
      BY <2>3, <3>2
  <2> QED
    BY <1>1, <1>7, <1>8, <2>2, <2>4
<1>11. \A k \in 1 .. n : B[k] = IF k < i THEN above[k] ELSE IF k = i THEN f ELSE below[k - i]
  <2> DEFINE top == above \o <<f>>
  <2>1. top \in Seq(Token) /\ Len(top) = i /\ \A k \in 1 .. i : top[k] = IF k < i THEN above[k] ELSE f
    BY <1>1, <1>7
  <2>2. B = top \o below
    BY <1>9
  <2> HIDE DEF top
  <2> QED
    BY <1>1, <1>8, <2>1, <2>2
<1>12. ASSUME NEW k \in 1 .. n, k < j \/ k > i PROVE B[k] = A[k]
  <2>1. CASE k < j
    BY <1>1, <1>6, <1>7, <1>11, <2>1
  <2>2. CASE k > i
    <3>1. k - i \in 1 .. n - i /\ i + (k - i) - 1 = k - 1 /\ k - 1 \in 1 .. n - 1 /\ ~(k - 1 < j)
          /\ (k - 1) + 1 = k
      BY <1>1, <2>2
    <3> QED
      BY <1>1, <1>6, <1>8, <1>11, <2>2, <3>1
  <2> QED
    BY <1>12, <2>1, <2>2
<1>13. ASSUME NEW k \in j + 1 .. i PROVE B[k - 1] = A[k]
  <2>1. k - 1 \in 1 .. n /\ k - 1 < i /\ k - 1 \in 1 .. i - 1 /\ k - 1 \in 1 .. n - 1
        /\ ~(k - 1 < j) /\ (k - 1) + 1 = k
    BY <1>1
  <2> QED
    BY <1>6, <1>7, <1>11, <2>1
<1>14. B[i] = f
  BY <1>1, <1>11
<1> QED
  BY <1>10, <1>12, <1>13, <1>14 DEF Moved, n, s, B

(* What is still to be done behind the place a token was taken from: left[k]  *)
(* where A has come to k.  It may be done behind each token between, and in   *)
(* the slot of the branch, and the branch compares no register it changes.    *)
Commutes(x, t, y) ==
  \A g \in File, s \in Store :
    /\ RegsAfter(RegsAfter(g, s, x), StoresAfter(g, s, x), t)
         = RegsAfter(RegsAfter(g, s, t), StoresAfter(g, s, t), y)
    /\ StoresAfter(RegsAfter(g, s, x), StoresAfter(g, s, x), t)
         = StoresAfter(RegsAfter(g, s, t), StoresAfter(g, s, t), y)

SameWork(x, y) ==
  \A g \in File, s \in Store :
    RegsAfter(g, s, x) = RegsAfter(g, s, y) /\ StoresAfter(g, s, x) = StoresAfter(g, s, y)

Sinks(A, j, i, f) ==
  /\ i \in 1 .. Len(A) /\ j \in 1 .. i - 1
  /\ A[j].op \in {"ADD", "STORE"} /\ ~A[j].filler
  /\ \A k \in j + 1 .. i - 1 : A[k].op \in Works /\ ~A[k].filler
  /\ A[i].op \in {"BRANCH", "JUMP"} /\ ~FilledAt(A, i)
  /\ Fine(f) /\ f.op \in {"ADD", "STORE"} /\ f.filler

Sinkable(A, j, i, f, left) ==
  /\ Sinks(A, j, i, f)
  /\ \A k \in j + 1 .. i : Fine(left[k])
  /\ left[j + 1] = A[j]
  /\ \A k \in j + 1 .. i - 1 : Commutes(left[k], A[k], left[k + 1])
  /\ SameWork(left[i], f)
  /\ \A g \in File, s \in Store : Compare(RegsAfter(g, s, left[i]), A[i]) = Compare(g, A[i])

(* The list stays one in which each filler stands behind its branch.          *)
LEMMA SinkListed ==
  ASSUME NEW A, NEW B, NEW i, NEW j, NEW f,
         Listed(A), Sinks(A, j, i, f), Moved(A, B, j, i, f)
  PROVE  /\ Listed(B)
         /\ \A k \in DOMAIN B : ~B[k].filler => \E l \in DOMAIN A : B[k] = A[l]
<1>1. A \in Seq(Token) /\ B \in Seq(Token) /\ Len(A) \in Nat /\ Len(B) = Len(A)
      /\ DOMAIN A = 1 .. Len(A) /\ DOMAIN B = 1 .. Len(A)
  BY DEF Listed, Moved
<1>2. i \in Nat /\ j \in Nat /\ 1 <= j /\ j < i /\ i <= Len(A)
  BY <1>1 DEF Sinks
<1>3. ~A[i].filler
  <2>1. A[i].op \in {"BRANCH", "JUMP"} /\ i \in DOMAIN A
    BY <1>1 DEF Sinks
  <2> QED
    BY <2>1 DEF Listed, Sunk
<1>4. \A k \in j .. i : ~A[k].filler
  BY <1>2, <1>3 DEF Sinks
<1>5. ASSUME NEW k \in DOMAIN B
      PROVE  /\ k = i => B[k] = f /\ B[k - 1] = A[i]
             /\ k < j \/ k > i => B[k] = A[k]
             /\ k >= j /\ k < i => B[k] = A[k + 1] /\ k + 1 \in j .. i
  <2>1. k = i => B[k] = f /\ B[k - 1] = A[i]
    <3>1. i \in j + 1 .. i
      BY <1>2
    <3> QED
      BY <3>1 DEF Moved
  <2>2. k < j \/ k > i => B[k] = A[k]
    BY <1>1 DEF Moved
  <2>3. k >= j /\ k < i => B[k] = A[k + 1] /\ k + 1 \in j .. i
    <3>1. k >= j /\ k < i => k + 1 \in j + 1 .. i /\ (k + 1) - 1 = k /\ k + 1 \in j .. i
      BY <1>1, <1>2
    <3> QED
      BY <3>1 DEF Moved
  <2> QED
    BY <2>1, <2>2, <2>3
<1>6. ASSUME NEW k \in DOMAIN B
      PROVE  Fine(B[k]) /\ Sunk(B, k) /\ (~B[k].filler => \E l \in DOMAIN A : B[k] = A[l])
  <2>1. CASE k = i
    <3>1. B[k] = f /\ B[k - 1] = A[i] /\ k > 1
      BY <1>2, <1>5, <2>1
    <3> QED
      BY <1>3, <3>1 DEF Sunk, Sinks
  <2>2. CASE k >= j /\ k < i
    <3>1. B[k] = A[k + 1] /\ k + 1 \in j .. i /\ k + 1 \in DOMAIN A
      BY <1>1, <1>2, <1>5, <2>2
    <3>2. ~A[k + 1].filler
      BY <1>4, <3>1
    <3> QED
      BY <3>1, <3>2 DEF Listed, Sunk
  <2>3. CASE k < j
    <3>1. B[k] = A[k] /\ k \in DOMAIN A
      BY <1>1, <1>5, <2>3
    <3>2. k > 1 => B[k - 1] = A[k - 1]
      <4>1. k > 1 => k - 1 \in DOMAIN B /\ k - 1 < j
        BY <1>1, <1>2, <2>3
      <4> QED
        BY <1>5, <4>1
    <3> QED
      BY <3>1, <3>2 DEF Listed, Sunk
  <2>4. CASE k > i
    <3>1. B[k] = A[k] /\ k \in DOMAIN A
      BY <1>1, <1>5, <2>4
    <3>2. CASE k = i + 1
      <4>1. ~A[k].filler
        <5>1. k = i + 1 /\ i < Len(A)
          BY <1>1, <1>2, <3>2
        <5> QED
          BY <5>1 DEF Sinks, FilledAt
      <4> QED
        BY <3>1, <4>1 DEF Listed, Sunk
    <3>3. CASE k # i + 1
      <4>1. k - 1 \in DOMAIN B /\ k - 1 > i
        BY <1>1, <1>2, <2>4, <3>3
      <4>2. B[k - 1] = A[k - 1]
        BY <1>5, <4>1
      <4> QED
        BY <3>1, <4>2 DEF Listed, Sunk
    <3> QED
      BY <3>2, <3>3
  <2> QED
    BY <1>1, <1>2, <2>1, <2>2, <2>3, <2>4
<1> QED
  BY <1>1, <1>6 DEF Listed

(* Labels stay where they are.                                                *)
LEMMA SinkLabels ==
  ASSUME NEW A, NEW B, NEW i, NEW j, NEW f, NEW left,
         Listed(A), Sinkable(A, j, i, f, left), Moved(A, B, j, i, f), NEW label
  PROVE  /\ Destination(B, label) = Destination(A, label)
         /\ Destination(A, label) \in 1 .. Len(A) + 1
         /\ ~(j < Destination(A, label) /\ Destination(A, label) <= i)
<1>1. A \in Seq(Token) /\ B \in Seq(Token) /\ Len(A) \in Nat /\ Len(B) = Len(A)
      /\ DOMAIN A = 1 .. Len(A) /\ DOMAIN B = 1 .. Len(A)
  BY DEF Listed, Moved
<1>2. i \in Nat /\ j \in Nat /\ 1 <= j /\ j < i /\ i <= Len(A)
  BY <1>1 DEF Sinkable, Sinks
<1>3. \A k \in j .. i : A[k].op # "LABEL"
  <2>1. A[j].op # "LABEL" /\ A[i].op # "LABEL" /\ \A k \in j + 1 .. i - 1 : A[k].op # "LABEL"
    BY DEF Sinkable, Sinks, Works
  <2> QED
    BY <1>2, <2>1
<1>4. \A k \in j .. i : B[k].op # "LABEL"
  <2> SUFFICES ASSUME NEW k \in j .. i PROVE B[k].op # "LABEL"
    OBVIOUS
  <2>1. CASE k = i
    BY <2>1 DEF Moved, Sinkable, Sinks
  <2>2. CASE k # i
    <3>1. k + 1 \in j + 1 .. i /\ (k + 1) - 1 = k /\ k + 1 \in j .. i
      BY <1>2, <2>2
    <3>2. B[k] = A[k + 1]
      BY <3>1 DEF Moved
    <3> QED
      BY <1>3, <3>1, <3>2
  <2> QED
    BY <2>1, <2>2
<1>5. \A k \in 1 .. Len(A) : Labels(A[k], label) <=> Labels(B[k], label)
  <2> SUFFICES ASSUME NEW k \in 1 .. Len(A) PROVE Labels(A[k], label) <=> Labels(B[k], label)
    OBVIOUS
  <2>1. CASE k \in j .. i
    BY <1>3, <1>4, <2>1 DEF Labels
  <2>2. CASE k < j \/ k > i
    BY <2>2 DEF Moved
  <2> QED
    BY <1>2, <2>1, <2>2
<1>6. {k \in 1 .. Len(A) : Labels(A[k], label)} = {k \in 1 .. Len(B) : Labels(B[k], label)}
  BY <1>1, <1>5
<1>7. LabelRow(A, label) = LabelRow(B, label) /\ HasLabel(A, label) = HasLabel(B, label)
  BY <1>1, <1>5, <1>6 DEF LabelRow, SelectInSeq, HasLabel
<1>8. Destination(B, label) = Destination(A, label)
  BY <1>1, <1>7 DEF Destination
<1>9. /\ Destination(A, label) \in 1 .. Len(A) + 1
      /\ Destination(A, label) \in DOMAIN A => A[Destination(A, label)].op = "LABEL"
  BY <1>1, DestinationPlace
<1>10. ~(Destination(A, label) \in j .. i)
  <2>1. Destination(A, label) \in j .. i => Destination(A, label) \in DOMAIN A
    BY <1>1, <1>2
  <2> QED
    BY <1>3, <1>9, <2>1
<1> QED
  BY <1>2, <1>8, <1>9, <1>10


(* Away from the places between, the machines are equal; there, the first has *)
(* done what the other still has to do.                                       *)
Ahead(i, j, left, a, b) ==
  /\ a.pc \in j + 1 .. i
  /\ b.pc = a.pc - 1
  /\ a.compared = b.compared /\ Len(a.compared) # MaxTurns
  /\ a.regs = RegsAfter(b.regs, b.stores, left[a.pc])
  /\ a.stores = StoresAfter(b.regs, b.stores, left[a.pc])

Level(A, i, j, a, b) ==
  /\ a = b
  /\ a.pc \in 1 .. Len(A) + 1
  /\ ~(j < a.pc /\ a.pc <= i)

SinkPairs(A, i, j, left) ==
  {x \in Machine \X Machine : Level(A, i, j, x[1], x[2]) \/ Ahead(i, j, left, x[1], x[2])}

LEMMA SinkStep ==
  ASSUME NEW A, NEW B, NEW i, NEW j, NEW f, NEW left,
         Listed(A), Listed(B), Sinkable(A, j, i, f, left), Moved(A, B, j, i, f),
         NEW a \in Machine, NEW b \in Machine,
         Level(A, i, j, a, b) \/ Ahead(i, j, left, a, b),
         ~Ended(A, a), NEW taken \in BOOLEAN
  PROVE  Follows(A, B, SinkPairs(A, i, j, left), a, b, taken)
<1> DEFINE n == Len(A)
           R == SinkPairs(A, i, j, left)
<1>1. A \in Seq(Token) /\ B \in Seq(Token) /\ n \in Nat /\ Len(B) = n
      /\ DOMAIN A = 1 .. n /\ DOMAIN B = 1 .. n
  BY DEF Listed, Moved
<1>2. i \in Nat /\ j \in Nat /\ 1 <= j /\ j < i /\ i <= n
  BY <1>1 DEF Sinkable, Sinks
<1>3. \A x \in Machine, y \in Machine :
        <<x, y>> \in R <=> Level(A, i, j, x, y) \/ Ahead(i, j, left, x, y)
  BY DEF SinkPairs
<1>4. \A k \in 1 .. n : k < j \/ k > i => B[k] = A[k]
  BY DEF Moved
<1>5. \A k \in j + 1 .. i : B[k - 1] = A[k]
  BY DEF Moved
<1>6. /\ a.pc \in Nat /\ a.regs \in File /\ a.stores \in Store /\ a.compared \in Seq(Seq(Int))
      /\ b.pc \in Nat /\ b.regs \in File /\ b.stores \in Store /\ b.compared \in Seq(Seq(Int))
      /\ a = [pc |-> a.pc, regs |-> a.regs, stores |-> a.stores, compared |-> a.compared]
  BY MachineParts
<1>7. a.pc \in DOMAIN A
  <2>1. a.pc \in 1 .. n + 1
    BY <1>1, <1>2 DEF Level, Ahead
  <2>2. ~(a.pc > n)
    BY DEF Ended
  <2> QED
    BY <1>1, <2>1, <2>2
<1>8. ~HasDelaySlot(A[j]) /\ \A k \in j + 1 .. i - 1 : ~HasDelaySlot(A[k])
  BY DEF Sinkable, Sinks, HasDelaySlot, Works
<1>9. Len(a.compared) # MaxTurns
  BY DEF Ended
<1> HIDE DEF n, R
<1>10. CASE Level(A, i, j, a, b) /\ a.pc # j
  <2>1. a = b /\ (a.pc < j \/ a.pc > i) /\ a.pc \in 1 .. n
    BY <1>1, <1>2, <1>7, <1>10 DEF Level
  <2>2. B[a.pc] = A[a.pc]
    BY <1>4, <2>1
  <2>3. ~Ended(B, b)
    BY <1>1, <2>1 DEF Ended, n
  <2>4. CASE ~HasDelaySlot(A[a.pc])
    <3>1. /\ Straight(A, a) = [ pc |-> a.pc + 1,
                                  regs |-> RegsAfter(a.regs, a.stores, A[a.pc]),
                                  stores |-> StoresAfter(a.regs, a.stores, A[a.pc]),
                                  compared |-> a.compared ]
          /\ Straight(A, a) \in Machine
      BY <1>7, <2>4, StraightParts
    <3>2. Straight(B, b) = Straight(A, a)
      BY <2>1, <2>2 DEF Straight
    <3>3. a.pc + 1 \in 1 .. n + 1 /\ ~(j < a.pc + 1 /\ a.pc + 1 <= i)
      BY <1>1, <1>2, <2>1
    <3>4. Level(A, i, j, Straight(A, a), Straight(B, b))
      BY <3>1, <3>2, <3>3 DEF Level, n
    <3>5. <<Step(A, a, taken), Step(B, b, taken)>> \in R
      BY <1>3, <2>1, <2>2, <2>4, <3>1, <3>2, <3>4 DEF Step
    <3> QED
      BY <2>1, <2>2, <2>3, <3>5 DEF Follows, R
  <2>5. CASE HasDelaySlot(A[a.pc])
    <3>1. /\ Turned(A, a, taken) = [ pc |-> WhereTo(A, a.pc, taken),
                                     regs |-> RegsInSlot(A, a),
                                     stores |-> StoresInSlot(A, a),
                                     compared |-> Append(a.compared, Compare(a.regs, A[a.pc])) ]
          /\ Turned(A, a, taken) \in Machine
          /\ WhereTo(A, a.pc, taken) \in 1 .. n + 1
      BY <1>7, TurnedParts DEF n
    <3>2. Turned(B, b, taken) = [ pc |-> WhereTo(B, b.pc, taken),
                                     regs |-> RegsInSlot(B, b),
                                     stores |-> StoresInSlot(B, b),
                                     compared |-> Append(b.compared, Compare(b.regs, B[b.pc])) ]
      BY <1>1, <2>1, TurnedParts
    <3>3. /\ FilledAt(B, a.pc) <=> FilledAt(A, a.pc)
          /\ FilledAt(A, a.pc) => B[a.pc + 1] = A[a.pc + 1] /\ a.pc + 1 # j
      <4>1. CASE a.pc + 1 = j
        <5>1. ~A[j].filler
          BY DEF Sinkable, Sinks
        <5>2. ~B[j].filler
          <6>1. B[j] = A[j + 1]
            <7>1. j + 1 \in j + 1 .. i /\ (j + 1) - 1 = j
              BY <1>2
            <7> QED
              BY <1>5, <7>1
          <6>2. CASE j + 1 = i
            <7>1. A[i].op \in {"BRANCH", "JUMP"} /\ i \in DOMAIN A
              BY <1>1, <1>2 DEF Sinkable, Sinks
            <7> QED
              BY <6>1, <6>2, <7>1 DEF Listed, Sunk
          <6>3. CASE j + 1 # i
            <7>1. j + 1 \in j + 1 .. i - 1
              BY <1>2, <6>3
            <7> QED
              BY <6>1, <7>1 DEF Sinkable, Sinks
          <6> QED
            BY <6>2, <6>3
        <5> QED
          BY <4>1, <5>1, <5>2 DEF FilledAt
      <4>2. CASE a.pc + 1 # j
        <5>1. a.pc < n => a.pc + 1 \in 1 .. n /\ (a.pc + 1 < j \/ a.pc + 1 > i)
          BY <1>1, <1>2, <2>1, <4>2
        <5>2. a.pc < n => B[a.pc + 1] = A[a.pc + 1]
          BY <1>4, <5>1
        <5> QED
          BY <1>1, <4>2, <5>2 DEF FilledAt, n
      <4> QED
        BY <4>1, <4>2
    <3>4. RegsInSlot(B, b) = RegsInSlot(A, a) /\ StoresInSlot(B, b) = StoresInSlot(A, a)
      BY <2>1, <3>3 DEF RegsInSlot, StoresInSlot
    <3>5. WhereTo(B, b.pc, taken) = WhereTo(A, a.pc, taken)
      <4>1. Destination(B, A[a.pc].to) = Destination(A, A[a.pc].to)
        BY SinkLabels
      <4> QED
        BY <1>1, <2>1, <2>2, <3>3, <4>1 DEF WhereTo, n
    <3>6. ~(j < WhereTo(A, a.pc, taken) /\ WhereTo(A, a.pc, taken) <= i)
      <4>1. ~(j < Destination(A, A[a.pc].to) /\ Destination(A, A[a.pc].to) <= i)
        BY SinkLabels
      <4>2. ~(j < n + 1 /\ n + 1 <= i)
        BY <1>1, <1>2
      <4>3. ~(j < a.pc + 1 /\ a.pc + 1 <= i)
        BY <1>1, <1>2, <2>1
      <4>4. FilledAt(A, a.pc) => ~(j < a.pc + 2 /\ a.pc + 2 <= i)
        BY <1>1, <1>2, <2>1, <3>3
      <4> QED
        BY <4>1, <4>2, <4>3, <4>4 DEF WhereTo, n
    <3>7. Turned(B, b, taken) = Turned(A, a, taken)
      BY <2>1, <2>2, <3>1, <3>2, <3>4, <3>5
    <3>8. Level(A, i, j, Turned(A, a, taken), Turned(B, b, taken))
      BY <3>1, <3>6, <3>7 DEF Level, n
    <3>9. <<Step(A, a, taken), Step(B, b, taken)>> \in R
      BY <1>3, <2>1, <2>2, <2>5, <3>1, <3>7, <3>8 DEF Step
    <3> QED
      BY <2>1, <2>2, <2>3, <3>9 DEF Follows, R
  <2> QED
    BY <2>4, <2>5
<1>11. CASE Level(A, i, j, a, b) /\ a.pc = j
  <2>1. a = b /\ a.pc = j
    BY <1>11 DEF Level
  <2>2. /\ Straight(A, a) = [ pc |-> a.pc + 1,
                              regs |-> RegsAfter(a.regs, a.stores, A[a.pc]),
                              stores |-> StoresAfter(a.regs, a.stores, A[a.pc]),
                              compared |-> a.compared ]
        /\ Straight(A, a) \in Machine
    BY <1>7, <1>8, <2>1, StraightParts
  <2>3. left[j + 1] = A[j]
    BY DEF Sinkable, Sinks
  <2>4. Ahead(i, j, left, Straight(A, a), b)
    <3>1. j + 1 \in j + 1 .. i /\ (j + 1) - 1 = j
      BY <1>2
    <3> QED
      BY <1>9, <2>1, <2>2, <2>3, <3>1 DEF Ahead
  <2>5. <<Step(A, a, taken), b>> \in R
    BY <1>3, <1>8, <2>1, <2>2, <2>4 DEF Step
  <2> QED
    BY <1>8, <2>1, <2>5 DEF Follows, R
<1>12. CASE Ahead(i, j, left, a, b)
  <2>1. /\ a.pc \in j + 1 .. i /\ b.pc = a.pc - 1 /\ a.compared = b.compared
        /\ a.regs = RegsAfter(b.regs, b.stores, left[a.pc])
        /\ a.stores = StoresAfter(b.regs, b.stores, left[a.pc])
    BY <1>12 DEF Ahead
  <2>2. B[b.pc] = A[a.pc] /\ b.pc \in DOMAIN B
    BY <1>1, <1>2, <1>5, <2>1
  <2>3. ~Ended(B, b)
    BY <1>1, <1>9, <2>1, <2>2 DEF Ended
  <2>4. CASE a.pc # i
    <3>1. a.pc \in j + 1 .. i - 1 /\ a.pc + 1 \in j + 1 .. i /\ (a.pc + 1) - 1 = (a.pc - 1) + 1
      BY <1>2, <2>1, <2>4
    <3>2. ~HasDelaySlot(A[a.pc]) /\ ~HasDelaySlot(B[b.pc])
      BY <1>8, <2>2, <3>1
    <3>3. /\ Straight(A, a) = [ pc |-> a.pc + 1,
                              regs |-> RegsAfter(a.regs, a.stores, A[a.pc]),
                              stores |-> StoresAfter(a.regs, a.stores, A[a.pc]),
                              compared |-> a.compared ]
          /\ Straight(A, a) \in Machine
      BY <1>7, <3>2, StraightParts
    <3>4. /\ Straight(B, b) = [ pc |-> b.pc + 1,
                              regs |-> RegsAfter(b.regs, b.stores, A[a.pc]),
                              stores |-> StoresAfter(b.regs, b.stores, A[a.pc]),
                              compared |-> b.compared ]
          /\ Straight(B, b) \in Machine
      BY <2>2, <3>2, StraightParts
    <3>5. Commutes(left[a.pc], A[a.pc], left[a.pc + 1])
      BY <3>1 DEF Sinkable, Sinks
    <3>6. /\ RegsAfter(a.regs, a.stores, A[a.pc])
               = RegsAfter(RegsAfter(b.regs, b.stores, A[a.pc]), StoresAfter(b.regs, b.stores, A[a.pc]),
                           left[a.pc + 1])
          /\ StoresAfter(a.regs, a.stores, A[a.pc])
               = StoresAfter(RegsAfter(b.regs, b.stores, A[a.pc]), StoresAfter(b.regs, b.stores, A[a.pc]),
                             left[a.pc + 1])
      BY <1>6, <2>1, <3>5 DEF Commutes
    <3>7. Ahead(i, j, left, Straight(A, a), Straight(B, b))
      BY <1>9, <2>1, <3>1, <3>3, <3>4, <3>6 DEF Ahead
    <3>8. <<Step(A, a, taken), Step(B, b, taken)>> \in R
      BY <1>3, <3>2, <3>3, <3>4, <3>7 DEF Step
    <3> QED
      BY <2>2, <2>3, <3>8 DEF Follows, R
  <2>5. CASE a.pc = i
    <3>1. A[i].op \in {"BRANCH", "JUMP"} /\ ~FilledAt(A, i)
      BY DEF Sinkable, Sinks
    <3>2. HasDelaySlot(A[a.pc]) /\ HasDelaySlot(B[b.pc])
      BY <2>2, <2>5, <3>1 DEF HasDelaySlot
    <3>3. /\ Turned(A, a, taken) = [ pc |-> WhereTo(A, i, taken),
                                     regs |-> a.regs,
                                     stores |-> a.stores,
                                     compared |-> Append(a.compared, Compare(a.regs, A[i])) ]
          /\ Turned(A, a, taken) \in Machine
          /\ WhereTo(A, i, taken) \in 1 .. n + 1
      BY <1>7, <2>5, <3>1, TurnedParts DEF n, RegsInSlot, StoresInSlot
    <3>4. /\ Turned(B, b, taken) = [ pc |-> WhereTo(B, b.pc, taken),
                                     regs |-> RegsInSlot(B, b),
                                     stores |-> StoresInSlot(B, b),
                                     compared |-> Append(b.compared, Compare(b.regs, B[b.pc])) ]
          /\ Turned(B, b, taken) \in Machine
      BY <2>2, TurnedParts
    <3>5. b.pc + 1 = i /\ FilledAt(B, b.pc) /\ B[b.pc + 1] = f /\ f.filler
      <4>1. b.pc + 1 = i /\ b.pc < n
        BY <1>1, <1>2, <2>1, <2>5
      <4>2. B[i] = f /\ f.filler
        BY DEF Moved, Sinkable, Sinks
      <4> QED
        BY <1>1, <4>1, <4>2 DEF FilledAt
    <3>6. /\ RegsInSlot(B, b) = RegsAfter(b.regs, b.stores, f)
          /\ StoresInSlot(B, b) = StoresAfter(b.regs, b.stores, f)
      BY <3>5 DEF RegsInSlot, StoresInSlot
    <3>7. RegsInSlot(B, b) = a.regs /\ StoresInSlot(B, b) = a.stores
      <4>1. SameWork(left[i], f)
        BY DEF Sinkable, Sinks
      <4> QED
        BY <1>6, <2>1, <2>5, <3>6, <4>1 DEF SameWork
    <3>8. Compare(a.regs, A[i]) = Compare(b.regs, B[b.pc])
      <4>1. Compare(RegsAfter(b.regs, b.stores, left[i]), A[i]) = Compare(b.regs, A[i])
        BY <1>6 DEF Sinkable, Sinks
      <4> QED
        BY <2>1, <2>2, <2>5, <4>1
    <3>9. WhereTo(B, b.pc, taken) = WhereTo(A, i, taken)
      <4>1. Destination(B, A[i].to) = Destination(A, A[i].to)
        BY SinkLabels
      <4>2. b.pc + 2 = i + 1
        BY <1>6, <3>5
      <4>3. B[b.pc] = A[i]
        BY <2>2, <2>5
      <4> QED
        BY <3>1, <3>5, <4>1, <4>2, <4>3 DEF WhereTo
    <3>10. ~(j < WhereTo(A, i, taken) /\ WhereTo(A, i, taken) <= i)
      <4>1. ~(j < Destination(A, A[i].to) /\ Destination(A, A[i].to) <= i)
        BY SinkLabels
      <4>2. ~(j < i + 1 /\ i + 1 <= i)
        BY <1>2
      <4> QED
        BY <3>1, <4>1, <4>2 DEF WhereTo
    <3>11. Turned(B, b, taken) = Turned(A, a, taken)
      BY <2>1, <3>3, <3>4, <3>7, <3>8, <3>9
    <3>12. Level(A, i, j, Turned(A, a, taken), Turned(B, b, taken))
      BY <3>3, <3>10, <3>11 DEF Level, n
    <3>13. <<Step(A, a, taken), Step(B, b, taken)>> \in R
      BY <1>3, <3>2, <3>3, <3>4, <3>12 DEF Step
    <3> QED
      BY <2>2, <2>3, <3>13 DEF Follows, R
  <2> QED
    BY <2>4, <2>5
<1> QED
  BY <1>10, <1>11, <1>12

LEMMA SinkFollows ==
  ASSUME NEW A, NEW B, NEW i, NEW j, NEW f, NEW left,
         Listed(A), Sinkable(A, j, i, f, left), Moved(A, B, j, i, f)
  PROVE  Implements(A, B)
<1> DEFINE n == Len(A)
           R == SinkPairs(A, i, j, left)
<1>1. A \in Seq(Token) /\ B \in Seq(Token) /\ n \in Nat /\ Len(B) = n
  BY DEF Listed, Moved
<1>2. i \in Nat /\ j \in Nat /\ 1 <= j /\ j < i /\ i <= n
  BY <1>1 DEF Sinkable, Sinks
<1>3. \A x \in Machine, y \in Machine :
        <<x, y>> \in R <=> Level(A, i, j, x, y) \/ Ahead(i, j, left, x, y)
  BY DEF SinkPairs
<1>4. R \in SUBSET (Machine \X Machine)
  BY DEF SinkPairs
<1>5. Listed(B)
  BY SinkListed DEF Sinkable
<1>6. <<Start, Start>> \in R
  <2>1. Level(A, i, j, Start, Start)
    BY <1>1, <1>2 DEF Level, Start
  <2> QED
    BY <1>3, <2>1, StartTyped
<1>7. ASSUME NEW a \in Machine, NEW b \in Machine,
             Level(A, i, j, a, b) \/ Ahead(i, j, left, a, b)
      PROVE  Agrees(A, B, a, b)
  <2>1. CASE Level(A, i, j, a, b)
    BY <1>1, <2>1 DEF Level, Agrees, Ended
  <2>2. CASE Ahead(i, j, left, a, b)
    BY <1>1, <1>2, <2>2 DEF Ahead, Agrees, Ended
  <2> QED
    BY <1>7, <2>1, <2>2
<1>8. \A a \in Machine, b \in Machine : <<a, b>> \in R =>
       /\ Agrees(A, B, a, b)
       /\ \A taken \in BOOLEAN : ~Ended(A, a) /\ MayTurn(A, a, taken) => Follows(A, B, R, a, b, taken)
  BY <1>3, <1>5, <1>7, SinkStep
<1> HIDE DEF R
<1>9. Simulation(A, B, R)
  BY <1>4, <1>6, <1>8 DEF Simulation
<1> QED
  BY <1>9 DEF Implements


-----------------------------------------------------------------------------
(* The tokens the passes let sink *)

Value(g, s, t) == IF t.op = "ADD" THEN Address(g, t) ELSE Cell(s, Address(g, t))

LEMMA RegsPlaces ==
  ASSUME NEW g \in File, NEW s \in Store, NEW t, Fine(t), NEW q \in Regs
  PROVE  RegsAfter(g, s, t)[q] = IF q = t.dst THEN Value(g, s, t) ELSE g[q]
<1>1. q # 0
  BY RegsAssumption
<1>2. t.op \notin {"ADD", "LOAD"} => q # t.dst
  BY <1>1 DEF Fine
<1> QED
  BY <1>2 DEF RegsAfter, Value, File

(* A token sees only the registers it reads.                                  *)
LEMMA SameReads ==
  ASSUME NEW g \in File, NEW h \in File, NEW s \in Store, NEW t, Fine(t),
         \A q \in Reads(t) : g[q] = h[q]
  PROVE  /\ t.op \in Works => Address(g, t) = Address(h, t) /\ Value(g, s, t) = Value(h, s, t)
         /\ StoresAfter(g, s, t) = StoresAfter(h, s, t)
<1>1. t.op \in Works => Address(g, t) = Address(h, t)
  BY TokenOperands DEF Address
<1>2. t.op = "STORE" => g[t.from[2]] = h[t.from[2]]
  BY TokenOperands DEF Works
<1> QED
  BY <1>1, <1>2 DEF Value, StoresAfter, Works

LEMMA SameCompared ==
  ASSUME NEW g \in File, NEW h \in File, NEW t, \A q \in Reads(t) : g[q] = h[q]
  PROVE  Compare(g, t) = Compare(h, t)
<1>1. \A k \in DOMAIN t.from : t.from[k] \in Reads(t)
  BY DEF Reads, Range
<1> QED
  BY <1>1 DEF Compare

LEMMA FilesEqual ==
  ASSUME NEW g \in File, NEW h \in File, \A q \in Regs : g[q] = h[q]
  PROVE  g = h
BY DEF File

(* Tokens that share no register commute, unless one stores and the other     *)
(* stores or loads.                                                           *)
LEMMA Swap ==
  ASSUME NEW x, NEW t, Fine(x), Fine(t), x.op \in {"ADD", "STORE"}, t.op \in Works,
         ~DataDependency(x, t), ~DataDependency(t, x), x.op = "STORE" => t.op = "ADD"
  PROVE  Commutes(x, t, x)
<1> SUFFICES ASSUME NEW g \in File, NEW s \in Store
    PROVE /\ RegsAfter(RegsAfter(g, s, x), StoresAfter(g, s, x), t)
               = RegsAfter(RegsAfter(g, s, t), StoresAfter(g, s, t), x)
          /\ StoresAfter(RegsAfter(g, s, x), StoresAfter(g, s, x), t)
               = StoresAfter(RegsAfter(g, s, t), StoresAfter(g, s, t), x)
  BY DEF Commutes
<1> DEFINE g1 == RegsAfter(g, s, x)
           s1 == StoresAfter(g, s, x)
           g2 == RegsAfter(g, s, t)
           s2 == StoresAfter(g, s, t)
<1>1. g1 \in File /\ g2 \in File /\ s1 \in Store /\ s2 \in Store
  BY AfterTyped
<1>2. \A q \in Regs : /\ g1[q] = (IF q = x.dst THEN Value(g, s, x) ELSE g[q])
                      /\ g2[q] = (IF q = t.dst THEN Value(g, s, t) ELSE g[q])
  BY RegsPlaces
<1>3. Reads(x) \subseteq Regs /\ Reads(t) \subseteq Regs
  <2>1. x.from \in Seq(Regs) /\ t.from \in Seq(Regs)
    BY TokenOperands
  <2> QED
    BY <2>1 DEF Reads, Range
<1>4. x.dst \in Reads(t) => x.dst = 0
  BY DEF DataDependency, Writes
<1>5. t.dst \in Reads(x) => t.dst = 0
  BY DEF DataDependency, Writes
<1>6. x.dst = t.dst => x.dst = 0
  BY DEF DataDependency, Writes
<1>7. 0 \notin Regs
  BY RegsAssumption
<1>8. \A q \in Reads(t) : g1[q] = g[q]
  BY <1>2, <1>3, <1>4, <1>7
<1>9. \A q \in Reads(x) : g2[q] = g[q]
  BY <1>2, <1>3, <1>5, <1>7
<1>10. t.op # "ADD" => s1 = s
  BY DEF StoresAfter
<1>11. x.op = "STORE" => s2 = s
  BY DEF StoresAfter
<1> HIDE DEF g1, g2, s1, s2
<1>12. \A q \in Regs : q = t.dst => Value(g1, s1, t) = Value(g, s, t)
  <2>1. Value(g1, s1, t) = Value(g, s1, t)
    BY <1>1, <1>8, SameReads
  <2>2. Value(g, s1, t) = Value(g, s, t)
    BY <1>10 DEF Value
  <2> QED
    BY <2>1, <2>2
<1>13. \A q \in Regs : q = x.dst => Value(g2, s2, x) = Value(g, s, x)
  <2>1. Value(g2, s2, x) = Value(g, s2, x)
    BY <1>1, <1>9, SameReads DEF Works
  <2>2. x.op = "ADD" \/ x.dst = 0
    BY DEF Fine
  <2>3. x.op = "ADD" => Value(g, s2, x) = Value(g, s, x)
    BY DEF Value
  <2> QED
    BY <1>7, <2>1, <2>2, <2>3
<1>14. RegsAfter(g1, s1, t) = RegsAfter(g2, s2, x)
  <2>1. RegsAfter(g1, s1, t) \in File /\ RegsAfter(g2, s2, x) \in File
    BY <1>1, AfterTyped
  <2>2. ASSUME NEW q \in Regs PROVE RegsAfter(g1, s1, t)[q] = RegsAfter(g2, s2, x)[q]
    <3>1. /\ RegsAfter(g1, s1, t)[q] = (IF q = t.dst THEN Value(g1, s1, t) ELSE g1[q])
          /\ RegsAfter(g2, s2, x)[q] = (IF q = x.dst THEN Value(g2, s2, x) ELSE g2[q])
      BY <1>1, RegsPlaces
    <3>2. ~(q = t.dst /\ q = x.dst)
      BY <1>6, <1>7
    <3> QED
      BY <1>2, <1>12, <1>13, <3>1, <3>2
  <2> QED
    BY <2>1, <2>2, FilesEqual
<1>15. StoresAfter(g1, s1, t) = StoresAfter(g2, s2, x)
  <2>1. StoresAfter(g1, s1, t) = StoresAfter(g, s1, t)
    BY <1>1, <1>8, SameReads
  <2>2. StoresAfter(g2, s2, x) = StoresAfter(g, s2, x)
    BY <1>1, <1>9, SameReads
  <2>3. CASE x.op = "STORE"
    <3>1. StoresAfter(g, s1, t) = s1 /\ s2 = s
      BY <2>3 DEF StoresAfter, s2
    <3> QED
      BY <2>1, <2>2, <3>1 DEF s1
  <2>4. CASE x.op # "STORE"
    <3>1. StoresAfter(g, s2, x) = s2 /\ s1 = s
      BY <2>4 DEF StoresAfter, s1
    <3> QED
      BY <2>1, <2>2, <3>1 DEF s2
  <2> QED
    BY <2>3, <2>4
<1> QED
  BY <1>14, <1>15 DEF g1, g2, s1, s2

LEMMA FillerSame ==
  ASSUME NEW t, Fine(t)
  PROVE  /\ Fine(Filler(t)) /\ Filler(t).op = t.op /\ Filler(t).filler
         /\ SameWork(t, Filler(t))
<1>1. t \in Token
  BY DEF Fine
<1>2. /\ Filler(t) \in Token /\ Filler(t).filler
      /\ Filler(t).op = t.op /\ Filler(t).dst = t.dst /\ Filler(t).from = t.from
      /\ Filler(t).imm = t.imm
  BY <1>1 DEF Filler, Token
<1> DEFINE f == Filler(t)
<1> HIDE DEF f
<1>3. Fine(f)
  BY <1>2 DEF Fine, f
<1>4. ASSUME NEW g, NEW s PROVE RegsAfter(g, s, t) = RegsAfter(g, s, f) /\ StoresAfter(g, s, t) = StoresAfter(g, s, f)
  BY <1>2 DEF RegsAfter, StoresAfter, Address, f
<1> QED
  BY <1>2, <1>3, <1>4 DEF SameWork, f

(* A branch compares what it would have compared, unless the token writes it. *)
LEMMA ComparesSame ==
  ASSUME NEW x, Fine(x), NEW t, Fine(t), Writes(x) \cap Reads(t) = {},
         NEW g \in File, NEW s \in Store
  PROVE  Compare(RegsAfter(g, s, x), t) = Compare(g, t)
<1>1. RegsAfter(g, s, x) \in File
  BY AfterTyped
<1>2. Reads(t) \subseteq Regs
  <2>1. t.from \in Seq(Regs)
    BY TokenOperands
  <2> QED
    BY <2>1 DEF Reads, Range
<1>3. \A q \in Reads(t) : q # x.dst
  BY <1>2, RegsAssumption DEF Writes
<1>4. \A q \in Reads(t) : RegsAfter(g, s, x)[q] = g[q]
  BY <1>2, <1>3, RegsPlaces
<1> QED
  BY <1>1, <1>4, SameCompared

LEMMA StoreWritesNothing ==
  ASSUME NEW x, Fine(x), x.op = "STORE"
  PROVE  Writes(x) = {}
BY DEF Fine, Writes

(* Two tokens above a branch: a store and the increment of another register.  *)
LEMMA IndependentSinkable ==
  ASSUME NEW A, Listed(A), NEW i \in 3 .. Len(A),
         A[i].op \in {"BRANCH", "JUMP"}, ~FilledAt(A, i),
         PlainStore(A[i - 2]), SelfAdd(A[i - 1]), A[i - 1].dst \notin Reads(A[i - 2])
  PROVE  \E left : Sinkable(A, i - 2, i, Filler(A[i - 2]), left)
<1> DEFINE x == A[i - 2]
           left == [k \in i - 1 .. i |-> x]
<1>1. A \in Seq(Token) /\ Len(A) \in Nat /\ DOMAIN A = 1 .. Len(A)
  BY DEF Listed
<1>2. i \in Nat /\ i - 2 \in DOMAIN A /\ i - 1 \in DOMAIN A /\ i \in DOMAIN A /\ i - 2 \in 1 .. i - 1
      /\ (i - 2) + 1 = i - 1
  BY <1>1
<1>3. Fine(x) /\ Fine(A[i - 1]) /\ Fine(A[i])
  BY <1>2 DEF Listed
<1>4. x.op = "STORE" /\ ~x.filler /\ A[i - 1].op = "ADD" /\ ~A[i - 1].filler
  BY DEF PlainStore, SelfAdd
<1>5. \A k \in (i - 2) + 1 .. i - 1 : k = i - 1
  BY <1>2
<1>6. Writes(x) = {}
  BY <1>3, <1>4, StoreWritesNothing
<1>7. ~DataDependency(x, A[i - 1]) /\ ~DataDependency(A[i - 1], x)
  BY <1>6 DEF DataDependency, Writes
<1>8. Commutes(x, A[i - 1], x)
  <2>1. x.op \in {"ADD", "STORE"} /\ A[i - 1].op \in Works
    BY <1>4 DEF Works
  <2> HIDE DEF x
  <2> QED
    BY <1>3, <1>4, <1>7, <2>1, Swap
<1>9. \A k \in i - 1 .. i : left[k] = x
  OBVIOUS
<1>10. i - 1 \in i - 1 .. i /\ i \in i - 1 .. i
  BY <1>2
<1>11. \A g \in File, s \in Store : Compare(RegsAfter(g, s, x), A[i]) = Compare(g, A[i])
  BY <1>3, <1>6, ComparesSame
<1>12. Fine(Filler(x)) /\ Filler(x).op = x.op /\ Filler(x).filler /\ SameWork(x, Filler(x))
  BY <1>3, FillerSame
<1> HIDE DEF x, left
<1>13. Sinkable(A, i - 2, i, Filler(x), left)
  <2>1. A[i - 2] = x
    BY DEF x
  <2>2. i \in 1 .. Len(A)
    BY <1>1, <1>2
  <2>3. \A k \in (i - 2) + 1 .. i - 1 : A[k].op \in Works /\ ~A[k].filler
    BY <1>4, <1>5 DEF Works
  <2>4. \A k \in (i - 2) + 1 .. i : Fine(left[k])
    BY <1>2, <1>3, <1>9
  <2>5. \A k \in (i - 2) + 1 .. i - 1 : Commutes(left[k], A[k], left[k + 1])
    <3>1. (i - 1) + 1 = i
      BY <1>2
    <3> QED
      BY <1>5, <1>8, <1>9, <1>10, <3>1
  <2>6. left[(i - 2) + 1] = x /\ left[i] = x
    BY <1>2, <1>9, <1>10
  <2> QED
    BY <1>2, <1>4, <1>11, <1>12, <2>1, <2>2, <2>3, <2>4, <2>5, <2>6 DEF Sinkable, Sinks
<1> QED
  BY <1>13 DEF x


(* A store whose base is incremented under it: in the slot its offset is as   *)
(* much lower as the base is higher.                                          *)
LEMMA LoweredSame ==
  ASSUME NEW x, Fine(x), x.op = "STORE", NEW t, Fine(t), SelfAdd(t),
         x.from[1] = t.dst, x.from[2] # t.dst
  PROVE  /\ Fine(OffsetLowered(x, t.imm)) /\ OffsetLowered(x, t.imm).op = "STORE"
         /\ Commutes(x, t, OffsetLowered(x, t.imm))
<1> DEFINE y == OffsetLowered(x, t.imm)
<1>1. x \in Token
  BY DEF Fine
<1>2. /\ x.imm \in Int /\ t.imm \in Int /\ x.from[1] \in Regs /\ x.from[2] \in Regs
      /\ t.op = "ADD" /\ x.dst = 0
  BY TokenOperands DEF Works, SelfAdd, Fine
<1>3. t.from[1] = t.dst
  BY DEF SelfAdd
<1>4. /\ y \in Token /\ y.op = "STORE" /\ y.dst = 0 /\ y.from = x.from
      /\ y.imm = x.imm - t.imm
  <2> DEFINE v == x.imm - t.imm
  <2>1. v \in Int
    BY <1>2
  <2>2. y = [x EXCEPT !.imm = v]
    BY DEF OffsetLowered
  <2> HIDE DEF y, v
  <2>3. y \in Token /\ y.op = x.op /\ y.dst = x.dst /\ y.from = x.from /\ y.imm = v
    BY <1>1, <2>1, <2>2 DEF Token
  <2> QED
    BY <1>2, <2>3 DEF v
<1>5. Fine(y)
  BY <1>4 DEF Fine
<1> HIDE DEF y
<1>6. ASSUME NEW g \in File, NEW s \in Store
      PROVE  /\ RegsAfter(RegsAfter(g, s, x), StoresAfter(g, s, x), t)
                  = RegsAfter(RegsAfter(g, s, t), StoresAfter(g, s, t), y)
             /\ StoresAfter(RegsAfter(g, s, x), StoresAfter(g, s, x), t)
                  = StoresAfter(RegsAfter(g, s, t), StoresAfter(g, s, t), y)
  <2> DEFINE h == RegsAfter(g, s, t)
  <2>1. \A e : RegsAfter(g, e, t) = h
    BY <1>2 DEF RegsAfter
  <2>2. RegsAfter(g, s, x) = g /\ \A e : RegsAfter(h, e, y) = h
    BY <1>4 DEF RegsAfter
  <2>3. StoresAfter(g, s, t) = s /\ \A e : StoresAfter(g, e, t) = e
    BY <1>2 DEF StoresAfter
  <2>4. h[x.from[1]] = g[x.from[1]] + t.imm /\ h[x.from[2]] = g[x.from[2]]
    <3>1. Value(g, s, t) = g[x.from[1]] + t.imm
      BY <1>2, <1>3 DEF Value, Address
    <3> QED
      BY <1>2, <3>1, RegsPlaces
  <2> HIDE DEF h
  <2>5. Address(h, y) = Address(g, x)
    <3>1. g[x.from[1]] \in Int
      BY <1>2 DEF File
    <3> QED
      BY <1>2, <1>4, <2>4, <3>1 DEF Address
  <2>6. StoresAfter(h, s, y) = StoresAfter(g, s, x)
    BY <1>4, <2>4, <2>5 DEF StoresAfter
  <2> QED
    BY <2>1, <2>2, <2>3, <2>6 DEF h
<1>7. Commutes(x, t, y)
  BY <1>6 DEF Commutes
<1> QED
  BY <1>4, <1>5, <1>7 DEF y

LEMMA PreIncrementSinkable ==
  ASSUME NEW A, Listed(A), NEW i \in 3 .. Len(A),
         A[i].op \in {"BRANCH", "JUMP"}, ~FilledAt(A, i),
         PlainStore(A[i - 2]), SelfAdd(A[i - 1]),
         A[i - 2].from[1] = A[i - 1].dst, A[i - 2].from[2] # A[i - 1].dst
  PROVE  \E left : Sinkable(A, i - 2, i, Filler(OffsetLowered(A[i - 2], A[i - 1].imm)), left)
<1> DEFINE x == A[i - 2]
           y == OffsetLowered(x, A[i - 1].imm)
           left == [k \in i - 1 .. i |-> IF k = i THEN y ELSE x]
<1>1. A \in Seq(Token) /\ Len(A) \in Nat /\ DOMAIN A = 1 .. Len(A)
  BY DEF Listed
<1>2. i \in Nat /\ i - 2 \in DOMAIN A /\ i - 1 \in DOMAIN A /\ i \in DOMAIN A /\ i - 2 \in 1 .. i - 1
      /\ (i - 2) + 1 = i - 1 /\ i - 1 # i
  BY <1>1
<1>3. Fine(x) /\ Fine(A[i - 1]) /\ Fine(A[i])
  BY <1>2 DEF Listed
<1>4. x.op = "STORE" /\ ~x.filler /\ A[i - 1].op = "ADD" /\ ~A[i - 1].filler
  BY DEF PlainStore, SelfAdd
<1>5. \A k \in (i - 2) + 1 .. i - 1 : k = i - 1
  BY <1>2
<1>6. Fine(y) /\ y.op = "STORE" /\ Commutes(x, A[i - 1], y)
  <2>1. x.from[1] = A[i - 1].dst /\ x.from[2] # A[i - 1].dst
    OBVIOUS
  <2> HIDE DEF x
  <2> QED
    BY <1>3, <1>4, <2>1, LoweredSame
<1> HIDE DEF x, y
<1>7. left[i - 1] = x /\ left[i] = y
  BY <1>2
<1>8. \A g \in File, s \in Store : Compare(RegsAfter(g, s, y), A[i]) = Compare(g, A[i])
  BY <1>6, <1>3, ComparesSame, StoreWritesNothing
<1>9. Fine(Filler(y)) /\ Filler(y).op = y.op /\ Filler(y).filler /\ SameWork(y, Filler(y))
  BY <1>6, FillerSame
<1> HIDE DEF left
<1>10. Sinkable(A, i - 2, i, Filler(y), left)
  <2>1. A[i - 2] = x
    BY DEF x
  <2>2. i \in 1 .. Len(A)
    BY <1>1, <1>2
  <2>3. \A k \in (i - 2) + 1 .. i - 1 : A[k].op \in Works /\ ~A[k].filler
    BY <1>4, <1>5 DEF Works
  <2>4. \A k \in (i - 2) + 1 .. i : Fine(left[k])
    <3>1. \A k \in i - 1 .. i : k = i - 1 \/ k = i
      BY <1>2
    <3> QED
      BY <1>2, <1>3, <1>6, <1>7, <3>1
  <2>5. \A k \in (i - 2) + 1 .. i - 1 : Commutes(left[k], A[k], left[k + 1])
    <3>1. (i - 1) + 1 = i
      BY <1>2
    <3> QED
      BY <1>5, <1>6, <1>7, <3>1
  <2>6. left[(i - 2) + 1] = x /\ left[i] = y
    BY <1>2, <1>7
  <2> QED
    BY <1>2, <1>4, <1>6, <1>8, <1>9, <2>1, <2>2, <2>3, <2>4, <2>5, <2>6 DEF Sinkable, Sinks
<1> QED
  BY <1>10 DEF x, y

(* An instruction from further up, which may sink below all between.          *)
LEMMA CandidateSinkable ==
  ASSUME NEW A, Listed(A), NEW i \in 1 .. Len(A), NEW j \in 1 .. i - 1,
         A[i].op \in {"BRANCH", "JUMP"}, ~FilledAt(A, i),
         A[j].op = "ADD", ~A[j].filler, Writes(A[j]) \cap Reads(A[i]) = {},
         \A k \in j + 1 .. i - 1 : CanSinkBelow(A[j], A[k])
  PROVE  \E left : Sinkable(A, j, i, Filler(A[j]), left)
<1> DEFINE x == A[j]
           left == [k \in j + 1 .. i |-> x]
<1>1. A \in Seq(Token) /\ Len(A) \in Nat /\ DOMAIN A = 1 .. Len(A)
  BY DEF Listed
<1>2. i \in Nat /\ j \in Nat /\ 1 <= j /\ j < i /\ i <= Len(A) /\ j \in DOMAIN A /\ i \in DOMAIN A
  BY <1>1
<1>3. Fine(x) /\ Fine(A[i]) /\ \A k \in j + 1 .. i - 1 : k \in DOMAIN A /\ Fine(A[k]) /\ Sunk(A, k)
  BY <1>1, <1>2 DEF Listed
<1>4. x.op \in {"ADD", "STORE"} /\ x.op = "ADD"
  OBVIOUS
<1>5. \A k \in j + 1 .. i - 1 :
        A[k].op \in Works /\ ~DataDependency(x, A[k]) /\ ~DataDependency(A[k], x)
  BY DEF CanSinkBelow, Works
<1> HIDE DEF x
<1>6. \A k \in j + 1 .. i - 1 : Commutes(x, A[k], x)
  BY <1>3, <1>4, <1>5, Swap
<1>7. ASSUME NEW k \in j + 1 .. i - 1 PROVE ~A[k].filler
  <2> SUFFICES ASSUME A[k].filler PROVE FALSE
    OBVIOUS
  <2>1. A[k - 1].op \in {"BRANCH", "JUMP"}
    BY <1>3 DEF Sunk
  <2>2. k - 1 = j \/ k - 1 \in j + 1 .. i - 1
    BY <1>2
  <2> QED
    BY <1>4, <1>5, <2>1, <2>2 DEF x, Works
<1>8. \A g \in File, s \in Store : Compare(RegsAfter(g, s, x), A[i]) = Compare(g, A[i])
  <2>1. Writes(x) \cap Reads(A[i]) = {}
    BY DEF x
  <2> QED
    BY <1>3, <2>1, ComparesSame
<1>9. Fine(Filler(x)) /\ Filler(x).op = x.op /\ Filler(x).filler /\ SameWork(x, Filler(x))
  BY <1>3, FillerSame
<1>10. \A k \in j + 1 .. i : left[k] = x
  OBVIOUS
<1>11. j + 1 \in j + 1 .. i /\ i \in j + 1 .. i
       /\ \A k \in j + 1 .. i - 1 : k \in j + 1 .. i /\ k + 1 \in j + 1 .. i
  BY <1>2
<1> HIDE DEF left
<1>12. Sinkable(A, j, i, Filler(x), left)
  <2>1. A[j] = x /\ ~x.filler
    BY DEF x
  <2>2. \A k \in j + 1 .. i : Fine(left[k])
    BY <1>3, <1>10
  <2>3. \A k \in j + 1 .. i - 1 : Commutes(left[k], A[k], left[k + 1])
    BY <1>6, <1>10, <1>11
  <2> QED
    BY <1>4, <1>5, <1>7, <1>8, <1>9, <1>10, <1>11, <2>1, <2>2, <2>3 DEF Sinkable, Sinks
<1> QED
  BY <1>12 DEF x


-----------------------------------------------------------------------------
(* The rows a value can reach *)

(* Each row the search has come to adds the rows behind it.                   *)
Spread(r, S) ==
  S \cup UNION {Successors(i) : i \in {j \in S : r \notin Reads(code[j]) \cup Writes(code[j])}}

SpreadsTo(r, target, k, f) == f = [n \in 0 .. k |-> IF n = 0 THEN {target} ELSE Spread(r, f[n - 1])]

Grows(r, k, f) == \A n \in 1 .. k : f[n] = Spread(r, f[n - 1])

LEMMA SpreadUnrolled ==
  ASSUME NEW r, NEW target, NEW k \in Nat, NEW f, SpreadsTo(r, target, k, f)
  PROVE  f[0] = {target} /\ Grows(r, k, f)
<1> DEFINE e(n) == IF n = 0 THEN {target} ELSE Spread(r, f[n - 1])
<1>1. f = [n \in 0 .. k |-> e(n)]
  BY DEF SpreadsTo
<1> HIDE DEF e
<1>2. \A n \in 0 .. k : f[n] = e(n)
  BY <1>1
<1>3. 0 \in 0 .. k /\ \A n \in 1 .. k : n \in 0 .. k /\ n # 0
  OBVIOUS
<1>4. f[0] = e(0) /\ \A n \in 1 .. k : f[n] = e(n) /\ n # 0
  BY <1>2, <1>3
<1> QED
  BY <1>4 DEF e, Grows

LEMMA SpreadExists ==
  ASSUME NEW r, NEW target, NEW m \in Nat
  PROVE  \E f : SpreadsTo(r, target, m, f)
<1> DEFINE Bad == {k \in Nat : ~ \E f : SpreadsTo(r, target, k, f)}
<1> SUFFICES ASSUME Bad # {} PROVE FALSE
  OBVIOUS
<1>1. PICK k \in Bad : \A j \in Bad : k <= j
  BY LeastNumber
<1>2. CASE k = 0
  <2> DEFINE f == [n \in 0 .. 0 |-> {target}]
  <2>1. f = [n \in 0 .. 0 |-> IF n = 0 THEN {target} ELSE Spread(r, f[n - 1])]
    <3>1. \A n \in 0 .. 0 : n = 0
      OBVIOUS
    <3> QED
      BY <3>1
  <2> HIDE DEF f
  <2>2. SpreadsTo(r, target, 0, f)
    BY <2>1 DEF SpreadsTo
  <2> QED
    BY <1>1, <1>2, <2>2
<1>3. CASE k # 0
  <2>1. k - 1 \in Nat /\ k - 1 \notin Bad
    BY <1>1, <1>3
  <2>2. PICK f : SpreadsTo(r, target, k - 1, f)
    BY <2>1
  <2> DEFINE last == Spread(r, f[k - 1])
             e(n) == IF n = k THEN last ELSE f[n]
             g == [n \in 0 .. k |-> e(n)]
  <2> HIDE DEF last
  <2>3. \A n \in 0 .. k : g[n] = e(n)
    OBVIOUS
  <2> DEFINE G(n) == IF n = 0 THEN {target} ELSE Spread(r, g[n - 1])
  <2>4. ASSUME NEW n \in 0 .. k PROVE e(n) = G(n)
    <3> HIDE DEF g
    <3>1. CASE n = 0
      <4>1. f[0] = {target}
        BY <2>1, <2>2, SpreadUnrolled
      <4> QED
        BY <3>1, <4>1, <1>3
    <3>2. CASE n # 0 /\ n # k
      <4>1. n \in 1 .. k - 1 /\ n - 1 \in 0 .. k /\ n - 1 # k
        BY <3>2, <2>1
      <4>2. f[n] = Spread(r, f[n - 1])
        <5>1. Grows(r, k - 1, f)
          BY <2>1, <2>2, SpreadUnrolled
        <5> QED
          BY <4>1, <5>1 DEF Grows
      <4>3. g[n - 1] = f[n - 1]
        BY <4>1, <2>3
      <4> QED
        BY <3>2, <4>2, <4>3
    <3>3. CASE n = k
      <4>1. k - 1 \in 0 .. k /\ k - 1 # k
        BY <2>1
      <4>2. g[k - 1] = f[k - 1]
        BY <4>1, <2>3
      <4> QED
        BY <3>3, <4>2, <1>3 DEF last
    <3> QED
      BY <3>1, <3>2, <3>3
  <2>5. g = [n \in 0 .. k |-> G(n)]
    <3> HIDE DEF e, G
    <3>1. g = [n \in 0 .. k |-> e(n)]
      OBVIOUS
    <3> HIDE DEF g
    <3> QED
      BY <2>4, <3>1
  <2> HIDE DEF g
  <2>6. SpreadsTo(r, target, k, g)
    BY <2>5 DEF SpreadsTo
  <2> QED
    BY <1>1, <2>6
<1> QED
  BY <1>2, <1>3

(* The search of the rows is what its recursion says.                         *)
LEMMA ReachedIsLast ==
  ASSUME NEW r, NEW target, Len(code) \in Nat
  PROVE  \E f : SpreadsTo(r, target, Len(code), f) /\ Reached(r, target) = f[Len(code)]
<1> DEFINE N == Len(code)
<1>1. PICK f : SpreadsTo(r, target, N, f)
  BY SpreadExists
<1> DEFINE Fits(g) == g = [n \in 0 .. N |-> IF n = 0 THEN {target}
             ELSE g[n - 1] \cup UNION {Successors(i) : i \in {j \in g[n - 1] :
                                        r \notin Reads(code[j]) \cup Writes(code[j])}}]
           F == CHOOSE g : Fits(g)
<1>2. Fits(f)
  BY <1>1 DEF SpreadsTo, Spread
<1>3. Reached(r, target) = F[N]
  BY DEF Reached
<1> HIDE DEF Fits
<1>4. Fits(F)
  BY <1>2
<1> HIDE DEF F
<1>5. SpreadsTo(r, target, N, F)
  BY <1>4 DEF Fits, SpreadsTo, Spread
<1> QED
  BY <1>3, <1>5

(* The search ends within as many steps as there are rows: what it has found  *)
(* then is closed under the ways a value goes on.                             *)
LEMMA ReachedClosed ==
  ASSUME Len(code) \in Nat, NEW r, NEW target \in 1 .. Len(code),
         \A i \in 1 .. Len(code) : Successors(i) \subseteq 1 .. Len(code)
  PROVE  /\ target \in Reached(r, target)
         /\ Reached(r, target) \subseteq 1 .. Len(code)
         /\ \A i \in Reached(r, target) :
              r \notin Reads(code[i]) \cup Writes(code[i]) => Successors(i) \subseteq Reached(r, target)
<1> DEFINE N == Len(code)
<1>1. PICK f : SpreadsTo(r, target, N, f) /\ Reached(r, target) = f[N]
  BY ReachedIsLast
<1>2. f[0] = {target} /\ \A n \in 1 .. N : f[n] = Spread(r, f[n - 1])
  <2>1. f[0] = {target} /\ Grows(r, N, f)
    BY <1>1, SpreadUnrolled
  <2> QED
    BY <2>1 DEF Grows
<1>3. N \in Nat /\ N >= 1
  OBVIOUS
<1>4. \A S : S \subseteq Spread(r, S) /\ (S \subseteq 1 .. N => Spread(r, S) \subseteq 1 .. N)
  BY DEF Spread
<1> HIDE DEF N
<1>5. ASSUME NEW n \in 1 .. N PROVE n - 1 \in 0 .. N /\ f[n - 1] \subseteq f[n]
  <2>1. n - 1 \in 0 .. N
    BY <1>3
  <2> QED
    BY <1>2, <1>4, <2>1
<1>6. \A n \in 0 .. N : f[n] \subseteq 1 .. N /\ target \in f[n]
  <2> DEFINE Bad == {n \in Nat : n <= N /\ ~(f[n] \subseteq 1 .. N /\ target \in f[n])}
  <2> SUFFICES ASSUME Bad # {} PROVE FALSE
    BY <1>3
  <2>1. PICK n \in Bad : \A i \in Bad : n <= i
    BY LeastNumber
  <2>2. n # 0
    BY <1>2, <2>1 DEF N
  <2>3. n \in 1 .. N /\ n - 1 \in Nat /\ n - 1 \notin Bad /\ n - 1 <= N
    BY <1>3, <2>1, <2>2
  <2>4. f[n - 1] \subseteq 1 .. N /\ target \in f[n - 1]
    BY <2>3
  <2> QED
    BY <1>2, <1>4, <2>1, <2>3, <2>4
<1>7. \A n \in 0 .. N : IsFiniteSet(f[n]) /\ Cardinality(f[n]) \in Nat /\ Cardinality(f[n]) <= N
  <2>1. IsFiniteSet(1 .. N) /\ Cardinality(1 .. N) = N
    <3>1. 1 \in Int /\ N \in Int /\ (N - 1) + 1 = N /\ ~(1 > N)
      BY <1>3
    <3>2. IsFiniteSet(1 .. N) /\ Cardinality(1 .. N) = IF 1 > N THEN 0 ELSE (N - 1) + 1
      BY <3>1, FS_Interval, Zenon
    <3> QED
      BY <3>1, <3>2
  <2> QED
    BY <1>6, <2>1, FS_Subset, FS_CardinalityType
<1>8. \E n \in 1 .. N : f[n] = f[n - 1]
  <2> SUFFICES ASSUME \A n \in 1 .. N : f[n] # f[n - 1] PROVE FALSE
    OBVIOUS
  <2> DEFINE Bad == {n \in Nat : n <= N /\ ~(Cardinality(f[n]) >= n + 1)}
  <2>1. Bad = {}
    <3> SUFFICES ASSUME Bad # {} PROVE FALSE
      OBVIOUS
    <3>1. PICK n \in Bad : \A i \in Bad : n <= i
      BY LeastNumber
    <3>2. n # 0
      <4>1. Cardinality(f[0]) = 1
        BY <1>2, FS_Singleton
      <4> QED
        BY <3>1, <4>1
    <3>3. n \in 1 .. N /\ n - 1 \in Nat /\ n - 1 \notin Bad /\ n - 1 <= N /\ n \in 0 .. N /\ n - 1 \in 0 .. N
      BY <1>3, <3>1, <3>2
    <3>4. Cardinality(f[n - 1]) >= (n - 1) + 1
      BY <3>3
    <3>5. f[n - 1] \in SUBSET f[n] /\ f[n] # f[n - 1]
      BY <1>5, <3>3
    <3>6. Cardinality(f[n - 1]) <= Cardinality(f[n]) /\ Cardinality(f[n]) # Cardinality(f[n - 1])
      BY <1>7, <3>3, <3>5, FS_Subset
    <3>7. Cardinality(f[n]) \in Nat /\ Cardinality(f[n - 1]) \in Nat
      BY <1>7, <3>3
    <3> QED
      BY <3>1, <3>3, <3>4, <3>6, <3>7
  <2>2. Cardinality(f[N]) >= N + 1
    <3>1. N \notin Bad
      BY <2>1
    <3> QED
      BY <1>3, <3>1
  <2>3. Cardinality(f[N]) <= N /\ Cardinality(f[N]) \in Nat
    BY <1>3, <1>7
  <2> QED
    BY <1>3, <2>2, <2>3
<1>9. PICK s \in 1 .. N : f[s] = f[s - 1]
  BY <1>8
<1>10. \A n \in s .. N : f[n] = f[s]
  <2> DEFINE Bad == {n \in Nat : n >= s /\ n <= N /\ f[n] # f[s]}
  <2> SUFFICES ASSUME Bad # {} PROVE FALSE
    BY <1>3
  <2>1. PICK n \in Bad : \A i \in Bad : n <= i
    BY LeastNumber
  <2>2. n # s
    BY <2>1
  <2>3. n \in 1 .. N /\ n - 1 \in Nat /\ n - 1 \notin Bad /\ n - 1 <= N /\ n - 1 >= s
    BY <1>3, <2>1, <2>2
  <2>4. f[n - 1] = f[s]
    BY <2>3
  <2>5. f[n] = Spread(r, f[n - 1]) /\ f[s] = Spread(r, f[s - 1])
    BY <1>2, <2>3
  <2> QED
    BY <1>9, <2>1, <2>4, <2>5
<1>11. f[N] = f[s] /\ Spread(r, f[N]) = f[N]
  <2>1. N \in s .. N
    BY <1>3
  <2>2. f[s] = Spread(r, f[s - 1])
    BY <1>2
  <2> QED
    BY <1>9, <1>10, <2>1, <2>2
<1>12. f[N] \subseteq 1 .. N /\ target \in f[N]
  BY <1>3, <1>6
<1>13. ASSUME NEW i \in f[N], r \notin Reads(code[i]) \cup Writes(code[i])
       PROVE  Successors(i) \subseteq f[N]
  <2>1. Successors(i) \subseteq Spread(r, f[N])
    BY <1>13 DEF Spread
  <2> QED
    BY <1>11, <2>1
<1> QED
  BY <1>1, <1>12, <1>13 DEF N


-----------------------------------------------------------------------------
(* A token behind a branch that is put into its slot *)

Raised(B, i) ==
  /\ B \in Seq(Token) /\ Len(B) = Len(code)
  /\ \A k \in 1 .. Len(code) : k # i + 1 => B[k] = code[k]
  /\ B[i + 1] = Filler(code[i + 1])

(* The rows D, which the value at the target can reach, do not read the       *)
(* register the token writes.                                                 *)
Unread(i, D) ==
  /\ i \in 1 .. Len(code) /\ i < Len(code)
  /\ code[i].op = "BRANCH" /\ ~FilledAt(code, i) /\ code[i + 1].op = "ADD"
  /\ \A k \in 1 .. Len(code) :
       HasDelaySlot(code[k]) => code[k].op # "RETURN" /\ HasLabel(code, code[k].to)
  /\ LabelRow(code, code[i].to) \in D
  /\ D \subseteq 1 .. Len(code)
  /\ \A k \in D : /\ code[i + 1].dst \notin Reads(code[k])
                  /\ code[i + 1].dst \notin Writes(code[k]) => Successors(k) \subseteq D

LEMMA SuccessorsInside ==
  ASSUME Listed(code), NEW k \in 1 .. Len(code),
         \A i \in 1 .. Len(code) :
           HasDelaySlot(code[i]) => code[i].op # "RETURN" /\ HasLabel(code, code[i].to)
  PROVE  Successors(k) \subseteq 1 .. Len(code)
<1>1. code \in Seq(Token) /\ Len(code) \in Nat /\ DOMAIN code = 1 .. Len(code)
  BY DEF Listed
<1>2. Below(k) \subseteq 1 .. Len(code)
  BY <1>1 DEF Below
<1>3. \A label : HasLabel(code, label) => LabelRow(code, label) \in 1 .. Len(code)
  BY <1>1, DestinationPlace
<1>4. Transfers(k) => HasLabel(code, Branch(k).to)
  <2>1. CASE code[k].filler
    <3>1. k > 1 /\ code[k - 1].op \in {"BRANCH", "JUMP"}
      BY <1>1, <2>1 DEF Listed, Sunk
    <3>2. k - 1 \in 1 .. Len(code) /\ HasDelaySlot(code[k - 1])
      BY <1>1, <3>1 DEF HasDelaySlot
    <3> QED
      BY <2>1, <3>2 DEF Branch
  <2>2. CASE ~code[k].filler
    BY <2>2 DEF Branch, Transfers
  <2> QED
    BY <2>1, <2>2
<1> QED
  BY <1>2, <1>3, <1>4 DEF Successors

LEMMA RaiseMoves ==
  ASSUME Listed(code), NEW i \in 1 .. Len(code), i < Len(code)
  PROVE  Raised([code EXCEPT ![i + 1] = Filler(@)], i)
<1>1. code \in Seq(Token) /\ Len(code) \in Nat /\ DOMAIN code = 1 .. Len(code)
  BY DEF Listed
<1>2. i + 1 \in 1 .. Len(code)
  BY <1>1
<1>3. Fine(Filler(code[i + 1]))
  BY <1>1, <1>2, FillerSame DEF Listed
<1> DEFINE f == Filler(code[i + 1])
           B == [code EXCEPT ![i + 1] = f]
<1>4. f \in Token
  BY <1>3 DEF Fine
<1> HIDE DEF f
<1>5. B \in Seq(Token) /\ Len(B) = Len(code) /\ B[i + 1] = f
      /\ \A k \in 1 .. Len(code) : k # i + 1 => B[k] = code[k]
  BY <1>1, <1>2, <1>4
<1>6. [code EXCEPT ![i + 1] = Filler(@)] = B
  BY DEF f
<1> QED
  BY <1>5, <1>6 DEF Raised, f

LEMMA RaisedListed ==
  ASSUME NEW B, NEW i, NEW D, Listed(code), Raised(B, i), Unread(i, D)
  PROVE  /\ Listed(B)
         /\ \A k \in DOMAIN B : ~B[k].filler => \E l \in DOMAIN code : B[k] = code[l]
<1>1. /\ code \in Seq(Token) /\ Len(code) \in Nat /\ DOMAIN code = 1 .. Len(code)
      /\ B \in Seq(Token) /\ Len(B) = Len(code) /\ DOMAIN B = 1 .. Len(code)
  BY DEF Listed, Raised
<1>2. i \in Nat /\ 1 <= i /\ i + 1 \in 1 .. Len(code) /\ i \in 1 .. Len(code)
  BY <1>1 DEF Unread
<1>3. Fine(B[i + 1]) /\ B[i + 1].op = "ADD" /\ B[i + 1].filler
  BY <1>1, <1>2, FillerSame DEF Listed, Raised, Unread
<1>4. code[i].op = "BRANCH" /\ ~code[i].filler /\ ~code[i + 1].filler
  <2>1. Sunk(code, i) /\ code[i].op = "BRANCH"
    BY <1>1, <1>2 DEF Listed, Unread
  <2>2. ~code[i + 1].filler
    BY DEF Unread, FilledAt
  <2> QED
    BY <2>1, <2>2 DEF Sunk
<1>5. ASSUME NEW k \in 1 .. Len(code)
      PROVE  Fine(B[k]) /\ Sunk(B, k) /\ (~B[k].filler => \E l \in DOMAIN code : B[k] = code[l])
  <2>1. CASE k = i + 1
    <3>1. B[k - 1] = code[i] /\ k > 1
      BY <1>2, <2>1 DEF Raised
    <3> QED
      BY <1>3, <1>4, <2>1, <3>1 DEF Sunk
  <2>2. CASE k # i + 1
    <3>1. B[k] = code[k] /\ Fine(code[k]) /\ Sunk(code, k)
      BY <1>1, <2>2 DEF Raised, Listed
    <3>2. CASE k - 1 = i + 1
      <4>1. code[k - 1].op = "ADD"
        BY <3>2 DEF Unread
      <4> QED
        BY <1>1, <3>1, <4>1 DEF Sunk
    <3>3. CASE k - 1 # i + 1
      <4>1. k > 1 => B[k - 1] = code[k - 1]
        BY <1>1, <3>3 DEF Raised
      <4> QED
        BY <1>1, <3>1, <4>1 DEF Sunk
    <3> QED
      BY <3>2, <3>3
  <2> QED
    BY <2>1, <2>2
<1> QED
  BY <1>1, <1>5 DEF Listed

(* Where the machines go: but for the branch at i, to the same row.           *)
LEMMA RaisedWays ==
  ASSUME NEW B, NEW i, NEW D, Listed(code), Raised(B, i), Unread(i, D)
  PROVE  /\ \A k \in 1 .. Len(code) : k # i => (FilledAt(B, k) <=> FilledAt(code, k))
         /\ FilledAt(B, i)
         /\ \A label : /\ Destination(B, label) = Destination(code, label)
                       /\ Destination(code, label) # i + 1
         /\ \A k \in 1 .. Len(code), taken \in BOOLEAN : k # i /\ k # i + 1 =>
              /\ WhereTo(B, k, taken) = WhereTo(code, k, taken)
              /\ WhereTo(code, k, taken) # i + 1
<1>1. /\ code \in Seq(Token) /\ Len(code) \in Nat /\ DOMAIN code = 1 .. Len(code)
      /\ B \in Seq(Token) /\ Len(B) = Len(code) /\ DOMAIN B = 1 .. Len(code)
  BY DEF Listed, Raised
<1>2. i \in Nat /\ 1 <= i /\ i + 1 \in 1 .. Len(code) /\ i \in 1 .. Len(code) /\ i < Len(code)
  BY <1>1 DEF Unread
<1>3. B[i + 1].op = "ADD" /\ B[i + 1].filler /\ code[i + 1].op = "ADD" /\ code[i].op = "BRANCH"
  BY <1>1, <1>2, FillerSame DEF Listed, Raised, Unread
<1>4. \A k \in 1 .. Len(code) : k # i + 1 => B[k] = code[k]
  BY DEF Raised
<1>5. \A k \in 1 .. Len(code) : k # i => (FilledAt(B, k) <=> FilledAt(code, k))
  <2> SUFFICES ASSUME NEW k \in 1 .. Len(code), k # i PROVE FilledAt(B, k) <=> FilledAt(code, k)
    OBVIOUS
  <2>1. k < Len(code) => k + 1 \in 1 .. Len(code) /\ k + 1 # i + 1
    BY <1>1, <1>2
  <2> QED
    BY <1>1, <1>4, <2>1 DEF FilledAt
<1>6. FilledAt(B, i)
  BY <1>1, <1>2, <1>3 DEF FilledAt
<1>7. ASSUME NEW label
      PROVE  Destination(B, label) = Destination(code, label) /\ Destination(code, label) # i + 1
  <2>1. \A k \in 1 .. Len(code) : Labels(code[k], label) <=> Labels(B[k], label)
    BY <1>3, <1>4 DEF Labels
  <2>2. {k \in 1 .. Len(code) : Labels(code[k], label)} = {k \in 1 .. Len(B) : Labels(B[k], label)}
    BY <1>1, <2>1
  <2>3. LabelRow(code, label) = LabelRow(B, label) /\ HasLabel(code, label) = HasLabel(B, label)
    BY <1>1, <2>1, <2>2 DEF LabelRow, SelectInSeq, HasLabel
  <2>4. Destination(B, label) = Destination(code, label)
    BY <1>1, <2>3 DEF Destination
  <2>5. Destination(code, label) \in DOMAIN code => code[Destination(code, label)].op = "LABEL"
    BY <1>1, DestinationPlace
  <2> QED
    BY <1>1, <1>2, <1>3, <2>4, <2>5
<1>8. ASSUME NEW k \in 1 .. Len(code), NEW taken \in BOOLEAN, k # i, k # i + 1
      PROVE  /\ WhereTo(B, k, taken) = WhereTo(code, k, taken)
             /\ WhereTo(code, k, taken) # i + 1
  <2>1. WhereTo(B, k, taken) = WhereTo(code, k, taken)
    BY <1>1, <1>4, <1>5, <1>7, <1>8 DEF WhereTo
  <2>2. FilledAt(code, k) => k + 2 # i + 1
    <3> SUFFICES ASSUME FilledAt(code, k), k + 1 = i PROVE FALSE
      BY <1>1, <1>2
    <3>1. code[i].filler
      BY DEF FilledAt
    <3> QED
      BY <1>1, <1>2, <1>3, <3>1 DEF Listed, Sunk
  <2>3. Len(code) + 1 # i + 1 /\ k + 1 # i + 1
    BY <1>1, <1>2, <1>8
  <2> QED
    BY <1>7, <2>1, <2>2, <2>3 DEF WhereTo
<1> QED
  BY <1>5, <1>6, <1>7, <1>8


(* The machines are the same; or the one that was not changed has the token   *)
(* still to run; or they differ in the register it writes, on rows that do    *)
(* not read it.                                                               *)
AgreeBut(r, g, h) == \A q \in Regs : q # r => g[q] = h[q]

Same(i, a, b) == a = b /\ a.pc \in 1 .. Len(code) + 1 /\ a.pc # i + 1

Late(i, a, b) ==
  /\ a.pc = i + 1 /\ b.pc = i + 2
  /\ a.compared = b.compared /\ a.stores = b.stores
  /\ b.regs = RegsAfter(a.regs, a.stores, code[i + 1])

Apart(i, D, a, b) ==
  /\ a.pc = b.pc /\ a.pc \in D \cup {Len(code) + 1} /\ a.pc # i + 1
  /\ a.pc \in DOMAIN code => ~code[a.pc].filler
  /\ a.compared = b.compared /\ a.stores = b.stores
  /\ AgreeBut(code[i + 1].dst, a.regs, b.regs)

Paired(i, D, a, b) == Same(i, a, b) \/ Late(i, a, b) \/ Apart(i, D, a, b)

DeadPairs(i, D) == {x \in Machine \X Machine : Paired(i, D, x[1], x[2])}

LEMMA RowEntered ==
  ASSUME NEW list, Listed(list), NEW p \in 1 .. Len(list), ~list[p].filler
  PROVE  /\ ~HasDelaySlot(list[p]) /\ p + 1 \in DOMAIN list => ~list[p + 1].filler
         /\ \A taken \in BOOLEAN :
              HasDelaySlot(list[p]) /\ WhereTo(list, p, taken) \in DOMAIN list
                => ~list[WhereTo(list, p, taken)].filler
<1>1. list \in Seq(Token) /\ Len(list) \in Nat /\ DOMAIN list = 1 .. Len(list)
  BY DEF Listed
<1>2. ~HasDelaySlot(list[p]) /\ p + 1 \in DOMAIN list => ~list[p + 1].filler
  <2>1. (p + 1) - 1 = p
    BY <1>1
  <2> QED
    BY <2>1 DEF Listed, Sunk, HasDelaySlot
<1>3. ASSUME NEW label, Destination(list, label) \in DOMAIN list
      PROVE  ~list[Destination(list, label)].filler
  <2>1. list[Destination(list, label)].op = "LABEL"
    BY <1>1, <1>3, DestinationPlace
  <2> QED
    BY <1>3, <2>1 DEF Listed, Sunk
<1>4. Len(list) + 1 \notin DOMAIN list
  BY <1>1
<1>5. FilledAt(list, p) /\ p + 2 \in DOMAIN list => ~list[p + 2].filler
  <2>1. (p + 2) - 1 = p + 1
    BY <1>1
  <2> QED
    BY <2>1 DEF Listed, Sunk, FilledAt
<1>6. ~FilledAt(list, p) /\ p + 1 \in DOMAIN list => ~list[p + 1].filler
  <2>1. p + 1 \in DOMAIN list => p < Len(list)
    BY <1>1
  <2> QED
    BY <2>1 DEF FilledAt
<1> QED
  BY <1>2, <1>3, <1>4, <1>5, <1>6 DEF WhereTo

LEMMA PairedIn ==
  ASSUME NEW i, NEW D, NEW a \in Machine, NEW b \in Machine, Paired(i, D, a, b)
  PROVE  <<a, b>> \in DeadPairs(i, D)
BY DEF DeadPairs

(* The same machines, anywhere but at the branch.                             *)
LEMMA SameStep ==
  ASSUME NEW B, NEW i, NEW D, Listed(code), Raised(B, i), Unread(i, D),
         NEW a \in Machine, NEW b \in Machine, Same(i, a, b), a.pc # i,
         ~Ended(code, a), NEW taken \in BOOLEAN
  PROVE  Follows(code, B, DeadPairs(i, D), a, b, taken)
<1>1. /\ code \in Seq(Token) /\ Len(code) \in Nat /\ DOMAIN code = 1 .. Len(code)
      /\ B \in Seq(Token) /\ Len(B) = Len(code) /\ DOMAIN B = 1 .. Len(code)
  BY DEF Listed, Raised
<1>2. i \in Nat
  BY <1>1 DEF Unread
<1>3. a = b /\ a.pc \in 1 .. Len(code) /\ a.pc # i + 1
  BY <1>1 DEF Same, Ended
<1>4. B[a.pc] = code[a.pc]
  BY <1>3 DEF Raised
<1>5. Listed(B)
  BY RaisedListed
<1>6. ~Ended(B, b)
  BY <1>1, <1>3 DEF Ended
<1>7. CASE ~HasDelaySlot(code[a.pc])
  <2>1. Straight(code, a).pc = a.pc + 1 /\ Straight(code, a) \in Machine
    BY <1>1, <1>3, <1>7, StraightParts
  <2>2. Straight(B, b) = Straight(code, a)
    BY <1>3, <1>4 DEF Straight
  <2>3. a.pc + 1 \in 1 .. Len(code) + 1 /\ a.pc + 1 # i + 1
    BY <1>1, <1>2, <1>3
  <2>4. Same(i, Straight(code, a), Straight(B, b))
    BY <2>1, <2>2, <2>3 DEF Same
  <2>5. <<Step(code, a, taken), Step(B, b, taken)>> \in DeadPairs(i, D)
    BY <1>3, <1>4, <1>7, <2>1, <2>2, <2>4, PairedIn DEF Step, Paired
  <2> QED
    BY <1>3, <1>4, <1>6, <2>5 DEF Follows
<1>8. CASE HasDelaySlot(code[a.pc])
  <2>1. /\ Turned(code, a, taken) = [ pc |-> WhereTo(code, a.pc, taken),
                                     regs |-> RegsInSlot(code, a),
                                     stores |-> StoresInSlot(code, a),
                                     compared |-> Append(a.compared, Compare(a.regs, code[a.pc])) ]
        /\ Turned(code, a, taken) \in Machine
        /\ WhereTo(code, a.pc, taken) \in 1 .. Len(code) + 1
    BY <1>1, <1>3, TurnedParts
  <2>2. Turned(B, b, taken) = [ pc |-> WhereTo(B, b.pc, taken),
                                     regs |-> RegsInSlot(B, b),
                                     stores |-> StoresInSlot(B, b),
                                     compared |-> Append(b.compared, Compare(b.regs, B[b.pc])) ]
    BY <1>1, <1>3, <1>5, TurnedParts
  <2>3. /\ WhereTo(B, a.pc, taken) = WhereTo(code, a.pc, taken)
        /\ WhereTo(code, a.pc, taken) # i + 1
        /\ FilledAt(B, a.pc) <=> FilledAt(code, a.pc)
    BY <1>3, RaisedWays
  <2>4. FilledAt(code, a.pc) => B[a.pc + 1] = code[a.pc + 1]
    <3>1. FilledAt(code, a.pc) => a.pc + 1 \in 1 .. Len(code) /\ a.pc + 1 # i + 1
      BY <1>1, <1>2, <1>3 DEF FilledAt
    <3> QED
      BY <3>1 DEF Raised
  <2>5. RegsInSlot(B, b) = RegsInSlot(code, a) /\ StoresInSlot(B, b) = StoresInSlot(code, a)
    BY <1>3, <2>3, <2>4 DEF RegsInSlot, StoresInSlot
  <2>6. Turned(B, b, taken) = Turned(code, a, taken)
    BY <1>3, <1>4, <2>1, <2>2, <2>3, <2>5
  <2>7. Same(i, Turned(code, a, taken), Turned(B, b, taken))
    BY <2>1, <2>3, <2>6 DEF Same
  <2>8. <<Step(code, a, taken), Step(B, b, taken)>> \in DeadPairs(i, D)
    BY <1>3, <1>4, <1>8, <2>1, <2>6, <2>7, PairedIn DEF Step, Paired
  <2> QED
    BY <1>3, <1>4, <1>6, <2>8 DEF Follows
<1> QED
  BY <1>7, <1>8

(* The token that was not moved is run late.                                  *)
LEMMA LateStep ==
  ASSUME NEW B, NEW i, NEW D, Listed(code), Raised(B, i), Unread(i, D),
         NEW a \in Machine, NEW b \in Machine, Late(i, a, b), NEW taken \in BOOLEAN
  PROVE  Follows(code, B, DeadPairs(i, D), a, b, taken)
<1>1. code \in Seq(Token) /\ Len(code) \in Nat /\ DOMAIN code = 1 .. Len(code)
  BY DEF Listed
<1>2. i \in Nat /\ a.pc = i + 1 /\ a.pc \in DOMAIN code /\ code[a.pc].op = "ADD"
  BY <1>1 DEF Unread, Late
<1>3. ~HasDelaySlot(code[a.pc])
  BY <1>2 DEF HasDelaySlot
<1>4. /\ Straight(code, a) = [ pc |-> a.pc + 1,
                               regs |-> RegsAfter(a.regs, a.stores, code[a.pc]),
                               stores |-> StoresAfter(a.regs, a.stores, code[a.pc]),
                               compared |-> a.compared ]
      /\ Straight(code, a) \in Machine
  BY <1>2, <1>3, StraightParts
<1>5. StoresAfter(a.regs, a.stores, code[a.pc]) = a.stores
  BY <1>2 DEF StoresAfter
<1>6. b = [pc |-> b.pc, regs |-> b.regs, stores |-> b.stores, compared |-> b.compared]
  BY MachineParts
<1>7. Straight(code, a) = b
  <2>1. a.pc + 1 = i + 2 /\ b.pc = i + 2 /\ a.compared = b.compared /\ a.stores = b.stores
        /\ b.regs = RegsAfter(a.regs, a.stores, code[a.pc])
    BY <1>2 DEF Late
  <2> QED
    BY <1>4, <1>5, <1>6, <2>1
<1>8. Same(i, Straight(code, a), b)
  <2>1. a.pc + 1 \in 1 .. Len(code) + 1 /\ a.pc + 1 # i + 1
    BY <1>1, <1>2
  <2> QED
    BY <1>4, <1>7, <2>1 DEF Same
<1>9. <<Step(code, a, taken), b>> \in DeadPairs(i, D)
  BY <1>3, <1>4, <1>8, PairedIn DEF Step, Paired
<1> QED
  BY <1>3, <1>9 DEF Follows


LEMMA SeesSame ==
  ASSUME NEW g, NEW h, NEW t, Fine(t), NEW r, AgreeBut(r, g, h), r \notin Reads(t)
  PROVE  \A q \in Reads(t) : g[q] = h[q]
<1>1. Reads(t) \subseteq Regs
  <2>1. t.from \in Seq(Regs)
    BY TokenOperands
  <2> QED
    BY <2>1 DEF Reads, Range
<1> QED
  BY <1>1 DEF AgreeBut

LEMMA AgreeAfter ==
  ASSUME NEW g \in File, NEW h \in File, NEW s \in Store, NEW t, Fine(t),
         NEW r, AgreeBut(r, g, h), r \notin Reads(t)
  PROVE  /\ AgreeBut(r, RegsAfter(g, s, t), RegsAfter(h, s, t))
         /\ r = t.dst => RegsAfter(g, s, t) = RegsAfter(h, s, t)
         /\ StoresAfter(g, s, t) = StoresAfter(h, s, t)
<1>1. \A q \in Reads(t) : g[q] = h[q]
  BY SeesSame
<1>2. /\ t.op \in Works => Value(g, s, t) = Value(h, s, t)
      /\ StoresAfter(g, s, t) = StoresAfter(h, s, t)
  BY <1>1, SameReads
<1>3. t.dst \in Regs => t.op \in Works
  BY RegsAssumption DEF Fine, Works
<1>4. \A q \in Regs : /\ RegsAfter(g, s, t)[q] = (IF q = t.dst THEN Value(g, s, t) ELSE g[q])
                      /\ RegsAfter(h, s, t)[q] = (IF q = t.dst THEN Value(h, s, t) ELSE h[q])
  BY RegsPlaces
<1>5. \A q \in Regs : q # r \/ r = t.dst => RegsAfter(g, s, t)[q] = RegsAfter(h, s, t)[q]
  BY <1>2, <1>3, <1>4 DEF AgreeBut
<1>6. RegsAfter(g, s, t) \in File /\ RegsAfter(h, s, t) \in File
  BY AfterTyped
<1>7. r = t.dst => RegsAfter(g, s, t) = RegsAfter(h, s, t)
  BY <1>5, <1>6, FilesEqual
<1> QED
  BY <1>2, <1>5, <1>7 DEF AgreeBut

LEMMA AgreeBehind ==
  ASSUME NEW g \in File, NEW h \in File, NEW s \in Store, NEW t, Fine(t), AgreeBut(t.dst, g, h)
  PROVE  AgreeBut(t.dst, g, RegsAfter(h, s, t))
<1>1. \A q \in Regs : RegsAfter(h, s, t)[q] = IF q = t.dst THEN Value(h, s, t) ELSE h[q]
  BY RegsPlaces
<1> QED
  BY <1>1 DEF AgreeBut

(* The branch that was given the token, whether the machines are the same or  *)
(* have come back to it apart.                                                *)
LEMMA ForkStep ==
  ASSUME NEW B, NEW i, NEW D, Listed(code), Raised(B, i), Unread(i, D),
         NEW a \in Machine, NEW b \in Machine, Same(i, a, b) \/ Apart(i, D, a, b), a.pc = i,
         ~Ended(code, a), NEW taken \in BOOLEAN
  PROVE  Follows(code, B, DeadPairs(i, D), a, b, taken)
<1> DEFINE t == code[i + 1]
           r == t.dst
           target == LabelRow(code, code[i].to)
           c == Append(a.compared, Compare(a.regs, code[i]))
           h == RegsAfter(b.regs, b.stores, t)
<1>1. /\ code \in Seq(Token) /\ Len(code) \in Nat /\ DOMAIN code = 1 .. Len(code)
      /\ B \in Seq(Token) /\ Len(B) = Len(code) /\ DOMAIN B = 1 .. Len(code)
  BY DEF Listed, Raised
<1>2. i \in Nat /\ i \in 1 .. Len(code) /\ i + 1 \in 1 .. Len(code) /\ i < Len(code) /\ i # i + 1
  BY <1>1 DEF Unread
<1>3. Fine(t) /\ Fine(code[i])
  BY <1>1, <1>2 DEF Listed
<1>4. /\ code[i].op = "BRANCH" /\ ~FilledAt(code, i) /\ t.op = "ADD"
      /\ HasLabel(code, code[i].to) /\ target \in D /\ D \subseteq 1 .. Len(code)
  BY <1>2 DEF Unread, HasDelaySlot
<1>5. HasDelaySlot(code[i]) /\ B[i] = code[i] /\ Listed(B)
  BY <1>2, <1>4, RaisedListed DEF HasDelaySlot, Raised
<1>6. b.pc = i /\ a.compared = b.compared /\ a.stores = b.stores /\ AgreeBut(r, a.regs, b.regs)
  BY DEF Same, Apart, AgreeBut
<1>7. a.regs = b.regs \/ i \in D
  BY <1>1, <1>2 DEF Same, Apart
<1>8. i \in D => r \notin Reads(code[i]) /\ r \notin Reads(t)
  <2> SUFFICES ASSUME i \in D PROVE r \notin Reads(code[i]) /\ r \notin Reads(t)
    OBVIOUS
  <2>1. r \notin Reads(code[i]) /\ (r \notin Writes(code[i]) => Successors(i) \subseteq D)
    BY DEF Unread
  <2>2. Writes(code[i]) = {}
    BY <1>3, <1>4 DEF Fine, Writes
  <2>3. i + 1 \in Successors(i)
    <3>1. ~code[i].filler
      BY <1>1, <1>2, <1>4 DEF Listed, Sunk
    <3>2. Transfers(i)
      BY <1>4, <1>5 DEF Transfers, Filled, FilledAt
    <3>3. Branch(i).op # "JUMP"
      BY <1>4, <3>1 DEF Branch
    <3> QED
      BY <1>1, <1>2, <3>2, <3>3 DEF Successors, Below
  <2>4. i + 1 \in D
    BY <2>1, <2>2, <2>3
  <2> QED
    BY <2>1, <2>4 DEF Unread
<1>9. /\ a.pc \in Nat /\ a.regs \in File /\ a.stores \in Store /\ a.compared \in Seq(Seq(Int))
      /\ b.regs \in File /\ b.stores \in Store
  BY MachineParts
<1>10. Compare(a.regs, code[i]) = Compare(b.regs, code[i])
  BY <1>3, <1>6, <1>7, <1>8, <1>9, SeesSame, SameCompared
<1>11. ~Ended(B, b)
  BY <1>1, <1>2, <1>6 DEF Ended
<1>12. /\ Turned(code, a, taken) = [ pc |-> WhereTo(code, i, taken), regs |-> a.regs,
                                     stores |-> a.stores, compared |-> c ]
       /\ Turned(code, a, taken) \in Machine
  BY <1>1, <1>2, <1>4, TurnedParts DEF RegsInSlot, StoresInSlot
<1>13. /\ Turned(B, b, taken) = [ pc |-> WhereTo(B, i, taken), regs |-> h,
                                  stores |-> a.stores, compared |-> c ]
       /\ Turned(B, b, taken) \in Machine
  <2>1. /\ Turned(B, b, taken) = [ pc |-> WhereTo(B, b.pc, taken), regs |-> RegsInSlot(B, b),
                                   stores |-> StoresInSlot(B, b),
                                   compared |-> Append(b.compared, Compare(b.regs, B[b.pc])) ]
        /\ Turned(B, b, taken) \in Machine
    BY <1>1, <1>2, <1>5, <1>6, TurnedParts
  <2>2. FilledAt(B, i) /\ B[i + 1] = Filler(t)
    BY RaisedWays DEF Raised
  <2>3. /\ RegsInSlot(B, b) = RegsAfter(b.regs, b.stores, Filler(t))
        /\ StoresInSlot(B, b) = StoresAfter(b.regs, b.stores, Filler(t))
    BY <1>6, <2>2 DEF RegsInSlot, StoresInSlot
  <2>4. RegsInSlot(B, b) = h /\ StoresInSlot(B, b) = b.stores
    <3>1. SameWork(t, Filler(t))
      BY <1>3, FillerSame
    <3>2. StoresAfter(b.regs, b.stores, t) = b.stores
      BY <1>4 DEF StoresAfter
    <3> QED
      BY <1>9, <2>3, <3>1, <3>2 DEF SameWork
  <2> QED
    BY <1>5, <1>6, <1>10, <2>1, <2>4
<1>14. Paired(i, D, Turned(code, a, taken), Turned(B, b, taken))
  <2>1. CASE taken
    <3>1. WhereTo(code, i, taken) = target /\ WhereTo(B, i, taken) = target /\ target # i + 1
      <4>1. Destination(code, code[i].to) = target
        BY <1>1, <1>4, DestinationPlace
      <4>2. Destination(B, code[i].to) = Destination(code, code[i].to) /\ Destination(code, code[i].to) # i + 1
        BY RaisedWays
      <4> QED
        BY <1>4, <1>5, <2>1, <4>1, <4>2 DEF WhereTo
    <3>2. ~code[target].filler
      <4>1. code[target].op = "LABEL" /\ target \in DOMAIN code
        BY <1>1, <1>4, DestinationPlace
      <4> QED
        BY <4>1 DEF Listed, Sunk
    <3>3. AgreeBut(r, a.regs, h)
      BY <1>3, <1>6, <1>9, AgreeBehind
    <3>4. Apart(i, D, Turned(code, a, taken), Turned(B, b, taken))
      BY <1>4, <1>12, <1>13, <3>1, <3>2, <3>3 DEF Apart
    <3> QED
      BY <3>4 DEF Paired
  <2>2. CASE ~taken
    <3>1. WhereTo(code, i, taken) = i + 1 /\ WhereTo(B, i, taken) = i + 2
      <4>1. FilledAt(B, i)
        BY RaisedWays
      <4> QED
        BY <1>4, <1>5, <2>2, <4>1 DEF WhereTo
    <3>2. h = RegsAfter(a.regs, a.stores, t)
      <4>1. CASE a.regs = b.regs
        BY <1>6, <4>1
      <4>2. CASE i \in D
        <5>1. RegsAfter(a.regs, a.stores, t) = RegsAfter(b.regs, a.stores, t)
          BY <1>3, <1>6, <1>8, <1>9, <4>2, AgreeAfter
        <5> QED
          BY <1>6, <5>1
      <4> QED
        BY <1>7, <4>1, <4>2
    <3>3. Late(i, Turned(code, a, taken), Turned(B, b, taken))
      BY <1>12, <1>13, <3>1, <3>2 DEF Late
    <3> QED
      BY <3>3 DEF Paired
  <2> QED
    BY <2>1, <2>2
<1>15. <<Step(code, a, taken), Step(B, b, taken)>> \in DeadPairs(i, D)
  BY <1>5, <1>6, <1>12, <1>13, <1>14, PairedIn DEF Step
<1> QED
  BY <1>5, <1>6, <1>11, <1>15 DEF Follows


(* The machines apart, on a row that does not read the register.              *)
LEMMA ApartStep ==
  ASSUME NEW B, NEW i, NEW D, Listed(code), Raised(B, i), Unread(i, D),
         NEW a \in Machine, NEW b \in Machine, Apart(i, D, a, b), a.pc # i,
         ~Ended(code, a), NEW taken \in BOOLEAN, MayTurn(code, a, taken)
  PROVE  Follows(code, B, DeadPairs(i, D), a, b, taken)
<1> DEFINE p == a.pc
           t == code[p]
           r == code[i + 1].dst
<1>1. /\ code \in Seq(Token) /\ Len(code) \in Nat /\ DOMAIN code = 1 .. Len(code)
      /\ B \in Seq(Token) /\ Len(B) = Len(code) /\ DOMAIN B = 1 .. Len(code)
  BY DEF Listed, Raised
<1>2. i \in Nat /\ i + 1 \in 1 .. Len(code) /\ D \subseteq 1 .. Len(code)
  BY <1>1 DEF Unread
<1>3. p \in D /\ p \in 1 .. Len(code) /\ p # i /\ p # i + 1 /\ ~t.filler
  <2>1. p \in D \/ p = Len(code) + 1
    BY DEF Apart
  <2>2. ~(p > Len(code))
    BY DEF Ended
  <2>3. p # Len(code) + 1
    BY <1>1, <2>2
  <2>4. p \in D /\ p \in DOMAIN code
    BY <1>1, <1>2, <2>1, <2>3
  <2> QED
    BY <1>1, <2>4 DEF Apart
<1>4. b.pc = p /\ a.compared = b.compared /\ a.stores = b.stores /\ AgreeBut(r, a.regs, b.regs)
  BY DEF Apart
<1>5. Fine(t) /\ B[p] = t /\ Listed(B) /\ b.pc \in DOMAIN B
  BY <1>1, <1>3, <1>4, RaisedListed DEF Listed, Raised
<1>6. r \notin Reads(t) /\ (r \notin Writes(t) => Successors(p) \subseteq D)
  BY <1>3 DEF Unread
<1>7. /\ a.pc \in Nat /\ a.regs \in File /\ a.stores \in Store /\ a.compared \in Seq(Seq(Int))
      /\ b.regs \in File /\ b.stores \in Store
  BY MachineParts
<1>8. ~Ended(B, b)
  BY <1>1, <1>3, <1>4 DEF Ended
<1>9. r \in Regs \/ r = 0
  <2>1. Fine(code[i + 1])
    BY <1>1, <1>2 DEF Listed
  <2> QED
    BY <2>1, TokenOperands
<1>10. CASE ~HasDelaySlot(t)
  <2> DEFINE g == RegsAfter(a.regs, a.stores, t)
             h == RegsAfter(b.regs, a.stores, t)
             s == StoresAfter(a.regs, a.stores, t)
  <2>1. AgreeBut(r, g, h) /\ (r = t.dst => g = h) /\ s = StoresAfter(b.regs, a.stores, t)
    BY <1>4, <1>5, <1>6, <1>7, AgreeAfter
  <2>2. /\ Straight(code, a) = [pc |-> p + 1, regs |-> g, stores |-> s, compared |-> a.compared]
        /\ Straight(code, a) \in Machine
    BY <1>1, <1>3, <1>10, StraightParts
  <2>3. /\ Straight(B, b) = [pc |-> p + 1, regs |-> h, stores |-> s, compared |-> a.compared]
        /\ Straight(B, b) \in Machine
    BY <1>4, <1>5, <1>10, <2>1, StraightParts
  <2>4. p + 1 \in 1 .. Len(code) + 1 /\ p + 1 # i + 1
    BY <1>1, <1>2, <1>3
  <2>5. CASE r \in Writes(t)
    <3>1. r = t.dst
      BY <2>5 DEF Writes
    <3>2. Straight(B, b) = Straight(code, a)
      BY <2>1, <2>2, <2>3, <3>1
    <3>3. Same(i, Straight(code, a), Straight(B, b))
      BY <2>2, <2>4, <3>2 DEF Same
    <3>4. <<Step(code, a, taken), Step(B, b, taken)>> \in DeadPairs(i, D)
      BY <1>4, <1>5, <1>10, <2>2, <2>3, <3>3, PairedIn DEF Step, Paired
    <3> QED
      BY <1>4, <1>5, <1>8, <3>4 DEF Follows
  <2>6. CASE r \notin Writes(t)
    <3>1. p + 1 \in D \cup {Len(code) + 1}
      <4>1. Successors(p) = Below(p)
        BY <1>3, <1>10 DEF Successors, Transfers
      <4>2. p + 1 \in 1 .. Len(code) => p + 1 \in Below(p)
        BY <1>1 DEF Below
      <4> QED
        BY <1>6, <2>4, <2>6, <4>1, <4>2
    <3>2. p + 1 \in DOMAIN code => ~code[p + 1].filler
      BY <1>3, <1>10, RowEntered
    <3>3. Apart(i, D, Straight(code, a), Straight(B, b))
      BY <2>1, <2>2, <2>3, <2>4, <3>1, <3>2 DEF Apart
    <3>4. <<Step(code, a, taken), Step(B, b, taken)>> \in DeadPairs(i, D)
      BY <1>4, <1>5, <1>10, <2>2, <2>3, <3>3, PairedIn DEF Step, Paired
    <3> QED
      BY <1>4, <1>5, <1>8, <3>4 DEF Follows
  <2> QED
    BY <2>5, <2>6
<1>11. CASE HasDelaySlot(t)
  <2> DEFINE to == WhereTo(code, p, taken)
             c == Append(a.compared, Compare(a.regs, t))
             g == RegsInSlot(code, a)
             h == RegsInSlot(B, b)
             s == StoresInSlot(code, a)
             fill == code[p + 1]
  <2>1. Compare(a.regs, t) = Compare(b.regs, t)
    BY <1>4, <1>5, <1>6, <1>7, SeesSame, SameCompared
  <2>2. /\ Turned(code, a, taken) = [pc |-> to, regs |-> g, stores |-> s, compared |-> c]
        /\ Turned(code, a, taken) \in Machine
        /\ to \in 1 .. Len(code) + 1
    BY <1>1, <1>3, TurnedParts
  <2>3. /\ WhereTo(B, p, taken) = to /\ to # i + 1
        /\ FilledAt(B, p) <=> FilledAt(code, p)
    BY <1>3, RaisedWays
  <2>4. /\ Turned(B, b, taken) = [pc |-> to, regs |-> h, stores |-> StoresInSlot(B, b), compared |-> c]
        /\ Turned(B, b, taken) \in Machine
    BY <1>4, <1>5, <2>1, <2>3, TurnedParts
  <2>5. FilledAt(code, p) => B[p + 1] = fill /\ p + 1 \in 1 .. Len(code) /\ Fine(fill) /\ fill.filler
    <3>1. FilledAt(code, p) => p + 1 \in 1 .. Len(code) /\ p + 1 # i + 1
      BY <1>1, <1>2, <1>3 DEF FilledAt
    <3>2. FilledAt(code, p) => B[p + 1] = fill
      BY <3>1 DEF Raised
    <3> QED
      BY <1>1, <3>1, <3>2 DEF Listed, FilledAt
  <2>6. Writes(t) = {}
    BY <1>5, <1>11 DEF Fine, Writes, HasDelaySlot
  <2>7. Successors(p) \subseteq D
    BY <1>6, <2>6
  <2>8. t.op # "RETURN" /\ HasLabel(code, t.to)
    BY <1>3, <1>11 DEF Unread
  <2>9. Destination(code, t.to) = LabelRow(code, t.to)
    BY <1>1, <2>8, DestinationPlace
  <2>10. ~taken => t.op # "JUMP"
    BY DEF MayTurn
  <2>11. to \in DOMAIN code => ~code[to].filler
    BY <1>3, <1>11, RowEntered
  <2> HIDE DEF to, c, g, h, s, fill
  <2>12. CASE ~FilledAt(code, p)
    <3>1. g = a.regs /\ h = b.regs /\ StoresInSlot(B, b) = s
      BY <1>4, <2>3, <2>12 DEF RegsInSlot, StoresInSlot, g, h, s
    <3>2. to \in D \cup {Len(code) + 1}
      <4>1. Transfers(p) /\ Branch(p) = t
        BY <1>3, <1>11, <2>12 DEF Transfers, Branch, Filled, FilledAt
      <4>2. LabelRow(code, t.to) \in Successors(p)
        BY <4>1 DEF Successors
      <4>3. ~taken /\ p + 1 \in 1 .. Len(code) => p + 1 \in Successors(p)
        BY <1>1, <2>10, <4>1 DEF Successors, Below
      <4>4. to = IF taken THEN LabelRow(code, t.to) ELSE p + 1
        BY <2>8, <2>9, <2>12 DEF WhereTo, to
      <4>5. p + 1 \in 1 .. Len(code) \/ p + 1 = Len(code) + 1
        BY <1>1, <1>3
      <4> QED
        BY <2>7, <4>2, <4>3, <4>4, <4>5
    <3>3. Apart(i, D, Turned(code, a, taken), Turned(B, b, taken))
      BY <1>4, <2>2, <2>3, <2>4, <2>11, <3>1, <3>2 DEF Apart
    <3>4. <<Step(code, a, taken), Step(B, b, taken)>> \in DeadPairs(i, D)
      BY <1>4, <1>5, <1>11, <2>2, <2>4, <3>3, PairedIn DEF Step, Paired
    <3> QED
      BY <1>4, <1>5, <1>8, <3>4 DEF Follows
  <2>13. CASE FilledAt(code, p)
    <3>1. /\ g = RegsAfter(a.regs, a.stores, fill) /\ h = RegsAfter(b.regs, a.stores, fill)
          /\ s = StoresAfter(a.regs, a.stores, fill)
          /\ StoresInSlot(B, b) = StoresAfter(b.regs, a.stores, fill)
      BY <1>4, <2>3, <2>5, <2>13 DEF RegsInSlot, StoresInSlot, g, h, s, fill
    <3>2. p + 1 \in D
      <4>1. ~Transfers(p)
        BY <1>3, <2>13 DEF Transfers, Filled, FilledAt
      <4>2. p + 1 \in Successors(p)
        BY <1>1, <2>5, <2>13, <4>1 DEF Successors, Below
      <4> QED
        BY <2>7, <4>2
    <3>3. r \notin Reads(fill) /\ (r \notin Writes(fill) => Successors(p + 1) \subseteq D)
      BY <3>2 DEF Unread, fill
    <3>4. AgreeBut(r, g, h) /\ (r = fill.dst => g = h) /\ s = StoresInSlot(B, b)
      BY <1>4, <1>7, <2>5, <2>13, <3>1, <3>3, AgreeAfter
    <3>5. CASE r \in Writes(fill)
      <4>1. r = fill.dst
        BY <3>5 DEF Writes
      <4>2. Turned(B, b, taken) = Turned(code, a, taken)
        BY <2>2, <2>4, <3>4, <4>1
      <4>3. Same(i, Turned(code, a, taken), Turned(B, b, taken))
        BY <2>2, <2>3, <4>2 DEF Same
      <4>4. <<Step(code, a, taken), Step(B, b, taken)>> \in DeadPairs(i, D)
        BY <1>4, <1>5, <1>11, <2>2, <2>4, <4>3, PairedIn DEF Step, Paired
      <4> QED
        BY <1>4, <1>5, <1>8, <4>4 DEF Follows
    <3>6. CASE r \notin Writes(fill)
      <4>1. to \in D \cup {Len(code) + 1}
        <5>1. Transfers(p + 1) /\ Branch(p + 1) = t
          <6>1. (p + 1) - 1 = p
            BY <1>7
          <6> QED
            BY <2>5, <2>13, <6>1 DEF Transfers, Branch, fill
        <5>2. LabelRow(code, t.to) \in Successors(p + 1)
          BY <5>1 DEF Successors
        <5>3. ~taken /\ p + 2 \in 1 .. Len(code) => p + 2 \in Successors(p + 1)
          <6>1. (p + 1) + 1 = p + 2
            BY <1>7
          <6> QED
            BY <1>1, <2>10, <5>1, <6>1 DEF Successors, Below
        <5>4. to = IF taken THEN LabelRow(code, t.to) ELSE p + 2
          BY <2>8, <2>9, <2>13 DEF WhereTo, to
        <5>5. p + 2 \in 1 .. Len(code) \/ p + 2 = Len(code) + 1
          BY <1>1, <1>3, <2>5, <2>13
        <5> QED
          BY <3>3, <3>6, <5>2, <5>3, <5>4, <5>5
      <4>2. Apart(i, D, Turned(code, a, taken), Turned(B, b, taken))
        BY <1>4, <2>2, <2>3, <2>4, <2>11, <3>4, <4>1 DEF Apart
      <4>3. <<Step(code, a, taken), Step(B, b, taken)>> \in DeadPairs(i, D)
        BY <1>4, <1>5, <1>11, <2>2, <2>4, <4>2, PairedIn DEF Step, Paired
      <4> QED
        BY <1>4, <1>5, <1>8, <4>3 DEF Follows
    <3> QED
      BY <3>5, <3>6
  <2> QED
    BY <2>12, <2>13
<1> QED
  BY <1>10, <1>11

LEMMA RaiseFollows ==
  ASSUME NEW B, NEW i, NEW D, Listed(code), Raised(B, i), Unread(i, D)
  PROVE  Implements(code, B)
<1> DEFINE R == DeadPairs(i, D)
<1>1. /\ code \in Seq(Token) /\ Len(code) \in Nat /\ DOMAIN code = 1 .. Len(code)
      /\ B \in Seq(Token) /\ Len(B) = Len(code)
  BY DEF Listed, Raised
<1>2. i \in Nat /\ 1 <= i /\ i < Len(code) /\ D \subseteq 1 .. Len(code)
  BY <1>1 DEF Unread
<1>3. \A x \in Machine, y \in Machine : <<x, y>> \in R <=> Paired(i, D, x, y)
  BY DEF DeadPairs
<1>4. R \in SUBSET (Machine \X Machine)
  BY DEF DeadPairs
<1>5. <<Start, Start>> \in R
  <2>1. Same(i, Start, Start)
    BY <1>1, <1>2 DEF Same, Start
  <2> QED
    BY <2>1, StartTyped, PairedIn DEF Paired
<1>6. ASSUME NEW a \in Machine, NEW b \in Machine, Paired(i, D, a, b)
      PROVE  /\ Agrees(code, B, a, b)
             /\ \A taken \in BOOLEAN :
                  ~Ended(code, a) /\ MayTurn(code, a, taken) => Follows(code, B, R, a, b, taken)
  <2>1. Agrees(code, B, a, b)
    <3>1. CASE Same(i, a, b)
      BY <1>1, <3>1 DEF Same, Agrees, Ended
    <3>2. CASE Late(i, a, b)
      <4>1. a.pc \in 1 .. Len(code) + 1 /\ b.pc \in 1 .. Len(code) + 1 /\ ~(a.pc > Len(code))
        BY <1>1, <1>2, <3>2 DEF Late
      <4> QED
        BY <1>1, <3>2, <4>1 DEF Late, Agrees, Ended
    <3>3. CASE Apart(i, D, a, b)
      <4>1. a.pc \in 1 .. Len(code) + 1
        <5>1. a.pc \in D \/ a.pc = Len(code) + 1
          BY <3>3 DEF Apart
        <5>2. a.pc \in 1 .. Len(code) \/ a.pc = Len(code) + 1
          BY <1>2, <5>1
        <5> QED
          BY <1>1, <5>2
      <4> QED
        BY <1>1, <3>3, <4>1 DEF Apart, Agrees, Ended
    <3> QED
      BY <1>6, <3>1, <3>2, <3>3 DEF Paired
  <2>2. ASSUME NEW taken \in BOOLEAN, ~Ended(code, a), MayTurn(code, a, taken)
        PROVE  Follows(code, B, R, a, b, taken)
    <3>1. CASE Same(i, a, b) /\ a.pc # i
      BY <2>2, <3>1, SameStep
    <3>2. CASE Late(i, a, b)
      BY <2>2, <3>2, LateStep
    <3>3. CASE (Same(i, a, b) \/ Apart(i, D, a, b)) /\ a.pc = i
      BY <2>2, <3>3, ForkStep
    <3>4. CASE Apart(i, D, a, b) /\ a.pc # i
      BY <2>2, <3>4, ApartStep
    <3> QED
      BY <1>6, <3>1, <3>2, <3>3, <3>4 DEF Paired
  <2> QED
    BY <2>1, <2>2
<1> HIDE DEF R
<1>7. Simulation(code, B, R)
  BY <1>3, <1>4, <1>5, <1>6 DEF Simulation
<1> QED
  BY <1>7 DEF Implements


(* What a lowered store is, whatever it stores.                               *)
LEMMA PreIncrementSinks ==
  ASSUME NEW A, Listed(A), NEW i \in 3 .. Len(A),
         A[i].op \in {"BRANCH", "JUMP"}, ~FilledAt(A, i), PlainStore(A[i - 2]), SelfAdd(A[i - 1])
  PROVE  Sinks(A, i - 2, i, Filler(OffsetLowered(A[i - 2], A[i - 1].imm)))
<1> DEFINE x == A[i - 2]
           v == x.imm - A[i - 1].imm
           y == OffsetLowered(x, A[i - 1].imm)
<1>1. A \in Seq(Token) /\ Len(A) \in Nat /\ DOMAIN A = 1 .. Len(A)
  BY DEF Listed
<1>2. i \in 1 .. Len(A) /\ i - 2 \in DOMAIN A /\ i - 1 \in DOMAIN A /\ i - 2 \in 1 .. i - 1
      /\ (i - 2) + 1 = i - 1
  BY <1>1
<1>3. Fine(x) /\ Fine(A[i - 1]) /\ x.op = "STORE" /\ ~x.filler /\ A[i - 1].op = "ADD" /\ ~A[i - 1].filler
  BY <1>2 DEF Listed, PlainStore, SelfAdd
<1>4. v \in Int /\ x \in Token /\ x.dst = 0 /\ Len(x.from) = 2
  <2>1. x.imm \in Int /\ A[i - 1].imm \in Int
    BY <1>3, TokenOperands
  <2> QED
    BY <1>3, <2>1 DEF Fine
<1>5. y = [x EXCEPT !.imm = v]
  BY DEF OffsetLowered
<1> HIDE DEF x, y, v
<1>6. y \in Token /\ y.op = "STORE" /\ y.dst = 0 /\ y.from = x.from
  BY <1>3, <1>4, <1>5 DEF Token
<1>7. Fine(y)
  BY <1>4, <1>6 DEF Fine
<1>8. Fine(Filler(y)) /\ Filler(y).op = "STORE" /\ Filler(y).filler
  BY <1>6, <1>7, FillerSame
<1>9. \A k \in (i - 2) + 1 .. i - 1 : k = i - 1
  BY <1>2
<1>10. A[i - 2] = x
  BY DEF x
<1>11. Sinks(A, i - 2, i, Filler(y))
  BY <1>2, <1>3, <1>8, <1>9, <1>10 DEF Sinks, Works
<1> QED
  BY <1>11 DEF x, y

-----------------------------------------------------------------------------
(* The passes *)

Passes == {"pre", "fill", "dead", "source", "output", "done"}

(* The list is one whose fillers stand behind branches, and what is no filler *)
(* is as the program has it.                                                  *)
Swept ==
  /\ program \in Programs
  /\ Listed(code)
  /\ \A k \in DOMAIN code : ~code[k].filler => \E l \in DOMAIN program : code[k] = program[l]
  /\ pass \in Passes
  /\ cursor \in Nat \ {0}

LEMMA ProgramListed ==
  ASSUME NEW list \in Programs
  PROVE  Listed(list)
<1>1. list \in Seq(Token)
  BY ProgramAssumption
<1>2. \A i \in DOMAIN list : list[i] \in Token
  BY <1>1
<1>3. \A i \in DOMAIN list : Fine(list[i]) /\ ~list[i].filler
  BY <1>2, OperandAssumption DEF Fine
<1> QED
  BY <1>1, <1>3 DEF Listed, Sunk

(* A token of the list as it is was a token of the program.                   *)
LEMMA TokensKept ==
  ASSUME Swept, NEW B, \A k \in DOMAIN B : ~B[k].filler => \E l \in DOMAIN code : B[k] = code[l]
  PROVE  \A k \in DOMAIN B : ~B[k].filler => \E l \in DOMAIN program : B[k] = program[l]
BY DEF Swept

LEMMA SunkCode ==
  ASSUME Swept, NEW j, NEW f, Sinks(code, j, cursor, f), Sink(j, f)
  PROVE  Swept' /\ Moved(code, code', j, cursor, f)
<1>1. Listed(code) /\ code \in Seq(Token)
  BY DEF Swept, Listed
<1>2. cursor \in 1 .. Len(code) /\ j \in 1 .. cursor - 1 /\ f \in Token
  BY DEF Sinks, Fine
<1> DEFINE B == InsertAt(RemoveAt(code, j), cursor, f)
<1>3. Moved(code, B, j, cursor, f)
  BY <1>1, <1>2, SinkMoves
<1>4. code' = B /\ UNCHANGED <<program, pass, cursor>>
  BY DEF Sink
<1> HIDE DEF B
<1>5. Listed(B) /\ \A k \in DOMAIN B : ~B[k].filler => \E l \in DOMAIN code : B[k] = code[l]
  BY <1>1, <1>3, SinkListed
<1>6. \A k \in DOMAIN B : ~B[k].filler => \E l \in DOMAIN program : B[k] = program[l]
  BY <1>5, TokensKept
<1>7. Swept'
  BY <1>4, <1>5, <1>6 DEF Swept
<1> QED
  BY <1>3, <1>4, <1>7

(* What each sinking action takes and puts.                                   *)
LEMMA PreIncrementShape ==
  ASSUME Swept, SinkPreIncrementStore
  PROVE  /\ cursor \in 3 .. Len(code) /\ code[cursor].op \in {"BRANCH", "JUMP"}
         /\ ~FilledAt(code, cursor) /\ PlainStore(code[cursor - 2]) /\ SelfAdd(code[cursor - 1])
         /\ code[cursor - 2].from[1] = code[cursor - 1].dst
         /\ Sink(cursor - 2, Filler(OffsetLowered(code[cursor - 2], code[cursor - 1].imm)))
<1>1. Len(code) \in Nat /\ cursor \in Nat
  BY DEF Swept, Listed
<1> QED
  BY <1>1 DEF SinkPreIncrementStore, PreIncrementStore, StoreAboveIncrement, AtBranch, Filled, FilledAt

LEMMA IndependentShape ==
  ASSUME Swept, SinkIndependentStore
  PROVE  /\ \E left : Sinkable(code, cursor - 2, cursor, Filler(code[cursor - 2]), left)
         /\ Sink(cursor - 2, Filler(code[cursor - 2]))
<1>1. Len(code) \in Nat /\ cursor \in Nat /\ Listed(code)
  BY DEF Swept, Listed
<1>2. /\ cursor \in 3 .. Len(code) /\ code[cursor].op \in {"BRANCH", "JUMP"}
      /\ ~FilledAt(code, cursor) /\ PlainStore(code[cursor - 2]) /\ SelfAdd(code[cursor - 1])
      /\ code[cursor - 1].dst \notin Reads(code[cursor - 2])
      /\ Sink(cursor - 2, Filler(code[cursor - 2]))
  BY <1>1 DEF SinkIndependentStore, IndependentStore, StoreAboveIncrement, AtBranch, Filled, FilledAt
<1> QED
  BY <1>1, <1>2, IndependentSinkable

LEMMA CandidateShape ==
  ASSUME Swept, SinkCandidate
  PROVE  \E j : /\ \E left : Sinkable(code, j, cursor, Filler(code[j]), left)
                /\ Sink(j, Filler(code[j]))
<1>1. Len(code) \in Nat /\ cursor \in Nat \ {0} /\ Listed(code)
  BY DEF Swept, Listed
<1>2. /\ cursor \in 1 .. Len(code) /\ code[cursor].op \in {"BRANCH", "JUMP"}
      /\ ~FilledAt(code, cursor) /\ Candidates(cursor) # {}
  BY <1>1 DEF SinkCandidate, AtBranch, Filled, FilledAt
<1> DEFINE C == Candidates(cursor)
<1>3. C \subseteq 1 .. cursor - 1
  <2>1. CASE cursor > 1 /\ FitsSlot(cursor - 1, cursor)
    <3>1. C = {cursor - 1}
      BY <2>1 DEF Candidates
    <3>2. cursor - 1 \in 1 .. cursor - 1
      BY <1>1, <2>1
    <3> QED
      BY <3>1, <3>2
  <2>2. CASE ~(cursor > 1 /\ FitsSlot(cursor - 1, cursor))
    <3>1. C \subseteq 1 .. cursor - 2
      BY <2>2 DEF Candidates
    <3>2. 1 .. cursor - 2 \subseteq 1 .. cursor - 1
      BY <1>1
    <3> QED
      BY <3>1, <3>2
  <2> QED
    BY <2>1, <2>2
<1>4. \A j \in C : /\ FitsSlot(j, cursor)
                   /\ \A k \in j + 1 .. cursor - 1 : CanSinkBelow(code[j], code[k])
  <2>1. CASE cursor > 1 /\ FitsSlot(cursor - 1, cursor)
    <3>1. C = {cursor - 1}
      BY <2>1 DEF Candidates
    <3>2. (cursor - 1) + 1 .. cursor - 1 = {}
      BY <1>1
    <3> QED
      BY <2>1, <3>1, <3>2
  <2>2. CASE ~(cursor > 1 /\ FitsSlot(cursor - 1, cursor))
    BY <2>2 DEF Candidates
  <2> QED
    BY <2>1, <2>2
<1> DEFINE j == CHOOSE j \in C : \A k \in C : k <= j
<1>5. C # {}
  BY <1>2
<1>6. Sink(j, Filler(code[j]))
  BY DEF SinkCandidate
<1> HIDE DEF C
<1>7. \E l \in C : \A k \in C : k <= l
  <2>1. cursor - 1 \in Nat
    BY <1>1
  <2>2. C \in SUBSET (1 .. cursor - 1)
    BY <1>3
  <2>3. \E x \in C : \A y \in C : x >= y
    <3> DEFINE back == {(cursor - 1) - x : x \in C}
    <3>1. \A x \in C : x \in Int /\ x <= cursor - 1 /\ (cursor - 1) - x \in Nat
      BY <2>1, <2>2
    <3>2. back \in SUBSET Nat /\ back # {}
      BY <1>5, <3>1
    <3>3. PICK b \in back : \A k \in back : b <= k
      BY <3>2, LeastNumber
    <3>4. PICK x \in C : b = (cursor - 1) - x
      BY <3>3
    <3>5. ASSUME NEW y \in C PROVE x >= y
      <4>1. (cursor - 1) - y \in back
        OBVIOUS
      <4>2. b <= (cursor - 1) - y
        BY <3>3, <4>1
      <4> QED
        BY <2>1, <3>1, <3>4, <4>2
    <3> QED
      BY <3>5
  <2>4. \A x \in C : x \in Int
    BY <2>2
  <2> QED
    BY <2>3, <2>4
<1>8. j \in C
  BY <1>7
<1> HIDE DEF j
<1>9. /\ j \in 1 .. cursor - 1 /\ code[j].op = "ADD" /\ ~code[j].filler
      /\ Writes(code[j]) \cap Reads(code[cursor]) = {}
      /\ \A k \in j + 1 .. cursor - 1 : CanSinkBelow(code[j], code[k])
  BY <1>3, <1>4, <1>8 DEF FitsSlot
<1>10. \E left : Sinkable(code, j, cursor, Filler(code[j]), left)
  BY <1>1, <1>2, <1>9, CandidateSinkable
<1> QED
  BY <1>6, <1>10

LEMMA RaiseShape ==
  ASSUME Swept, RaiseDeadFallthrough
  PROVE  /\ \E D : Unread(cursor, D)
         /\ Raised(code', cursor)
         /\ UNCHANGED <<program, pass, cursor>>
<1> DEFINE r == code[cursor + 1].dst
           target == LabelRow(code, code[cursor].to)
           D == Reached(r, target)
<1>1. Len(code) \in Nat /\ cursor \in Nat \ {0} /\ Listed(code) /\ code \in Seq(Token)
      /\ DOMAIN code = 1 .. Len(code)
  BY DEF Swept, Listed
<1>2. /\ cursor \in 1 .. Len(code) /\ cursor < Len(code)
      /\ code[cursor].op = "BRANCH" /\ ~FilledAt(code, cursor) /\ code[cursor + 1].op = "ADD"
      /\ HasLabel(code, code[cursor].to)
      /\ DeadOnEveryPath(r, target)
      /\ code' = [code EXCEPT ![cursor + 1] = Filler(@)]
      /\ UNCHANGED <<program, pass, cursor>>
  BY <1>1 DEF RaiseDeadFallthrough, DeadFallthrough, AtBranch, Filled, FilledAt
<1>3. \A k \in 1 .. Len(code) :
        HasDelaySlot(code[k]) => code[k].op # "RETURN" /\ HasLabel(code, code[k].to)
  BY <1>1, <1>2 DEF DeadOnEveryPath
<1>4. \A k \in D : r \notin Reads(code[k])
  BY <1>2 DEF DeadOnEveryPath
<1>5. target \in 1 .. Len(code)
  BY <1>1, <1>2, DestinationPlace
<1>6. \A k \in 1 .. Len(code) : Successors(k) \subseteq 1 .. Len(code)
  BY <1>1, <1>3, SuccessorsInside
<1> HIDE DEF r, target
<1>7. /\ target \in D /\ D \subseteq 1 .. Len(code)
      /\ \A k \in D : r \notin Reads(code[k]) \cup Writes(code[k]) => Successors(k) \subseteq D
  BY <1>1, <1>5, <1>6, ReachedClosed
<1> HIDE DEF D
<1>8. \A k \in D : r \notin Reads(code[k]) /\ (r \notin Writes(code[k]) => Successors(k) \subseteq D)
  BY <1>4, <1>7
<1>9. Unread(cursor, D)
  BY <1>2, <1>3, <1>7, <1>8 DEF Unread, r, target
<1>10. Raised(code', cursor)
  BY <1>1, <1>2, RaiseMoves
<1> QED
  BY <1>2, <1>9, <1>10


LEMMA SweptStart ==
  ASSUME Init
  PROVE  Swept
<1>1. program \in Programs /\ code = program /\ pass \in Passes /\ cursor \in Nat \ {0}
  BY DEF Init, Passes
<1>2. Listed(code)
  BY <1>1, ProgramListed
<1> QED
  BY <1>1, <1>2 DEF Swept

LEMMA SweptStep ==
  ASSUME Swept, [Next]_vars
  PROVE  Swept'
<1>1. CASE SinkPreIncrementStore
  <2>1. Sinks(code, cursor - 2, cursor, Filler(OffsetLowered(code[cursor - 2], code[cursor - 1].imm)))
    BY <1>1, PreIncrementShape, PreIncrementSinks DEF Swept
  <2> QED
    BY <1>1, <2>1, PreIncrementShape, SunkCode
<1>2. CASE SinkIndependentStore
  <2>1. Sinks(code, cursor - 2, cursor, Filler(code[cursor - 2]))
    BY <1>2, IndependentShape DEF Sinkable
  <2> QED
    BY <1>2, <2>1, IndependentShape, SunkCode
<1>3. CASE SinkCandidate
  <2>1. PICK j : /\ \E left : Sinkable(code, j, cursor, Filler(code[j]), left)
                 /\ Sink(j, Filler(code[j]))
    BY <1>3, CandidateShape
  <2>2. Sinks(code, j, cursor, Filler(code[j]))
    BY <2>1 DEF Sinkable
  <2> QED
    BY <2>1, <2>2, SunkCode
<1>4. CASE RaiseDeadFallthrough
  <2>1. PICK D : Unread(cursor, D)
    BY <1>4, RaiseShape
  <2>2. Raised(code', cursor) /\ UNCHANGED <<program, pass, cursor>>
    BY <1>4, RaiseShape
  <2> DEFINE B == code'
  <2>3. Listed(B) /\ \A k \in DOMAIN B : ~B[k].filler => \E l \in DOMAIN code : B[k] = code[l]
    BY <2>1, <2>2, RaisedListed DEF Swept
  <2>4. \A k \in DOMAIN B : ~B[k].filler => \E l \in DOMAIN program : B[k] = program[l]
    BY <2>3, TokensKept
  <2> QED
    BY <2>2, <2>3, <2>4 DEF Swept
<1>5. CASE PassOn
  BY <1>5 DEF Swept, PassOn
<1>6. CASE NextPass
  <2>1. pass' \in {"fill", "dead", "source"} /\ cursor' = 1 /\ UNCHANGED <<program, code>>
    BY <1>6 DEF NextPass, Passing
  <2> QED
    BY <2>1 DEF Swept, Passes
<1>7. CASE RunSource \/ RunOutput \/ UNCHANGED vars
  <2>1. UNCHANGED tokens
    BY <1>7 DEF RunSource, RunOutput, vars
  <2> QED
    BY <2>1 DEF Swept, tokens
<1>8. CASE NextRun
  <2>1. pass' \in {"output", "done"} /\ UNCHANGED <<program, code, cursor>>
    BY <1>8 DEF NextRun
  <2> QED
    BY <2>1 DEF Swept, Passes
<1> QED
  BY <1>1, <1>2, <1>3, <1>4, <1>5, <1>6, <1>7, <1>8 DEF Next

THEOREM SweptCorrect == Spec => []Swept
<1>1. Init => Swept
  BY SweptStart
<1>2. Swept /\ [Next]_vars => Swept'
  BY SweptStep
<1> QED
  BY <1>1, <1>2, PTL DEF Spec

(* A filler stands right behind a branch that has no other, whatever the      *)
(* passes have moved.                                                         *)
THEOREM FillersBehindBranchesCorrect == Spec => []FillersBehindBranches
<1>1. Swept => FillersBehindBranches
  BY DEF Swept, Listed, Sunk, FillersBehindBranches
<1> QED
  BY <1>1, SweptCorrect, PTL

-----------------------------------------------------------------------------
(* The list follows the program *)

(* The one store the passes move wrongly is the store of the register it is   *)
(* addressed by: its offset is lowered, and its value is not.                 *)
FollowsProgram == Implements(program, code)

LEMMA FollowsStep ==
  ASSUME StoresKeepBase, Swept, FollowsProgram, [Next]_vars
  PROVE  FollowsProgram'
<1>1. Listed(program) /\ Listed(code)
  BY ProgramListed DEF Swept
<1>2. ASSUME NEW j, NEW f, NEW left, Sinkable(code, j, cursor, f, left), Sink(j, f)
      PROVE  FollowsProgram'
  <2>1. Moved(code, code', j, cursor, f) /\ UNCHANGED program
    BY <1>2, SunkCode DEF Sinkable, Sink
  <2>2. Implements(code, code')
    BY <1>1, <1>2, <2>1, SinkFollows
  <2>3. Implements(program, code')
    BY <1>1, <2>2, FollowsOn DEF FollowsProgram
  <2> QED
    BY <2>1, <2>3 DEF FollowsProgram
<1>3. CASE SinkPreIncrementStore
  <2> DEFINE x == code[cursor - 2]
             t == code[cursor - 1]
  <2>1. /\ cursor \in 3 .. Len(code) /\ code[cursor].op \in {"BRANCH", "JUMP"}
        /\ ~FilledAt(code, cursor) /\ PlainStore(x) /\ SelfAdd(t) /\ x.from[1] = t.dst
        /\ Sink(cursor - 2, Filler(OffsetLowered(x, t.imm)))
    BY <1>3, PreIncrementShape
  <2>2. x.from[2] # t.dst
    <3>1. cursor - 2 \in DOMAIN code /\ cursor - 1 \in DOMAIN code
      BY <1>1, <2>1 DEF Listed
    <3>2. ~x.filler /\ ~t.filler
      BY <2>1 DEF PlainStore, SelfAdd
    <3>3. PICK k \in DOMAIN program : x = program[k]
      BY <3>1, <3>2 DEF Swept
    <3>4. PICK l \in DOMAIN program : t = program[l]
      BY <3>1, <3>2 DEF Swept
    <3> HIDE DEF x, t
    <3> QED
      BY <2>1, <3>3, <3>4 DEF StoresKeepBase, Swept
  <2>3. \E left : Sinkable(code, cursor - 2, cursor, Filler(OffsetLowered(x, t.imm)), left)
    BY <1>1, <2>1, <2>2, PreIncrementSinkable
  <2> QED
    BY <1>2, <2>1, <2>3
<1>4. CASE SinkIndependentStore
  BY <1>2, <1>4, IndependentShape
<1>5. CASE SinkCandidate
  BY <1>2, <1>5, CandidateShape
<1>6. CASE RaiseDeadFallthrough
  <2>1. PICK D : Unread(cursor, D)
    BY <1>6, RaiseShape
  <2>2. Raised(code', cursor) /\ UNCHANGED program
    BY <1>6, RaiseShape
  <2>3. Implements(code, code')
    BY <1>1, <2>1, <2>2, RaiseFollows
  <2>4. Implements(program, code')
    BY <1>1, <2>3, FollowsOn DEF FollowsProgram
  <2> QED
    BY <2>2, <2>4 DEF FollowsProgram
<1>7. CASE UNCHANGED <<program, code>>
  BY <1>7 DEF FollowsProgram
<1> QED
  BY <1>3, <1>4, <1>5, <1>6, <1>7
    DEF Next, PassOn, NextPass, RunSource, RunOutput, NextRun, vars, tokens

LEMMA FollowsStart ==
  ASSUME Init
  PROVE  FollowsProgram
BY ProgramListed, FollowsItself DEF Init, FollowsProgram


-----------------------------------------------------------------------------
(* Runs *)

Fit(list) == {m \in Machine : m.pc \in 1 .. Len(list) + 1}

Decided(list, ts, m) == HasDelaySlot(list[m.pc]) => Len(m.compared) < Len(ts)

(* What a run along the turns ts comes to from the machine m.                 *)
Closed(list, ts, S) ==
  \A m \in S : ~Ended(list, m) /\ Decided(list, ts, m)
                 => Step(list, m, ts[Len(m.compared) + 1]) \in S

From(list, ts, m) ==
  {x \in Fit(list) : \A S \in SUBSET Fit(list) : m \in S /\ Closed(list, ts, S) => x \in S}

Extends(m, x) == IsPrefix(m.stores, x.stores) /\ IsPrefix(m.compared, x.compared)

LEMMA StepFits ==
  ASSUME NEW list, Listed(list), NEW m \in Fit(list), ~Ended(list, m), NEW taken,
         HasDelaySlot(list[m.pc]) => taken \in BOOLEAN
  PROVE  /\ Step(list, m, taken) \in Fit(list)
         /\ m.pc \in DOMAIN list
         /\ Step(list, m, taken).stores \in {m.stores} \cup {Append(m.stores, e) : e \in Int \X Int}
         /\ Step(list, m, taken).compared
              = IF HasDelaySlot(list[m.pc]) THEN Append(m.compared, Compare(m.regs, list[m.pc]))
                                            ELSE m.compared
<1>1. list \in Seq(Token) /\ Len(list) \in Nat /\ DOMAIN list = 1 .. Len(list)
  BY DEF Listed
<1>2. m \in Machine /\ m.pc \in DOMAIN list
  BY <1>1 DEF Fit, Ended
<1>3. /\ m.pc \in Nat /\ m.regs \in File /\ m.stores \in Store /\ m.compared \in Seq(Seq(Int))
  BY <1>2, MachineParts
<1>4. ASSUME NEW t, Fine(t)
      PROVE  StoresAfter(m.regs, m.stores, t) \in {m.stores} \cup {Append(m.stores, e) : e \in Int \X Int}
  <2>1. t.op = "STORE" => Address(m.regs, t) \in Int /\ m.regs[t.from[2]] \in Int
    <3>1. t.op = "STORE" => t.from[1] \in Regs /\ t.from[2] \in Regs /\ t.imm \in Int
      BY <1>4, TokenOperands DEF Works
    <3> QED
      BY <1>3, <3>1 DEF Address, File
  <2> QED
    BY <2>1 DEF StoresAfter
<1>5. CASE HasDelaySlot(list[m.pc])
  <2>1. taken \in BOOLEAN
    BY <1>5
  <2>2. /\ Turned(list, m, taken) = [ pc |-> WhereTo(list, m.pc, taken),
                                      regs |-> RegsInSlot(list, m),
                                      stores |-> StoresInSlot(list, m),
                                      compared |-> Append(m.compared, Compare(m.regs, list[m.pc])) ]
        /\ Turned(list, m, taken) \in Machine
        /\ WhereTo(list, m.pc, taken) \in 1 .. Len(list) + 1
    BY <1>2, <2>1, TurnedParts
  <2>3. FilledAt(list, m.pc) => Fine(list[m.pc + 1])
    BY <1>1, <1>2 DEF FilledAt, Listed
  <2>4. StoresInSlot(list, m) \in {m.stores} \cup {Append(m.stores, e) : e \in Int \X Int}
    BY <1>4, <2>3 DEF StoresInSlot
  <2>5. Step(list, m, taken) = Turned(list, m, taken)
    BY <1>5 DEF Step
  <2> QED
    BY <1>2, <1>5, <2>2, <2>4, <2>5 DEF Fit
<1>6. CASE ~HasDelaySlot(list[m.pc])
  <2>1. /\ Straight(list, m) = [ pc |-> m.pc + 1,
                                 regs |-> RegsAfter(m.regs, m.stores, list[m.pc]),
                                 stores |-> StoresAfter(m.regs, m.stores, list[m.pc]),
                                 compared |-> m.compared ]
        /\ Straight(list, m) \in Machine
    BY <1>2, <1>6, StraightParts
  <2>2. m.pc + 1 \in 1 .. Len(list) + 1
    BY <1>1, <1>2
  <2>3. Fine(list[m.pc])
    BY <1>2 DEF Listed
  <2>4. Step(list, m, taken) = Straight(list, m)
    BY <1>6 DEF Step
  <2> QED
    BY <1>2, <1>4, <1>6, <2>1, <2>2, <2>3, <2>4 DEF Fit
<1> QED
  BY <1>5, <1>6

LEMMA TurnTyped ==
  ASSUME NEW ts \in Seq(BOOLEAN), NEW list, NEW m \in Machine, Decided(list, ts, m),
         HasDelaySlot(list[m.pc])
  PROVE  ts[Len(m.compared) + 1] \in BOOLEAN
<1>1. Len(m.compared) \in Nat /\ Len(m.compared) < Len(ts) /\ Len(ts) \in Nat
  BY MachineParts DEF Decided
<1> QED
  BY <1>1

LEMMA FromClosed ==
  ASSUME NEW list, Listed(list), NEW ts \in Seq(BOOLEAN), NEW m \in Fit(list)
  PROVE  m \in From(list, ts, m) /\ Closed(list, ts, From(list, ts, m))
<1>1. m \in From(list, ts, m)
  BY DEF From
<1>2. ASSUME NEW x \in From(list, ts, m), ~Ended(list, x), Decided(list, ts, x)
      PROVE  Step(list, x, ts[Len(x.compared) + 1]) \in From(list, ts, m)
  <2> DEFINE y == Step(list, x, ts[Len(x.compared) + 1])
  <2>1. x \in Fit(list) /\ x \in Machine
    BY DEF From, Fit
  <2>2. y \in Fit(list)
    BY <1>2, <2>1, TurnTyped, StepFits
  <2>3. ASSUME NEW S \in SUBSET Fit(list), m \in S, Closed(list, ts, S) PROVE y \in S
    <3>1. x \in S
      BY <2>3 DEF From
    <3> QED
      BY <1>2, <2>3, <3>1 DEF Closed
  <2> HIDE DEF y
  <2>4. y \in From(list, ts, m)
    BY <2>2, <2>3 DEF From
  <2> QED
    BY <2>4 DEF y
<1> QED
  BY <1>1, <1>2 DEF Closed

(* With one turn more a run comes to no less.                                 *)
LEMMA FromGrows ==
  ASSUME NEW list, Listed(list), NEW ts \in Seq(BOOLEAN), NEW taken \in BOOLEAN, NEW m, NEW x,
         x \in From(list, ts, m)
  PROVE  x \in From(list, Append(ts, taken), m)
<1> DEFINE us == Append(ts, taken)
<1>1. /\ Len(us) = Len(ts) + 1 /\ Len(ts) \in Nat
      /\ \A n \in 1 .. Len(ts) : us[n] = ts[n]
  OBVIOUS
<1> HIDE DEF us
<1>2. ASSUME NEW S \in SUBSET Fit(list), Closed(list, us, S) PROVE Closed(list, ts, S)
  <2> SUFFICES ASSUME NEW y \in S, ~Ended(list, y), Decided(list, ts, y)
               PROVE  Step(list, y, ts[Len(y.compared) + 1]) \in S
    BY DEF Closed
  <2>1. y \in Machine /\ Len(y.compared) \in Nat
    <3>1. y \in Machine
      BY DEF Fit
    <3> QED
      BY <3>1, MachineParts
  <2>2. Decided(list, us, y)
    BY <1>1, <2>1 DEF Decided
  <2>3. Step(list, y, us[Len(y.compared) + 1]) \in S
    BY <1>2, <2>2 DEF Closed
  <2>4. CASE HasDelaySlot(list[y.pc])
    <3>1. Len(y.compared) + 1 \in 1 .. Len(ts)
      BY <1>1, <2>1, <2>4 DEF Decided
    <3> QED
      BY <1>1, <2>3, <3>1
  <2>5. CASE ~HasDelaySlot(list[y.pc])
    BY <2>3, <2>5 DEF Step
  <2> QED
    BY <2>4, <2>5
<1>3. x \in From(list, us, m)
  BY <1>2 DEF From
<1> QED
  BY <1>3 DEF us

(* Where a run comes to, it has stored and compared what it had before.       *)
LEMMA FromExtends ==
  ASSUME NEW list, Listed(list), NEW ts \in Seq(BOOLEAN), NEW m \in Fit(list),
         NEW x \in From(list, ts, m)
  PROVE  Extends(m, x)
<1> DEFINE S == {y \in Fit(list) : Extends(m, y)}
<1>1. \A y \in Fit(list) : y.stores \in Store /\ y.compared \in Seq(Seq(Int)) /\ y \in Machine
                           /\ y.regs \in File
  BY MachineParts DEF Fit
<1>2. m \in S
  BY <1>1, PrefixSelf DEF Extends, Store
<1>3. ASSUME NEW y \in S, ~Ended(list, y), Decided(list, ts, y)
      PROVE  Step(list, y, ts[Len(y.compared) + 1]) \in S
  <2> DEFINE z == Step(list, y, ts[Len(y.compared) + 1])
  <2>1. y \in Fit(list) /\ y \in Machine /\ Extends(m, y)
    BY <1>1
  <2>2. /\ z \in Fit(list)
        /\ z.stores \in {y.stores} \cup {Append(y.stores, e) : e \in Int \X Int}
        /\ z.compared = IF HasDelaySlot(list[y.pc]) THEN Append(y.compared, Compare(y.regs, list[y.pc]))
                                                    ELSE y.compared
    BY <1>3, <2>1, TurnTyped, StepFits
  <2> HIDE DEF z
  <2>3. IsPrefix(m.stores, z.stores)
    <3>1. IsPrefix(m.stores, y.stores)
      BY <2>1 DEF Extends
    <3>2. ASSUME NEW e \in Int \X Int PROVE IsPrefix(m.stores, Append(y.stores, e))
      BY <1>1, <2>1, <3>1, PrefixAppend DEF Store
    <3> QED
      BY <2>2, <3>1, <3>2
  <2>4. IsPrefix(m.compared, z.compared)
    <3>1. IsPrefix(m.compared, y.compared)
      BY <2>1 DEF Extends
    <3>2. CASE HasDelaySlot(list[y.pc])
      <4> DEFINE e == Compare(y.regs, list[y.pc])
      <4>1. z.compared \in Seq(Seq(Int)) /\ z.compared = Append(y.compared, e)
        BY <1>1, <2>2, <3>2
      <4>2. e \in Seq(Int)
        <5>1. Len(y.compared) \in Nat /\ Append(y.compared, e)[Len(y.compared) + 1] = e
              /\ Len(Append(y.compared, e)) = Len(y.compared) + 1
          <6>1. y.compared \in Seq(Seq(Int))
            BY <1>1, <2>1
          <6> HIDE DEF e
          <6> QED
            BY <6>1
        <5> HIDE DEF e
        <5> QED
          BY <4>1, <5>1
      <4> HIDE DEF e
      <4>3. IsPrefix(m.compared, Append(y.compared, e))
        BY <1>1, <2>1, <3>1, <4>2, PrefixAppend
      <4> QED
        BY <4>1, <4>3
    <3>3. CASE ~HasDelaySlot(list[y.pc])
      BY <2>2, <3>1, <3>3
    <3> QED
      BY <3>2, <3>3
  <2>5. z \in S
    BY <2>2, <2>3, <2>4 DEF Extends
  <2> QED
    BY <2>5 DEF z
<1>4. Closed(list, ts, S)
  BY <1>3 DEF Closed
<1> HIDE DEF S
<1>5. x \in S
  <2>1. S \in SUBSET Fit(list)
    BY DEF S
  <2> QED
    BY <1>2, <1>4, <2>1 DEF From
<1> QED
  BY <1>5 DEF S

(* A run that has come to its end comes to nothing else; and before, what it  *)
(* comes to is itself or behind its next step.                                *)
LEMMA FromEnd ==
  ASSUME NEW list, NEW ts, NEW m \in Fit(list), Ended(list, m) \/ ~Decided(list, ts, m),
         NEW x \in From(list, ts, m)
  PROVE  x = m
<1>1. {m} \in SUBSET Fit(list) /\ Closed(list, ts, {m})
  BY DEF Closed
<1> QED
  BY <1>1 DEF From

LEMMA FromNext ==
  ASSUME NEW list, Listed(list), NEW ts \in Seq(BOOLEAN), NEW m \in Fit(list),
         NEW n \in Fit(list), n = Step(list, m, ts[Len(m.compared) + 1]),
         NEW x \in From(list, ts, m), x # m
  PROVE  x \in From(list, ts, n)
<1> DEFINE S == {m} \cup From(list, ts, n)
<1>1. n \in From(list, ts, n) /\ Closed(list, ts, From(list, ts, n))
  BY FromClosed
<1>2. Closed(list, ts, S)
  BY <1>1 DEF Closed
<1>3. S \in SUBSET Fit(list)
  BY DEF From
<1>4. x \in S
  BY <1>2, <1>3 DEF From
<1> QED
  BY <1>4


-----------------------------------------------------------------------------
(* The execution is preserved *)

(* While the source runs, the list could have come along with it; while the   *)
(* list runs, it has yet to come to an end that stored and compared the same. *)
Beside(p, c, ts, s) ==
  \E R, b : /\ Simulation(p, c, R)
            /\ b \in From(c, ts, Start)
            /\ <<s, b>> \in R
            /\ Len(s.compared) = Len(ts)

Behind(c, ts, s, o) ==
  /\ o \in Fit(c)
  /\ \E b \in From(c, ts, o) : Ended(c, b) /\ b.stores = s.stores /\ b.compared = s.compared

Course ==
  /\ turns \in Seq(BOOLEAN)
  /\ pass \in {"pre", "fill", "dead", "source"} => output = Start
  /\ pass \in {"pre", "fill", "dead"} => source = Start /\ turns = <<>>
  /\ pass = "source" => Beside(program, code, turns, source)
  /\ pass = "output" => Behind(code, turns, source, output)
  /\ pass = "done" => output.stores = source.stores /\ output.compared = source.compared

LEMMA StartFits ==
  ASSUME NEW list, Listed(list)
  PROVE  Start \in Fit(list)
<1>1. Len(list) \in Nat
  BY DEF Listed
<1>2. Start.pc = 1
  BY DEF Start
<1> QED
  BY <1>1, <1>2, StartTyped DEF Fit

LEMMA BesideStart ==
  ASSUME NEW p, NEW c, Listed(c), Implements(p, c)
  PROVE  Beside(p, c, <<>>, Start)
<1>1. PICK R : Simulation(p, c, R)
  BY DEF Implements
<1> DEFINE ts == <<>>
<1>2. ts \in Seq(BOOLEAN) /\ Len(ts) = 0
  OBVIOUS
<1>3. Start.compared = <<>> /\ Len(Start.compared) = 0
  BY DEF Start
<1> HIDE DEF ts
<1>4. Start \in From(c, ts, Start)
  BY <1>2, StartFits, FromClosed
<1>5. <<Start, Start>> \in R
  BY <1>1 DEF Simulation
<1>6. Beside(p, c, ts, Start)
  BY <1>1, <1>2, <1>3, <1>4, <1>5 DEF Beside
<1> QED
  BY <1>6 DEF ts

(* A step of the source: the list comes along, or has it still to do.         *)
LEMMA BesideStep ==
  ASSUME NEW p, NEW c, Listed(p), Listed(c), NEW ts \in Seq(BOOLEAN), NEW s, Beside(p, c, ts, s),
         ~Ended(p, s), NEW taken \in BOOLEAN, MayTurn(p, s, taken),
         NEW us, us = IF HasDelaySlot(p[s.pc]) THEN Append(ts, taken) ELSE ts
  PROVE  Beside(p, c, us, Step(p, s, taken))
<1>1. PICK R, b : /\ Simulation(p, c, R)
                  /\ b \in From(c, ts, Start)
                  /\ <<s, b>> \in R
                  /\ Len(s.compared) = Len(ts)
  BY DEF Beside
<1>2. s \in Machine /\ b \in Machine
  BY <1>1 DEF Simulation
<1>3. Agrees(p, c, s, b) /\ Follows(p, c, R, s, b, taken)
  BY <1>1, <1>2 DEF Simulation
<1>4. s.pc \in 1 .. Len(p) + 1 /\ s.compared = b.compared
  BY <1>3 DEF Agrees
<1>5. s \in Fit(p)
  BY <1>2, <1>4 DEF Fit
<1> DEFINE n == Step(p, s, taken)
<1>6. n.compared = IF HasDelaySlot(p[s.pc]) THEN Append(s.compared, Compare(s.regs, p[s.pc]))
                                            ELSE s.compared
  BY <1>5, StepFits
<1>7. s.compared \in Seq(Seq(Int)) /\ n \in Machine
  <2>1. n \in Fit(p)
    BY <1>5, StepFits
  <2> QED
    BY <1>2, <2>1, MachineParts DEF Fit
<1> HIDE DEF n
<1>8. us \in Seq(BOOLEAN) /\ Len(n.compared) = Len(us)
  <2>1. CASE HasDelaySlot(p[s.pc])
    <3> DEFINE e == Compare(s.regs, p[s.pc])
    <3> HIDE DEF e
    <3>1. us = Append(ts, taken) /\ n.compared = Append(s.compared, e)
      BY <1>6, <2>1 DEF e
    <3>2. Len(Append(s.compared, e)) = Len(s.compared) + 1
      BY <1>7
    <3> DEFINE vs == Append(ts, taken)
    <3>3. vs \in Seq(BOOLEAN) /\ Len(vs) = Len(ts) + 1
      BY Longer, Zenon
    <3> HIDE DEF vs
    <3>4. us = vs
      BY <2>1 DEF vs
    <3>5. us \in Seq(BOOLEAN) /\ Len(us) = Len(ts) + 1
      BY <3>3, <3>4
    <3> QED
      BY <1>1, <3>1, <3>2, <3>5
  <2>2. CASE ~HasDelaySlot(p[s.pc])
    BY <1>1, <1>6, <2>2
  <2> QED
    BY <2>1, <2>2
<1>9. b \in From(c, us, Start)
  BY <1>1, FromGrows
<1>10. CASE ~HasDelaySlot(p[s.pc]) /\ <<n, b>> \in R
  BY <1>1, <1>8, <1>9, <1>10 DEF Beside, n
<1>11. CASE /\ ~Ended(c, b) /\ p[s.pc].op = c[b.pc].op
            /\ <<n, Step(c, b, taken)>> \in R
  <2>1. HasDelaySlot(p[s.pc]) <=> HasDelaySlot(c[b.pc])
    BY <1>11 DEF HasDelaySlot
  <2>2. Len(b.compared) = Len(ts) /\ Len(ts) \in Nat
    BY <1>1, <1>4
  <2>3. Decided(c, us, b)
    <3>1. HasDelaySlot(p[s.pc]) => Len(us) = Len(ts) + 1
      OBVIOUS
    <3> QED
      BY <2>1, <2>2, <3>1 DEF Decided
  <2>4. Step(c, b, taken) = Step(c, b, us[Len(b.compared) + 1])
    <3>1. CASE HasDelaySlot(p[s.pc])
      <4>1. us = Append(ts, taken)
        BY <3>1
      <4>2. us[Len(ts) + 1] = taken
        BY <4>1
      <4> QED
        BY <2>2, <4>2
    <3>2. CASE ~HasDelaySlot(p[s.pc])
      BY <2>1, <3>2 DEF Step
    <3> QED
      BY <3>1, <3>2
  <2>5. Step(c, b, us[Len(b.compared) + 1]) \in From(c, us, Start)
    <3>1. Closed(c, us, From(c, us, Start))
      BY <1>8, StartFits, FromClosed
    <3> QED
      BY <1>9, <1>11, <2>3, <3>1 DEF Closed
  <2>6. Step(c, b, taken) \in From(c, us, Start)
    BY <2>4, <2>5
  <2> QED
    BY <1>1, <1>8, <1>11, <2>6 DEF Beside, n
<1> QED
  BY <1>3, <1>10, <1>11 DEF Follows, n

LEMMA BesideEnds ==
  ASSUME NEW p, NEW c, Listed(c), NEW ts \in Seq(BOOLEAN), NEW s, Beside(p, c, ts, s), Ended(p, s)
  PROVE  Behind(c, ts, s, Start)
<1>1. PICK R, b : /\ Simulation(p, c, R)
                  /\ b \in From(c, ts, Start)
                  /\ <<s, b>> \in R
  BY DEF Beside
<1>2. Agrees(p, c, s, b)
  BY <1>1 DEF Simulation
<1> QED
  BY <1>1, <1>2, StartFits DEF Agrees, Behind

LEMMA BehindStep ==
  ASSUME NEW c, Listed(c), NEW ts \in Seq(BOOLEAN), NEW s, NEW o, Behind(c, ts, s, o), ~Ended(c, o)
  PROVE  Behind(c, ts, s, Step(c, o, ts[Len(o.compared) + 1]))
<1>1. PICK b \in From(c, ts, o) : Ended(c, b) /\ b.stores = s.stores /\ b.compared = s.compared
  BY DEF Behind
<1>2. o \in Fit(c) /\ o \in Machine
  BY DEF Behind, Fit
<1>3. b # o
  BY <1>1
<1>4. Decided(c, ts, o)
  BY <1>2, <1>3, FromEnd
<1> DEFINE n == Step(c, o, ts[Len(o.compared) + 1])
<1>5. n \in Fit(c)
  BY <1>2, <1>4, TurnTyped, StepFits
<1> HIDE DEF n
<1>6. b \in From(c, ts, n)
  BY <1>2, <1>3, <1>5, FromNext DEF n
<1>7. Behind(c, ts, s, n)
  BY <1>1, <1>5, <1>6 DEF Behind
<1> QED
  BY <1>7 DEF n

LEMMA BehindEnds ==
  ASSUME NEW c, NEW ts, NEW s, NEW o, Behind(c, ts, s, o), Ended(c, o)
  PROVE  o.stores = s.stores /\ o.compared = s.compared
<1>1. PICK b \in From(c, ts, o) : Ended(c, b) /\ b.stores = s.stores /\ b.compared = s.compared
  BY DEF Behind
<1>2. b = o
  BY FromEnd DEF Behind
<1> QED
  BY <1>1, <1>2

LEMMA CourseStep ==
  ASSUME Swept, FollowsProgram, Course, [Next]_vars
  PROVE  Course'
<1>1. Listed(program) /\ Listed(code) /\ turns \in Seq(BOOLEAN)
  BY ProgramListed DEF Swept, Course
<1>2. CASE /\ Passing /\ pass' = pass /\ UNCHANGED <<source, output, turns>>
  <2>1. pass \in {"pre", "fill", "dead"} /\ pass' \in {"pre", "fill", "dead"}
    BY <1>2 DEF Passing
  <2> QED
    BY <1>2, <2>1 DEF Course
<1>3. CASE NextPass
  <2>1. /\ pass \in {"pre", "fill", "dead"} /\ pass' \in {"fill", "dead", "source"}
        /\ UNCHANGED <<program, code, source, output, turns>>
    BY <1>3 DEF NextPass, Passing
  <2>2. source = Start /\ output = Start /\ turns = <<>>
    BY <2>1 DEF Course
  <2>3. Beside(program, code, turns, source)
    BY <1>1, <2>2, BesideStart DEF FollowsProgram
  <2>4. Beside(program, code, turns, source)'
    BY <2>1, <2>3
  <2> QED
    BY <1>1, <2>1, <2>2, <2>4 DEF Course
<1>4. CASE RunSource
  <2>1. /\ pass = "source" /\ pass' = pass /\ ~Ended(program, source)
        /\ UNCHANGED <<program, code, output>> /\ output = Start
    BY <1>4 DEF RunSource, tokens, Course
  <2>2. Beside(program, code, turns, source)
    BY <2>1 DEF Course
  <2>3. \E taken \in BOOLEAN :
          /\ MayTurn(program, source, taken)
          /\ source' = Step(program, source, taken)
          /\ turns' = IF HasDelaySlot(program[source.pc]) THEN Append(turns, taken) ELSE turns
    <3>1. CASE HasDelaySlot(program[source.pc])
      <4>1. PICK taken \in BOOLEAN :
              /\ program[source.pc].op # "BRANCH" => taken
              /\ source' = Turned(program, source, taken)
              /\ turns' = Append(turns, taken)
        BY <1>4, <3>1 DEF RunSource
      <4> QED
        BY <3>1, <4>1 DEF MayTurn, Step
    <3>2. CASE ~HasDelaySlot(program[source.pc])
      <4>1. source' = Straight(program, source) /\ turns' = turns
        BY <1>4, <3>2 DEF RunSource
      <4>2. MayTurn(program, source, TRUE) /\ source' = Step(program, source, TRUE)
        BY <3>2, <4>1 DEF MayTurn, Step
      <4> QED
        BY <3>2, <4>1, <4>2
    <3> QED
      BY <3>1, <3>2
  <2>4. PICK taken \in BOOLEAN :
          /\ MayTurn(program, source, taken)
          /\ source' = Step(program, source, taken)
          /\ turns' = IF HasDelaySlot(program[source.pc]) THEN Append(turns, taken) ELSE turns
    BY <2>3
  <2>5. Beside(program, code, turns', source')
    BY <1>1, <2>1, <2>2, <2>4, BesideStep
  <2>6. turns' \in Seq(BOOLEAN)
    <3>1. Append(turns, taken) \in Seq(BOOLEAN)
      BY <1>1, Longer, Zenon
    <3> QED
      BY <1>1, <2>4, <3>1
  <2> QED
    BY <2>1, <2>5, <2>6 DEF Course
<1>5. CASE RunOutput
  <2>1. /\ pass = "output" /\ pass' = pass /\ ~Ended(code, output)
        /\ UNCHANGED <<program, code, source, turns>>
    BY <1>5 DEF RunOutput, tokens
  <2>2. output' = Step(code, output, turns[Len(output.compared) + 1])
    BY <1>5 DEF RunOutput, Step
  <2>3. Behind(code, turns, source, output)
    BY <2>1 DEF Course
  <2>4. Behind(code, turns, source, output')
    BY <1>1, <2>1, <2>2, <2>3, BehindStep
  <2> QED
    BY <1>1, <2>1, <2>4 DEF Course
<1>6. CASE NextRun
  <2>1. UNCHANGED <<program, code, source, output, turns>>
    BY <1>6 DEF NextRun
  <2>2. CASE pass = "source" /\ Ended(program, source) /\ pass' = "output"
    <3>1. Beside(program, code, turns, source) /\ output = Start
      BY <2>2 DEF Course
    <3>2. Behind(code, turns, source, output)
      BY <1>1, <2>2, <3>1, BesideEnds
    <3>3. Behind(code, turns, source, output)'
      BY <2>1, <3>2
    <3> QED
      BY <1>1, <2>1, <2>2, <3>3 DEF Course
  <2>3. CASE pass = "output" /\ Ended(code, output) /\ pass' = "done"
    <3>1. output.stores = source.stores /\ output.compared = source.compared
      BY <2>3, BehindEnds DEF Course
    <3> QED
      BY <1>1, <2>1, <2>3, <3>1 DEF Course
  <2> QED
    BY <1>6, <2>2, <2>3 DEF NextRun
<1>7. CASE UNCHANGED vars
  <2>1. UNCHANGED <<program, code, pass, source, output, turns>>
    BY <1>7 DEF vars, tokens
  <2> QED
    BY <2>1 DEF Course
<1>8. CASE \/ SinkPreIncrementStore \/ SinkIndependentStore \/ SinkCandidate
           \/ RaiseDeadFallthrough \/ PassOn
  <2>1. Passing /\ pass' = pass /\ UNCHANGED <<source, output, turns>>
    BY <1>8 DEF SinkPreIncrementStore, SinkIndependentStore, SinkCandidate, Sink,
                RaiseDeadFallthrough, PassOn, AtBranch
  <2> QED
    BY <1>2, <2>1
<1> QED
  BY <1>3, <1>4, <1>5, <1>6, <1>7, <1>8 DEF Next

LEMMA CourseStart ==
  ASSUME Init
  PROVE  Course
BY DEF Init, Course

LEMMA CourseKeepsExecution ==
  ASSUME Swept, Course
  PROVE  ExecutionPreserved
<1>1. ASSUME pass = "output"
      PROVE  IsPrefix(output.stores, source.stores) /\ IsPrefix(output.compared, source.compared)
  <2>1. Behind(code, turns, source, output) /\ turns \in Seq(BOOLEAN) /\ Listed(code)
    BY <1>1 DEF Course, Swept
  <2>2. output \in Fit(code)
    BY <2>1 DEF Behind
  <2>3. PICK b \in From(code, turns, output) : b.stores = source.stores /\ b.compared = source.compared
    BY <2>1 DEF Behind
  <2>4. Extends(output, b)
    BY <2>1, <2>2, FromExtends
  <2> QED
    BY <2>3, <2>4 DEF Extends
<1> QED
  BY <1>1 DEF ExecutionPreserved, Course

Preserved == Swept /\ FollowsProgram /\ Course

(* On every path the filled program stores and compares what the source did,  *)
(* unless a program stores the register it addresses and increments.          *)
THEOREM ExecutionPreservedCorrect ==
  ASSUME StoresKeepBase
  PROVE  Spec => []ExecutionPreserved
<1>1. Init => Preserved
  BY SweptStart, FollowsStart, CourseStart DEF Preserved
<1>2. Preserved /\ [Next]_vars => Preserved'
  BY SweptStep, FollowsStep, CourseStep DEF Preserved
<1>3. Preserved => ExecutionPreserved
  BY CourseKeepsExecution DEF Preserved
<1> QED
  BY <1>1, <1>2, <1>3, PTL DEF Spec

=============================================================================
