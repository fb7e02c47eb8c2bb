--------------------------- MODULE VuEntrySkewProofs ---------------------------
(***************************************************************************)
(* Proofs about VuEntrySkew, for every program whose branches lead forward *)
(* and all latencies.                                                      *)
(***************************************************************************)
EXTENDS VuEntrySkew, TLAPS

(* A place is a slot of a block that has been entered, or the one behind its  *)
(* last: what the clock and the tracker of the scheduler say there.           *)
Entered == 1 .. Len(entered)
End(b) == Len(code[b]) + 1
Places(b) == 1 .. End(b)

Cycle(b, k) == IF k \in DOMAIN code[b] THEN code[b][k].cycle
               ELSE IF b < Len(entered) THEN entered[b + 1].cycle ELSE clock
Found(b, k) == IF k \in DOMAIN code[b] THEN code[b][k].found
               ELSE IF b < Len(entered) THEN entered[b + 1].found ELSE q

SkewOf(b) == IF b = 0 THEN 0 ELSE entered[b].skew

(* The same less the skew: what the shortest path into the place sees.        *)
Real(b, k) == Cycle(b, k) - SkewOf(b)
Due(b, k)  == Found(b, k) - SkewOf(b)

BranchOut(b) == code[b] # <<>> /\ code[b][Len(code[b])].row = "BRANCH"
Target(b) == program[b].target

SlotType == [row : Row \cup {"NOP"}, wait : BOOLEAN, cycle : Nat, found : Int]
EntryType == [cycle : Nat, skew : Nat, found : Int]

(* The shape of the state.                                                    *)
Typed ==
  /\ program \in Programs
  /\ current \in 1 .. Len(program) + 1
  /\ offset \in Int
  /\ code \in [DOMAIN program -> Seq(SlotType)]
  /\ clock \in Nat
  /\ q \in Int
  /\ applied \in Nat
  /\ entered \in Seq(EntryType)
  /\ DOMAIN base \subseteq DOMAIN program
  /\ \A t \in DOMAIN base : base[t] \in Int

Counted ==
  /\ Scheduling => offset \in -1 .. Len(program[current].rows)
  /\ ~Scheduling => offset = -1
  /\ Len(entered) = IF offset = -1 THEN current - 1 ELSE current
  /\ applied = SkewOf(Len(entered))
  /\ \A b \in DOMAIN program : b > Len(entered) => code[b] = <<>>

(* The slots of a block are its rows so far, and a branch is the last of them. *)
RowsFrom ==
  \A b \in Entered : \A k \in DOMAIN code[b] :
    /\ code[b][k].row # "NOP" =>
         \E i \in DOMAIN program[b].rows :
           /\ program[b].rows[i] = code[b][k].row
           /\ b = current => i <= offset
    /\ code[b][k].row = "BRANCH" => k = Len(code[b])

(* From one place of a block to the next.                                     *)
Leads(s, cycle, found) ==
  /\ s.row \in {"LABEL", "OTHER", "NOP", "BRANCH"} => cycle = s.cycle + 1 /\ found = s.found
  /\ s.row \in {"DIV", "RSQRT"} => cycle = s.cycle + 1 /\ found = s.cycle + Latency[s.row] + 1
  /\ s.row = "READ" =>
       /\ found = s.found
       /\ ~s.wait => s.found <= s.cycle /\ cycle = s.cycle + 1
       /\ s.wait => s.found > s.cycle /\ cycle = s.found + 1

SlotsLead ==
  \A b \in Entered : \A k \in DOMAIN code[b] :
    Leads(code[b][k], Cycle(b, k + 1), Found(b, k + 1))

(* From one block to the one below.                                           *)
BlockBegins(b) ==
  /\ Cycle(b, 1) = entered[b].cycle
  /\ SkewOf(b) >= SkewOf(b - 1)
  /\ Found(b, 1) = IF entered[b].found >= 0
                     THEN entered[b].found + SkewOf(b) - SkewOf(b - 1)
                     ELSE entered[b].found

BlocksBegin == \A b \in Entered : BlockBegins(b)

(* From a branch to its target.                                               *)
EdgesRecorded ==
  /\ \A b \in Entered : BranchOut(b) =>
       /\ Target(b) \in DOMAIN base
       /\ base[Target(b)] >= -Real(b, End(b)) - 1
  /\ \A t \in DOMAIN base : \E b \in Entered :
       BranchOut(b) /\ Target(b) = t /\ base[t] = -Real(b, End(b)) - 1
  /\ \A t \in Entered : t \in DOMAIN base => SkewOf(t) >= base[t] + entered[t].cycle

(* Two places know of the same division, and as far from the shortest path.   *)
Same(c, b, k) ==
  /\ Found(c, End(c)) < 0 => Found(b, k) < 0
  /\ Found(c, End(c)) >= 0 => Found(b, k) >= 0 /\ Due(b, k) = Due(c, End(c))

(* A division behind the branch of c outlasts whatever was divided before it.  *)
Late(c, b, k) ==
  /\ Found(b, k) >= 0
  /\ \A a \in 1 .. c : \A y \in Divisions(a) : Due(b, k) >= Real(c, End(c)) + Latency[y] + 1

(* What a branch skips, as far as it is scheduled.                            *)
NoneLandsIn(c) == \A e \in Branches : e < c => Target(e) \notin Skipped(c)

SkippedPlaces ==
  \A c \in Entered : \A b \in c + 1 .. Len(entered) :
    BranchOut(c) /\ b < Target(c) =>
      \A k \in Places(b) :
        /\ NoneLandsIn(c) => Real(b, k) >= Real(c, End(c))
        /\ SkipsNoDivision(c) => Same(c, b, k)
        /\ SkipsWhole(c) => Same(c, b, k) \/ Late(c, b, k)

ScheduleInv ==
  /\ Typed /\ Counted /\ RowsFrom /\ SlotsLead /\ BlocksBegin /\ EdgesRecorded /\ SkippedPlaces

-----------------------------------------------------------------------------
(* The machine *)

MachineTyped ==
  /\ now \in Nat
  /\ ready \in Int
  /\ labels \in Nat
  /\ before \in 0 .. labels
  /\ Scheduling => at = <<0, 0>>
  /\ at = <<0, 0>> => ready <= now
  /\ at # <<0, 0>> =>
       /\ at \in Nat \X Nat
       /\ at[1] \in 1 .. Len(program) + 1
       /\ at[1] <= Len(program) => at[2] \in Places(at[1])

(* The first block is entered at cycle 0 with no quotient under way.            *)
FirstEntry ==
  /\ entered = <<>> => clock = 0 /\ q = Idle
  /\ entered # <<>> => entered[1].cycle = 0 /\ entered[1].found = Idle

(* No quotient is further away than the latency of a division above.           *)
Bounded(b, r, n) ==
  r <= n \/ \E a \in 1 .. b : \E y \in Divisions(a) : r - n <= Latency[y]

LatencyBound == Running => Bounded(at[1], ready, now)

(* The quotient is no further away than the tracker has it, labels aside.      *)
Tracked(b, k, r, n, passed) ==
  r <= n \/ (Found(b, k) >= 0 /\ r - n - passed <= Found(b, k) - Cycle(b, k))

(* The hypotheses of QuotientReady and of SkewCoversEveryPath.                *)
Standing == \A b \in Branches : SkipsNoDivision(b) \/ SkipsWhole(b)

Skipless == \A b \in Branches : SkipsNoDivision(b)

QuotientTracked ==
  Standing /\ Running => Tracked(at[1], at[2], ready, now, labels - before)

(* The machine is nowhere sooner than along the shortest path.                 *)
Covered(b, k, r, n) ==
  /\ n >= Real(b, k)
  /\ Found(b, k) >= 0 => r >= Due(b, k)

NoSooner == Skipless /\ Running => Covered(at[1], at[2], ready + labels, now + labels)

SkewInv ==
  ScheduleInv /\ FirstEntry /\ MachineTyped /\ LatencyBound /\ QuotientTracked /\ NoSooner

-----------------------------------------------------------------------------
(* The shape of programs, and of what is known of places *)

(* What a program and its slots are made of.                                  *)
LEMMA ProgramShape ==
  ASSUME Typed
  PROVE  /\ program \in Seq(Block)
         /\ Len(program) \in Nat
         /\ DOMAIN program = 1 .. Len(program)
         /\ \A b \in DOMAIN program :
              /\ program[b].rows \in Seq(Row)
              /\ Len(program[b].rows) \in Nat
              /\ DOMAIN program[b].rows = 1 .. Len(program[b].rows)
              /\ Target(b) \in Nat
              /\ code[b] \in Seq(SlotType)
              /\ Len(code[b]) \in Nat
              /\ DOMAIN code[b] = 1 .. Len(code[b])
         /\ \A b \in Branches : Target(b) \in b + 1 .. Len(program)
         /\ current \in Nat /\ clock \in Nat /\ q \in Int
<1>1. program \in Programs /\ program \in Seq(Block)
  BY ProgramAssumption DEF Typed
<1>2. Len(program) \in Nat /\ DOMAIN program = 1 .. Len(program)
  BY <1>1
<1>3. ASSUME NEW b \in DOMAIN program
      PROVE  /\ program[b].rows \in Seq(Row)
             /\ Len(program[b].rows) \in Nat
             /\ DOMAIN program[b].rows = 1 .. Len(program[b].rows)
             /\ Target(b) \in Nat
             /\ code[b] \in Seq(SlotType)
             /\ Len(code[b]) \in Nat
             /\ DOMAIN code[b] = 1 .. Len(code[b])
  <2>1. program[b] \in Block
    BY <1>1
  <2>2. program[b].rows \in Seq(Row) /\ Target(b) \in Nat
    BY <2>1 DEF Block, Target
  <2>3. code[b] \in Seq(SlotType)
    BY DEF Typed
  <2> QED
    BY <2>2, <2>3
<1>4. \A b \in Branches : Target(b) \in b + 1 .. Len(program)
  BY <1>1, ForwardAssumption DEF Branches, Target
<1>5. current \in Nat /\ clock \in Nat /\ q \in Int
  BY <1>2 DEF Typed
<1> QED
  BY <1>1, <1>2, <1>3, <1>4, <1>5

(* Every block entered is one of the program, and each of its places has a    *)
(* cycle and a q.                                                             *)
LEMMA PlaceTypes ==
  ASSUME Typed, Counted
  PROVE  /\ Len(entered) \in Nat
         /\ Entered \subseteq DOMAIN program
         /\ \A b \in Entered : b \in Nat /\ entered[b] \in EntryType /\ SkewOf(b) \in Nat
         /\ SkewOf(0) = 0
         /\ \A b \in Entered : \A k \in Places(b) : Cycle(b, k) \in Nat /\ Found(b, k) \in Int
         /\ \A b \in Entered : End(b) \in Nat /\ End(b) \in Places(b) /\ 1 \in Places(b)
<1>1. Len(entered) \in Nat
  BY DEF Typed
<1>2. Entered \subseteq DOMAIN program
  <2>1. offset = -1 => Len(entered) <= Len(program)
    BY ProgramShape DEF Counted, Typed
  <2>2. offset # -1 => Len(entered) <= Len(program)
    BY ProgramShape DEF Counted, Typed, Scheduling
  <2> QED
    BY <1>1, <2>1, <2>2, ProgramShape DEF Entered
<1>3. \A b \in Entered : b \in Nat /\ entered[b] \in EntryType
  BY <1>1 DEF Typed, Entered
<1>4. \A b \in Entered : SkewOf(b) \in Nat
  BY <1>1, <1>3 DEF SkewOf, EntryType, Entered
<1>5. ASSUME NEW b \in Entered, NEW k \in Places(b)
      PROVE  Cycle(b, k) \in Nat /\ Found(b, k) \in Int
  <2>1. CASE k \in DOMAIN code[b]
    <3>1. code[b][k] \in SlotType
      BY <1>2, <2>1, ProgramShape
    <3> QED
      BY <2>1, <3>1 DEF Cycle, Found, SlotType
  <2>2. CASE k \notin DOMAIN code[b] /\ b < Len(entered)
    <3>1. entered[b + 1] \in EntryType
      BY <1>1, <1>3, <2>2 DEF Entered
    <3> QED
      BY <2>2, <3>1 DEF Cycle, Found, EntryType
  <2>3. CASE k \notin DOMAIN code[b] /\ ~(b < Len(entered))
    BY <2>3 DEF Cycle, Found, Typed
  <2> QED
    BY <2>1, <2>2, <2>3
<1>6. \A b \in Entered : End(b) \in Nat /\ End(b) \in Places(b) /\ 1 \in Places(b)
  BY <1>2, ProgramShape DEF End, Places
<1> QED
  BY <1>1, <1>2, <1>3, <1>4, <1>5, <1>6 DEF SkewOf

-----------------------------------------------------------------------------
(* Placing a row *)

NewRow == program[current].rows[offset + 1]

(* What every action that places a row does: its slots, with the clock and    *)
(* the tracker running on over them, and the edge of a branch.                *)
Grows(s) ==
  /\ Scheduling
  /\ offset \in 0 .. Len(program[current].rows) - 1
  /\ s \in Seq(SlotType) /\ s # <<>>
  /\ s[1].cycle = clock
  /\ \A k \in DOMAIN s :
       /\ s[k].cycle >= clock
       /\ s[k].found = q
       /\ s[k].row \in {"NOP", NewRow}
       /\ s[k].row = "BRANCH" => k = Len(s)
       /\ Leads(s[k], IF k < Len(s) THEN s[k + 1].cycle ELSE clock',
                      IF k < Len(s) THEN s[k + 1].found ELSE q')
  /\ code' = [code EXCEPT ![current] = @ \o s]
  /\ offset' = offset + 1
  /\ clock' \in Nat /\ clock' >= clock
  /\ q' \in Int
  /\ \/ q' = q
     \/ NewRow \in {"DIV", "RSQRT"} /\ q' = clock + Latency[NewRow] + 1
  /\ UNCHANGED <<program, current, applied, entered, machine>>
  /\ NewRow # "BRANCH" => base' = base
  /\ NewRow = "BRANCH" =>
       /\ s[Len(s)].row = "BRANCH"
       /\ DOMAIN base' = DOMAIN base \cup {Target(current)}
       /\ \A t \in DOMAIN base : t # Target(current) => base'[t] = base[t]
       /\ base'[Target(current)] \in Int
       /\ base'[Target(current)] >= applied - clock' - 1
       /\ \/ base'[Target(current)] = applied - clock' - 1
          \/ Target(current) \in DOMAIN base /\ base'[Target(current)] = base[Target(current)]
       /\ Target(current) \in DOMAIN base => base'[Target(current)] >= base[Target(current)]

(* The places there were are where they were; the last of them now is the     *)
(* first of the new slots.                                                    *)
LEMMA GrowFrozen ==
  ASSUME ScheduleInv, NEW s, Grows(s)
  PROVE  /\ current = Len(entered) /\ current \in Entered /\ current \in DOMAIN program
         /\ Len(s) \in Nat \ {0} /\ DOMAIN s = 1 .. Len(s)
         /\ End(current)' = End(current) + Len(s)
         /\ \A b \in DOMAIN program : b # current => code'[b] = code[b]
         /\ \A k \in 1 .. Len(s) : code'[current][Len(code[current]) + k] = s[k]
         /\ \A k \in DOMAIN code[current] : code'[current][k] = code[current][k]
         /\ DOMAIN code'[current] = 1 .. Len(code[current]) + Len(s)
         /\ Entered' = Entered
         /\ \A b : SkewOf(b)' = SkewOf(b)
         /\ \A b \in Entered : \A k \in Places(b) :
              Cycle(b, k)' = Cycle(b, k) /\ Found(b, k)' = Found(b, k)
         /\ \A b, i : \A k \in 1 .. Len(s) :
              b = current /\ i = Len(code[current]) + k =>
                Cycle(b, i)' = s[k].cycle /\ Found(b, i)' = s[k].found
         /\ \A b, i : b = current /\ i = Len(code[current]) + Len(s) + 1 =>
              Cycle(b, i)' = clock' /\ Found(b, i)' = q'
<1> DEFINE n == Len(code[current])
<1>1. Typed /\ Counted
  BY DEF ScheduleInv
<1>2. /\ current = Len(entered) /\ current \in Entered /\ current \in DOMAIN program
      /\ current \in Nat
  <2>1. current \in 1 .. Len(program) /\ offset # -1
    BY <1>1, ProgramShape DEF Grows, Scheduling, Typed
  <2> QED
    BY <1>1, <2>1, ProgramShape DEF Counted, Entered
<1>3. /\ Len(s) \in Nat \ {0} /\ DOMAIN s = 1 .. Len(s)
      /\ code[current] \in Seq(SlotType) /\ n \in Nat /\ DOMAIN code[current] = 1 .. n
  BY <1>1, <1>2, ProgramShape DEF Grows
<1>4. /\ \A b \in DOMAIN program : b # current => code'[b] = code[b]
      /\ code'[current] = code[current] \o s
  <2>1. DOMAIN code = DOMAIN program
    BY <1>1 DEF Typed
  <2> QED
    BY <1>2, <2>1 DEF Grows
<1>5. /\ Len(code'[current]) = n + Len(s)
      /\ DOMAIN code'[current] = 1 .. n + Len(s)
      /\ \A k \in 1 .. Len(s) : code'[current][n + k] = s[k]
      /\ \A k \in DOMAIN code[current] : code'[current][k] = code[current][k]
  <2>1. s \in Seq(SlotType)
    BY DEF Grows
  <2> QED
    BY <1>3, <1>4, <2>1
<1>6. /\ entered' = entered
      /\ Entered' = Entered
      /\ \A b : SkewOf(b)' = SkewOf(b)
  BY DEF Grows, Entered, SkewOf
<1>7. ASSUME NEW b \in Entered, NEW k \in Places(b)
      PROVE  Cycle(b, k)' = Cycle(b, k) /\ Found(b, k)' = Found(b, k)
  <2>1. CASE b # current
    <3>1. b < Len(entered)
      BY <1>1, <1>2, <2>1, PlaceTypes DEF Entered
    <3>2. code'[b] = code[b]
      BY <1>1, <1>4, <2>1, PlaceTypes
    <3> QED
      BY <1>6, <3>1, <3>2 DEF Cycle, Found
  <2>2. CASE b = current /\ k \in DOMAIN code[current]
    <3>1. k \in DOMAIN code'[current]
      BY <1>3, <1>5, <2>2
    <3> QED
      BY <1>5, <2>2, <3>1 DEF Cycle, Found
  <2>3. CASE b = current /\ k \notin DOMAIN code[current]
    <3>1. k = n + 1
      BY <1>3, <2>3 DEF Places, End
    <3>2. k \in DOMAIN code'[current] /\ code'[current][k] = s[1]
      BY <1>3, <1>5, <3>1
    <3>3. Cycle(b, k) = clock /\ Found(b, k) = q
      BY <1>2, <2>3 DEF Cycle, Found
    <3>4. s[1].cycle = clock /\ s[1].found = q
      BY <1>3 DEF Grows
    <3> QED
      BY <2>3, <3>2, <3>3, <3>4 DEF Cycle, Found
  <2> QED
    BY <2>1, <2>2, <2>3
<1>8. ASSUME NEW k \in 1 .. Len(s), NEW b, NEW i, b = current, i = n + k
      PROVE  Cycle(b, i)' = s[k].cycle /\ Found(b, i)' = s[k].found
  <2>1. i \in 1 .. n + Len(s)
    BY <1>3, <1>8
  <2>2. code'[current][n + k] = s[k]
    BY <1>5
  <2>3. i \in DOMAIN code'[b] /\ code'[b][i] = s[k]
    BY <1>5, <1>8, <2>1, <2>2
  <2> QED
    BY <2>3 DEF Cycle, Found
<1>9. ASSUME NEW b, NEW i, b = current, i = n + Len(s) + 1
      PROVE  Cycle(b, i)' = clock' /\ Found(b, i)' = q'
  <2>1. i \notin DOMAIN code'[b] /\ ~(b < Len(entered'))
    BY <1>2, <1>3, <1>5, <1>6, <1>9
  <2> QED
    BY <2>1 DEF Cycle, Found
<1>10. End(current)' = End(current) + Len(s)
  <2>1. current' = current
    BY DEF Grows
  <2> QED
    BY <1>3, <1>5, <2>1 DEF End
<1> QED
  BY <1>2, <1>3, <1>4, <1>5, <1>6, <1>7, <1>8, <1>9, <1>10

(* No branch stands in a block that has rows left.                            *)
LEMMA NoBranchYet ==
  ASSUME ScheduleInv, NEW s, Grows(s)
  PROVE  ~BranchOut(current)
<1>1. SUFFICES ASSUME BranchOut(current) PROVE FALSE
  OBVIOUS
<1>2. Typed /\ current \in Entered /\ current \in DOMAIN program
  BY GrowFrozen DEF ScheduleInv
<1>3. /\ Len(code[current]) \in DOMAIN code[current]
      /\ code[current][Len(code[current])].row = "BRANCH"
  BY <1>1, <1>2, ProgramShape DEF BranchOut
<1>4. PICK i \in DOMAIN program[current].rows :
        program[current].rows[i] = "BRANCH" /\ i <= offset
  BY <1>2, <1>3 DEF ScheduleInv, RowsFrom
<1>5. i = Len(program[current].rows)
  BY <1>2, <1>4, ForwardAssumption DEF Typed
<1> QED
  BY <1>2, <1>4, <1>5, ProgramShape DEF Grows

(* A placed row keeps the shape of the state.                                 *)
LEMMA GrowTyped ==
  ASSUME ScheduleInv, NEW s, Grows(s)
  PROVE  Typed' /\ Counted' /\ RowsFrom'
<1> DEFINE n == Len(code[current])
<1>1. Typed /\ Counted /\ RowsFrom
  BY DEF ScheduleInv
<1>2. /\ program' = program /\ current' = current /\ applied' = applied /\ entered' = entered
      /\ offset' = offset + 1
  BY DEF Grows
<1>3. current \in DOMAIN program /\ current = Len(entered) /\ current \in Entered
  BY GrowFrozen
<1>4. code' \in [DOMAIN program -> Seq(SlotType)]
  <2>1. code[current] \o s \in Seq(SlotType)
    BY <1>1, <1>3, ProgramShape DEF Grows
  <2> QED
    BY <1>1, <2>1 DEF Grows, Typed
<1>5. DOMAIN base' \subseteq DOMAIN program /\ \A t \in DOMAIN base' : base'[t] \in Int
  <2>1. CASE NewRow = "BRANCH"
    <3>1. Target(current) \in DOMAIN program
      <4>1. current \in Branches
        <5>1. offset + 1 \in DOMAIN program[current].rows
          BY <1>1, <1>3, ProgramShape DEF Grows
        <5> QED
          BY <1>3, <2>1, <5>1 DEF Branches, NewRow
      <4> QED
        BY <1>1, <4>1, ProgramShape DEF Typed
    <3> QED
      BY <1>1, <2>1, <3>1 DEF Grows, Typed
  <2>2. CASE NewRow # "BRANCH"
    BY <1>1, <2>2 DEF Grows, Typed
  <2> QED
    BY <2>1, <2>2
<1>6. Typed'
  <2>1. clock' \in Nat /\ q' \in Int /\ offset' \in Int
    BY DEF Grows
  <2> QED
    BY <1>1, <1>2, <1>4, <1>5, <2>1 DEF Typed
<1>7. Counted'
  <2>1. Scheduling' /\ Scheduling
    BY <1>2 DEF Grows, Scheduling
  <2>2. offset' \in -1 .. Len(program'[current'].rows) /\ offset' # -1
    BY <1>1, <1>2, <1>3, ProgramShape DEF Grows
  <2>3. Len(entered') = current'
    BY <1>2, <1>3
  <2>4. applied' = SkewOf(Len(entered))'
    BY <1>1, <1>2 DEF Counted, SkewOf
  <2>5. \A b \in DOMAIN program' : b > Len(entered') => code'[b] = <<>>
    <3>1. ASSUME NEW b \in DOMAIN program, b > current PROVE b # current
      BY <1>1, <3>1, ProgramShape
    <3>2. \A b \in DOMAIN program : b > current => code[b] = <<>>
      BY <1>1, <1>3 DEF Counted
    <3> QED
      BY <1>2, <1>3, <3>1, <3>2, GrowFrozen
  <2> QED
    BY <2>1, <2>2, <2>3, <2>4, <2>5 DEF Counted
<1>8. ASSUME NEW b \in Entered, NEW k \in DOMAIN code'[b]
      PROVE  /\ code'[b][k].row # "NOP" =>
                  \E i \in DOMAIN program[b].rows :
                    /\ program[b].rows[i] = code'[b][k].row
                    /\ b = current => i <= offset + 1
             /\ code'[b][k].row = "BRANCH" => k = Len(code'[b])
  <2>0. b \in DOMAIN program
    BY <1>1, PlaceTypes
  <2>1. CASE b # current
    <3>1. code'[b] = code[b]
      BY <2>0, <2>1, GrowFrozen
    <3> QED
      BY <1>1, <2>1, <3>1 DEF RowsFrom
  <2>2. CASE b = current /\ k \in DOMAIN code[current]
    <3>1. code'[b][k] = code[b][k]
      BY <2>2, GrowFrozen
    <3>2. code[b][k].row # "BRANCH"
      <4>1. ASSUME code[b][k].row = "BRANCH" PROVE FALSE
        <5>1. k = Len(code[b])
          BY <1>1, <2>2, <4>1 DEF RowsFrom
        <5>2. code[current] # <<>>
          BY <1>1, <1>3, <2>2, ProgramShape
        <5> QED
          BY <2>2, <4>1, <5>1, <5>2, NoBranchYet DEF BranchOut
      <4> QED
        BY <4>1
    <3>3. code[b][k].row # "NOP" =>
            \E i \in DOMAIN program[b].rows :
              program[b].rows[i] = code[b][k].row /\ i <= offset
      BY <1>1, <2>2 DEF RowsFrom
    <3>4. \A i \in DOMAIN program[b].rows : i <= offset => i <= offset + 1
      BY <1>1, <2>0, ProgramShape DEF Typed
    <3> QED
      BY <3>1, <3>2, <3>3, <3>4
  <2>3. CASE b = current /\ k \notin DOMAIN code[current]
    <3>1. PICK j \in 1 .. Len(s) : k = n + j
      <4>1. k \in 1 .. n + Len(s) /\ DOMAIN code[current] = 1 .. n /\ n \in Nat /\ Len(s) \in Nat
        BY <1>1, <1>3, <2>3, GrowFrozen, ProgramShape
      <4>2. k - n \in 1 .. Len(s) /\ k = n + (k - n)
        BY <2>3, <4>1
      <4> QED
        BY <4>2
    <3>2. code'[b][k] = s[j] /\ j \in DOMAIN s /\ Len(code'[b]) = n + Len(s)
      <4>1. code'[b] = code[b] \o s
        BY <1>1, <1>3, <2>3 DEF Grows, Typed
      <4> QED
        BY <1>1, <1>3, <2>3, <3>1, <4>1, GrowFrozen, ProgramShape DEF Grows
    <3>3. s[j].row \in {"NOP", NewRow} /\ (s[j].row = "BRANCH" => j = Len(s))
      BY <3>2 DEF Grows
    <3>4. offset + 1 \in DOMAIN program[b].rows /\ program[b].rows[offset + 1] = NewRow
      BY <1>1, <1>3, <2>3, ProgramShape DEF Grows, NewRow
    <3>5. offset + 1 <= offset + 1
      BY <1>1 DEF Typed
    <3> QED
      BY <3>1, <3>2, <3>3, <3>4, <3>5
  <2> QED
    BY <2>1, <2>2, <2>3
<1>9. RowsFrom'
  BY <1>2, <1>8, GrowFrozen DEF RowsFrom
<1> QED
  BY <1>6, <1>7, <1>9

(* Its slots lead from the last place there was to the clock.                 *)
LEMMA GrowSlots ==
  ASSUME ScheduleInv, NEW s, Grows(s)
  PROVE  SlotsLead' /\ BlocksBegin'
<1> DEFINE n == Len(code[current])
<1>1. Typed /\ Counted /\ SlotsLead /\ BlocksBegin
  BY DEF ScheduleInv
<1>2. current \in DOMAIN program /\ current \in Entered /\ entered' = entered /\ Entered' = Entered
  BY GrowFrozen DEF Grows
<1>7. /\ \A b, i : \A k \in 1 .. Len(s) :
           b = current /\ i = n + k => Cycle(b, i)' = s[k].cycle /\ Found(b, i)' = s[k].found
      /\ \A b, i : b = current /\ i = n + Len(s) + 1 =>
           Cycle(b, i)' = clock' /\ Found(b, i)' = q'
  BY GrowFrozen
<1>8. n \in Nat /\ Len(s) \in Nat
  BY <1>1, <1>2, ProgramShape, GrowFrozen
<1> HIDE DEF n
<1>3. ASSUME NEW b \in Entered, NEW k \in DOMAIN code'[b]
      PROVE  Leads(code'[b][k], Cycle(b, k + 1)', Found(b, k + 1)')
  <2>0. b \in DOMAIN program
    BY <1>1, PlaceTypes
  <2>1. CASE k \in DOMAIN code[b] /\ code'[b][k] = code[b][k]
    <3>1. k + 1 \in Places(b)
      BY <1>1, <2>0, <2>1, ProgramShape DEF Places, End
    <3>2. \A i : i = k + 1 => Cycle(b, i)' = Cycle(b, i) /\ Found(b, i)' = Found(b, i)
      BY <3>1, GrowFrozen
    <3>3. Cycle(b, k + 1)' = Cycle(b, k + 1) /\ Found(b, k + 1)' = Found(b, k + 1)
      BY <3>2
    <3> QED
      BY <1>1, <2>1, <3>3 DEF SlotsLead
  <2>2. CASE b = current /\ k \notin DOMAIN code[current]
    <3>0. /\ k \in 1 .. n + Len(s) /\ DOMAIN code[current] = 1 .. n /\ n \in Nat
          /\ Len(s) \in Nat /\ DOMAIN s = 1 .. Len(s)
      BY <1>1, <1>2, <2>2, GrowFrozen, ProgramShape DEF n
    <3>1. PICK j \in 1 .. Len(s) : k = n + j
      <4>1. k - n \in 1 .. Len(s) /\ k = n + (k - n)
        BY <2>2, <3>0
      <4> QED
        BY <4>1
    <3>2. code'[b][k] = s[j] /\ j \in DOMAIN s
      BY <2>2, <3>0, <3>1, GrowFrozen DEF n
    <3>5. j \in Nat /\ j \in 1 .. Len(s)
      BY <1>8, <3>1
    <3>3. CASE j < Len(s)
      <4>1. j + 1 \in 1 .. Len(s)
        BY <1>8, <3>5, <3>3
      <4>2. k + 1 = n + (j + 1)
        BY <1>8, <3>1, <3>5
      <4>3. Cycle(b, k + 1)' = s[j + 1].cycle /\ Found(b, k + 1)' = s[j + 1].found
        BY <1>7, <2>2, <4>1, <4>2
      <4> QED
        BY <3>2, <3>3, <4>3 DEF Grows
    <3>4. CASE ~(j < Len(s))
      <4>1. k + 1 = n + Len(s) + 1
        BY <1>8, <3>5, <3>1, <3>4
      <4>2. Cycle(b, k + 1)' = clock' /\ Found(b, k + 1)' = q'
        BY <1>7, <2>2, <4>1
      <4> QED
        BY <3>2, <3>4, <4>2 DEF Grows
    <3> QED
      BY <3>3, <3>4
  <2>3. \/ k \in DOMAIN code[b] /\ code'[b][k] = code[b][k]
        \/ b = current /\ k \notin DOMAIN code[current]
    BY <2>0, GrowFrozen
  <2> QED
    BY <2>1, <2>2, <2>3
<1>4. SlotsLead'
  BY <1>2, <1>3 DEF SlotsLead
<1>5. ASSUME NEW b \in Entered
      PROVE  BlockBegins(b)'
  <2>1. 1 \in Places(b)
    BY <1>1, PlaceTypes
  <2>2. Cycle(b, 1)' = Cycle(b, 1) /\ Found(b, 1)' = Found(b, 1)
    BY <2>1, GrowFrozen
  <2>3. SkewOf(b)' = SkewOf(b) /\ SkewOf(b - 1)' = SkewOf(b - 1)
    BY GrowFrozen
  <2> QED
    BY <1>1, <1>2, <2>2, <2>3 DEF BlocksBegin, BlockBegins
<1>6. BlocksBegin'
  BY <1>2, <1>5 DEF BlocksBegin
<1> QED
  BY <1>4, <1>6

(* What changes of a branch when a row is placed: nothing above, and if the   *)
(* row is a branch, its edge.                                                 *)
LEMMA GrowBranches ==
  ASSUME ScheduleInv, NEW s, Grows(s)
  PROVE  /\ \A b \in Entered : b # current =>
              /\ BranchOut(b)' = BranchOut(b)
              /\ End(b)' = End(b)
              /\ Real(b, End(b))' = Real(b, End(b))
         /\ BranchOut(current)' <=> NewRow = "BRANCH"
         /\ NewRow = "BRANCH" => Real(current, End(current))' = clock' - applied
<1> DEFINE n == Len(code[current])
<1>1. Typed /\ Counted
  BY DEF ScheduleInv
<1>2. /\ current \in DOMAIN program /\ current = Len(entered) /\ current' = current
      /\ applied = SkewOf(current)
  BY <1>1, GrowFrozen DEF Grows, Counted
<1>3. ASSUME NEW b \in Entered, b # current
      PROVE  /\ BranchOut(b)' = BranchOut(b)
             /\ End(b)' = End(b)
             /\ Real(b, End(b))' = Real(b, End(b))
  <2>1. code'[b] = code[b]
    BY <1>1, <1>3, GrowFrozen, PlaceTypes
  <2>2. BranchOut(b)' = BranchOut(b) /\ End(b)' = End(b)
    BY <2>1 DEF BranchOut, End
  <2>3. ASSUME NEW i, i = End(b)
        PROVE  Real(b, i)' = Real(b, i)
    <3>1. i \in Places(b)
      BY <1>1, <2>3, PlaceTypes
    <3> QED
      BY <3>1, GrowFrozen DEF Real
  <2> QED
    BY <2>2, <2>3
<1>4. /\ n \in Nat /\ Len(s) \in Nat \ {0} /\ Len(s) \in DOMAIN s
      /\ Len(code'[current]) = n + Len(s)
      /\ code'[current][n + Len(s)] = s[Len(s)]
      /\ code'[current] # <<>>
  <2>1. code[current] \in Seq(SlotType) /\ s \in Seq(SlotType) /\ n \in Nat
    BY <1>1, <1>2, ProgramShape DEF Grows
  <2>2. Len(s) \in Nat \ {0} /\ DOMAIN s = 1 .. Len(s)
    BY GrowFrozen
  <2>3. code'[current] = code[current] \o s
    BY <1>1, <1>2 DEF Grows, Typed
  <2> QED
    BY <2>1, <2>2, <2>3, GrowFrozen
<1>5. BranchOut(current)' <=> s[Len(s)].row = "BRANCH"
  BY <1>2, <1>4 DEF BranchOut
<1>6. s[Len(s)].row = "BRANCH" <=> NewRow = "BRANCH"
  BY <1>4 DEF Grows
<1>7. Real(current, End(current))' = clock' - applied
  <2>1. ASSUME NEW b, NEW i, b = current, i = n + Len(s) + 1
        PROVE  Real(b, i)' = clock' - applied
    BY <1>2, <2>1, GrowFrozen DEF Real
  <2>2. End(current)' = n + Len(s) + 1
    BY <1>2, <1>4 DEF End
  <2> QED
    BY <1>2, <2>1, <2>2
<1> QED
  BY <1>3, <1>5, <1>6, <1>7

(* A branch records the edge it is, and no other row disturbs one.            *)
LEMMA GrowEdges ==
  ASSUME ScheduleInv, NEW s, Grows(s)
  PROVE  EdgesRecorded'
<1>1. Typed /\ Counted /\ EdgesRecorded
  BY DEF ScheduleInv
<1>2. /\ current \in DOMAIN program /\ current = Len(entered) /\ current \in Entered
      /\ entered' = entered /\ Entered' = Entered /\ program' = program /\ applied \in Nat
      /\ clock' \in Nat
  BY <1>1, GrowFrozen DEF Grows, Typed
<1>3. \A b : Target(b)' = Target(b)
  BY <1>2 DEF Target
<1>4. NewRow = "BRANCH" => current \in Branches
  <2>1. offset + 1 \in DOMAIN program[current].rows
    BY <1>1, <1>2, ProgramShape DEF Grows
  <2> QED
    BY <1>2, <2>1 DEF Branches, NewRow
<1>5. ASSUME NEW t \in DOMAIN base
      PROVE  /\ t \in DOMAIN base'
             /\ base[t] \in Int /\ base'[t] \in Int
             /\ base'[t] >= base[t]
  <2>1. base[t] \in Int
    BY <1>1 DEF Typed
  <2> QED
    BY <2>1 DEF Grows
<1>6. ASSUME NEW b \in Entered, BranchOut(b)'
      PROVE  /\ Target(b) \in DOMAIN base'
             /\ base'[Target(b)] >= -Real(b, End(b))' - 1
  <2>1. CASE b # current
    <3>1. BranchOut(b) /\ Real(b, End(b))' = Real(b, End(b))
      BY <1>6, <2>1, GrowBranches
    <3>2. Target(b) \in DOMAIN base /\ base[Target(b)] >= -Real(b, End(b)) - 1
      BY <1>1, <3>1 DEF EdgesRecorded
    <3>3. Real(b, End(b)) \in Int
      BY <1>1, PlaceTypes DEF Real
    <3> QED
      BY <1>5, <3>1, <3>2, <3>3
  <2>2. CASE b = current
    <3>1. NewRow = "BRANCH" /\ Real(b, End(b))' = clock' - applied
      <4>1. current' = current
        BY DEF Grows
      <4> QED
        BY <1>6, <2>2, <4>1, GrowBranches
    <3>2. Target(b) \in DOMAIN base' /\ base'[Target(b)] >= applied - clock' - 1
      BY <2>2, <3>1 DEF Grows
    <3>3. base'[Target(b)] \in Int
      BY <2>2, <3>1 DEF Grows
    <3> QED
      BY <1>2, <3>1, <3>2, <3>3
  <2> QED
    BY <2>1, <2>2
<1>7. ASSUME NEW t \in DOMAIN base'
      PROVE  \E b \in Entered : BranchOut(b)' /\ Target(b) = t /\ base'[t] = -Real(b, End(b))' - 1
  <2>1. CASE t \in DOMAIN base /\ base'[t] = base[t]
    <3>1. PICK b \in Entered : BranchOut(b) /\ Target(b) = t /\ base[t] = -Real(b, End(b)) - 1
      BY <1>1, <2>1 DEF EdgesRecorded
    <3>2. b # current
      BY <3>1, NoBranchYet
    <3>3. BranchOut(b)' /\ Real(b, End(b))' = Real(b, End(b))
      BY <3>1, <3>2, GrowBranches
    <3> QED
      BY <2>1, <3>1, <3>3
  <2>2. CASE ~(t \in DOMAIN base /\ base'[t] = base[t])
    <3>1. NewRow = "BRANCH" /\ t = Target(current) /\ base'[t] = applied - clock' - 1
      BY <1>1, <2>2 DEF Grows
    <3>2. BranchOut(current)' /\ Real(current, End(current))' = clock' - applied
      BY <3>1, GrowBranches
    <3>3. current' = current
      BY DEF Grows
    <3> QED
      BY <1>2, <3>1, <3>2, <3>3
  <2> QED
    BY <2>1, <2>2
<1>8. ASSUME NEW t \in Entered, t \in DOMAIN base'
      PROVE  SkewOf(t)' >= base'[t] + entered'[t].cycle
  <2>1. ASSUME NewRow = "BRANCH" PROVE t # Target(current)
    <3>1. Target(current) \in current + 1 .. Len(program)
      BY <1>1, <1>4, <2>1, ProgramShape
    <3> QED
      BY <1>1, <1>2, <3>1, ProgramShape DEF Entered
  <2>2. t \in DOMAIN base /\ base'[t] = base[t]
    BY <1>8, <2>1 DEF Grows
  <2> QED
    BY <1>1, <1>2, <2>2, GrowFrozen DEF EdgesRecorded
<1> QED
  BY <1>2, <1>3, <1>6, <1>7, <1>8 DEF EdgesRecorded

(* A division has a latency.                                                  *)
LEMMA LatencyType == \A b : \A y \in Divisions(b) : Latency[y] \in Nat
BY LatencyAssumption DEF Divisions

(* A row in a block a branch skips goes on from the place before it.          *)
LEMMA GrowSkipped ==
  ASSUME ScheduleInv, NEW s, Grows(s)
  PROVE  SkippedPlaces'
<1> DEFINE n == Len(code[current])
<1>1. Typed /\ Counted /\ SkippedPlaces
  BY DEF ScheduleInv
<1>2. /\ current \in DOMAIN program /\ current = Len(entered) /\ current \in Entered
      /\ entered' = entered /\ Entered' = Entered /\ program' = program /\ current' = current
      /\ Len(entered) \in Nat
  BY <1>1, GrowFrozen, PlaceTypes DEF Grows
<1>3. /\ \A b : Target(b)' = Target(b)
      /\ \A c : NoneLandsIn(c)' <=> NoneLandsIn(c)
      /\ \A c : SkipsNoDivision(c)' <=> SkipsNoDivision(c)
      /\ \A c : SkipsWhole(c)' <=> SkipsWhole(c)
  BY <1>2 DEF Target, NoneLandsIn, SkipsNoDivision, SkipsWhole, Skipped, Branches, Divisions
<1>4. ASSUME NEW c \in Entered, NEW b \in c + 1 .. Len(entered), BranchOut(c)', b < Target(c),
             NEW k \in Places(b)'
      PROVE  /\ NoneLandsIn(c) => Real(b, k)' >= Real(c, End(c))'
             /\ SkipsNoDivision(c) => Same(c, b, k)'
             /\ SkipsWhole(c) => Same(c, b, k)' \/ Late(c, b, k)'
  <2>1. c \in Nat /\ b \in Entered /\ c < b /\ c # current /\ b \in DOMAIN program /\ b \in Nat
    <3>1. c \in Nat /\ b \in Nat /\ c < b /\ b <= current /\ b \in Entered
      BY <1>2, <1>4 DEF Entered
    <3>2. c # current
      BY <1>2, <3>1
    <3> QED
      BY <1>1, <3>1, <3>2, PlaceTypes
  <2>2. BranchOut(c) /\ End(c)' = End(c) /\ Real(c, End(c))' = Real(c, End(c))
    BY <1>4, <2>1, GrowBranches
  <2>3. /\ Found(c, End(c))' = Found(c, End(c))
        /\ Due(c, End(c))' = Due(c, End(c))
    <3>1. ASSUME NEW i, i = End(c)
          PROVE  Found(c, i)' = Found(c, i) /\ Due(c, i)' = Due(c, i)
      <4>1. i \in Places(c)
        BY <1>1, <3>1, PlaceTypes
      <4> QED
        BY <4>1, GrowFrozen DEF Due
    <3> QED
      BY <2>2, <3>1
  <2>4. \A i \in Places(b) :
          /\ NoneLandsIn(c) => Real(b, i) >= Real(c, End(c))
          /\ SkipsNoDivision(c) => Same(c, b, i)
          /\ SkipsWhole(c) => Same(c, b, i) \/ Late(c, b, i)
    BY <1>1, <1>4, <2>2 DEF SkippedPlaces
  <2>5. \A a : Divisions(a)' = Divisions(a)
    BY <1>2 DEF Divisions
  <2>6. CASE k \in Places(b)
    <3>1. Real(b, k)' = Real(b, k) /\ Found(b, k)' = Found(b, k) /\ Due(b, k)' = Due(b, k)
      BY <2>1, <2>6, GrowFrozen DEF Real, Due
    <3>2. Same(c, b, k)' <=> Same(c, b, k)
      BY <2>3, <3>1 DEF Same
    <3>3. Late(c, b, k)' <=> Late(c, b, k)
      BY <2>2, <2>5, <3>1 DEF Late
    <3> QED
      BY <2>2, <2>4, <2>6, <3>1, <3>2, <3>3
  <2>7. CASE k \notin Places(b)
    <3>1. b = current
      <4>1. ASSUME b # current PROVE FALSE
        <5>1. code'[b] = code[b]
          BY <2>1, <4>1, GrowFrozen
        <5> QED
          BY <1>4, <2>7, <5>1 DEF Places, End
      <4> QED
        BY <4>1
    <3>2. n \in Nat /\ Len(s) \in Nat \ {0} /\ k \in n + 2 .. n + Len(s) + 1
      <4>1. n \in Nat /\ Len(s) \in Nat \ {0} /\ End(current)' = n + 1 + Len(s)
        BY <1>1, <1>2, GrowFrozen, ProgramShape DEF End
      <4>2. Places(b) = 1 .. n + 1 /\ Places(b)' = 1 .. n + 1 + Len(s)
        BY <1>2, <3>1, <4>1 DEF Places, End
      <4> QED
        BY <1>4, <2>7, <4>1, <4>2
    <3>12. /\ \A x, i : \A j \in 1 .. Len(s) :
                x = current /\ i = n + j => Cycle(x, i)' = s[j].cycle /\ Found(x, i)' = s[j].found
           /\ \A x, i : x = current /\ i = n + Len(s) + 1 =>
                Cycle(x, i)' = clock' /\ Found(x, i)' = q'
      BY GrowFrozen
    <3> HIDE DEF n
    <3>3. /\ Cycle(b, k)' \in Nat /\ Cycle(b, k)' >= clock
          /\ \/ Found(b, k)' = q
             \/ /\ NewRow \in {"DIV", "RSQRT"}
                /\ Found(b, k)' = clock + Latency[NewRow] + 1
      <4>1. CASE k = n + Len(s) + 1
        <5>1. Cycle(b, k)' = clock' /\ Found(b, k)' = q'
          BY <3>1, <3>12, <4>1
        <5> QED
          BY <5>1 DEF Grows
      <4>2. CASE k # n + Len(s) + 1
        <5>1. k - n \in 1 .. Len(s) /\ k = n + (k - n)
          BY <3>2, <4>2
        <5>2. Cycle(b, k)' = s[k - n].cycle /\ Found(b, k)' = s[k - n].found
          BY <3>1, <3>12, <5>1
        <5>3. k - n \in DOMAIN s /\ s \in Seq(SlotType)
          BY <5>1, GrowFrozen DEF Grows
        <5>4. s[k - n] \in SlotType
          BY <5>3
        <5> QED
          BY <5>2, <5>3, <5>4 DEF Grows, SlotType
      <4> QED
        BY <4>1, <4>2
    <3> DEFINE e == End(b)
               S == SkewOf(b)
               R == Real(c, End(c))
    <3>4. e \in Places(b) /\ Cycle(b, e) = clock /\ Found(b, e) = q
      BY <1>1, <1>2, <2>1, <3>1, PlaceTypes, ProgramShape DEF Cycle, Found, End
    <3>5. S \in Nat /\ clock \in Nat /\ q \in Int /\ R \in Int
      <4>1. S \in Nat /\ clock \in Nat /\ q \in Int
        BY <1>1, <2>1, PlaceTypes, ProgramShape
      <4>2. End(c) \in Places(c) /\ SkewOf(c) \in Nat
        BY <1>1, PlaceTypes
      <4>3. Cycle(c, End(c)) \in Nat
        BY <1>1, <4>2, PlaceTypes
      <4> QED
        BY <4>1, <4>2, <4>3 DEF Real
    <3>6. Real(b, k)' = Cycle(b, k)' - S /\ Due(b, k)' = Found(b, k)' - S
      BY GrowFrozen DEF Real, Due
    <3>7. Real(b, e) = clock - S /\ Due(b, e) = q - S
      BY <3>4 DEF Real, Due
    <3>8. NoneLandsIn(c) => clock - S >= R
      BY <2>4, <3>4, <3>7
    <3> HIDE DEF e, S, R
    <3>9. NoneLandsIn(c) => Real(b, k)' >= Real(c, End(c))'
      BY <2>2, <3>3, <3>5, <3>6, <3>8 DEF R
    <3>10. CASE Found(b, k)' = q
      <4>1. Same(c, b, e) => Same(c, b, k)'
        BY <2>3, <3>4, <3>6, <3>7, <3>10 DEF Same
      <4>2. Late(c, b, e) => Late(c, b, k)'
        BY <2>2, <2>5, <3>4, <3>6, <3>7, <3>10 DEF Late
      <4> QED
        BY <2>4, <3>4, <3>9, <4>1, <4>2
    <3>11. CASE /\ NewRow \in {"DIV", "RSQRT"}
                /\ Found(b, k)' = clock + Latency[NewRow] + 1
      <4>1. NewRow \in Divisions(b)
        <5>1. offset + 1 \in DOMAIN program[b].rows
          BY <1>1, <1>2, <3>1, ProgramShape DEF Grows
        <5> QED
          BY <3>1, <3>11, <5>1 DEF Divisions, NewRow
      <4>2. b \in Skipped(c)
        <5>1. Target(c) \in Nat
          BY <1>1, <2>1, PlaceTypes, ProgramShape
        <5> QED
          BY <1>4, <2>1, <5>1 DEF Skipped, Target
      <4>3. ~SkipsNoDivision(c)
        BY <4>1, <4>2 DEF SkipsNoDivision
      <4>4. ASSUME SkipsWhole(c) PROVE Late(c, b, k)'
        <5>1. NoneLandsIn(c)
          BY <4>4 DEF SkipsWhole, NoneLandsIn, Target
        <5>2. Latency[NewRow] \in Nat
          BY <4>1, LatencyType
        <5>3. ASSUME NEW a \in 1 .. c, NEW y \in Divisions(a)
              PROVE  Due(b, k)' >= R + Latency[y] + 1
          <6>1. Latency[y] <= Latency[NewRow] /\ Latency[y] \in Nat
            BY <4>1, <4>2, <4>4, LatencyType DEF SkipsWhole
          <6> QED
            BY <3>5, <3>6, <3>8, <3>11, <5>1, <5>2, <6>1
        <5>4. Found(b, k)' >= 0
          BY <3>5, <3>11, <5>2
        <5> QED
          BY <2>2, <2>5, <5>3, <5>4 DEF Late, R
      <4> QED
        BY <3>9, <4>3, <4>4
    <3> QED
      BY <3>3, <3>10, <3>11
  <2> QED
    BY <2>6, <2>7
<1> QED
  BY <1>2, <1>3, <1>4 DEF SkippedPlaces

(* A placed row keeps everything known of the schedule.                       *)
LEMMA GrowKeeps ==
  ASSUME ScheduleInv, NEW s, Grows(s)
  PROVE  ScheduleInv'
BY GrowTyped, GrowSlots, GrowEdges, GrowSkipped DEF ScheduleInv

(* A sequence of one slot.                                                    *)
LEMMA OneSlot ==
  ASSUME NEW t \in SlotType
  PROVE  /\ <<t>> \in Seq(SlotType) /\ <<t>> # <<>> /\ Len(<<t>>) = 1
         /\ DOMAIN <<t>> = {1} /\ <<t>>[1] = t
OBVIOUS

(* A row that takes one slot, with the clock moved on over it.                *)
LEMMA OneGrows ==
  ASSUME ScheduleInv, NEW t \in SlotType, t.cycle = clock, t.found = q, t.row = NewRow,
         Leads(t, clock', q'), NextRow(NewRow), NEW n \in Nat, Place(<<t>>, n),
         q' \in Int,
         q' = q \/ (NewRow \in {"DIV", "RSQRT"} /\ q' = clock + Latency[NewRow] + 1),
         NewRow # "BRANCH" => base' = base,
         NewRow = "BRANCH" =>
           /\ DOMAIN base' = DOMAIN base \cup {Target(current)}
           /\ \A x \in DOMAIN base : x # Target(current) => base'[x] = base[x]
           /\ base'[Target(current)] \in Int
           /\ base'[Target(current)] >= applied - clock' - 1
           /\ \/ base'[Target(current)] = applied - clock' - 1
              \/ Target(current) \in DOMAIN base /\ base'[Target(current)] = base[Target(current)]
           /\ Target(current) \in DOMAIN base => base'[Target(current)] >= base[Target(current)]
  PROVE  \E s : Grows(s)
<1> DEFINE s == <<t>>
<1>1. s \in Seq(SlotType) /\ s # <<>> /\ Len(s) = 1 /\ DOMAIN s = {1} /\ s[1] = t
  BY OneSlot
<1>2. Place(s, n)
  OBVIOUS
<1> HIDE DEF s
<1>3. clock \in Nat /\ clock' = clock + n
  BY <1>2, ProgramShape DEF ScheduleInv, Place
<1>4. \A k \in DOMAIN s :
        /\ s[k].cycle >= clock
        /\ s[k].found = q
        /\ s[k].row \in {"NOP", NewRow}
        /\ s[k].row = "BRANCH" => k = Len(s)
        /\ Leads(s[k], IF k < Len(s) THEN s[k + 1].cycle ELSE clock',
                       IF k < Len(s) THEN s[k + 1].found ELSE q')
  BY <1>1, <1>3
<1>5. /\ code' = [code EXCEPT ![current] = @ \o s]
      /\ offset' = offset + 1
      /\ UNCHANGED <<program, current, applied, entered, machine>>
  BY <1>2 DEF Place
<1>6. Scheduling /\ offset \in 0 .. Len(program[current].rows) - 1
  BY DEF NextRow
<1>7. s[1].cycle = clock /\ s[Len(s)].row = NewRow /\ clock' \in Nat /\ clock' >= clock
  BY <1>1, <1>3
<1>8. Grows(s)
  BY <1>1, <1>4, <1>5, <1>6, <1>7 DEF Grows
<1> QED
  BY <1>8

(* A label and a plain row.                                                   *)
LEMMA RowGrows ==
  ASSUME ScheduleInv, PlaceRow
  PROVE  \E s : Grows(s)
<1>1. PICK row \in {"LABEL", "OTHER"} :
        NextRow(row) /\ Place(<<Slot(row, FALSE, clock)>>, 1) /\ q' = q /\ base' = base
  BY DEF PlaceRow
<1> DEFINE t == Slot(row, FALSE, clock)
<1>2. clock \in Nat /\ q \in Int /\ NewRow = row
  BY <1>1, ProgramShape DEF ScheduleInv, NextRow, NewRow
<1>3. t \in SlotType /\ t.row = row /\ t.wait = FALSE /\ t.cycle = clock /\ t.found = q
  BY <1>2, ProgramShape DEF ScheduleInv, Slot, SlotType, Row, t
<1> HIDE DEF t
<1>4. Leads(t, clock', q')
  BY <1>1, <1>3 DEF Leads, Place
<1>5. /\ Place(<<t>>, 1) /\ NextRow(NewRow) /\ NewRow # "BRANCH" /\ t.row = NewRow
      /\ q' \in Int /\ q' = q /\ base' = base
  BY <1>1, <1>2, <1>3 DEF t
<1> QED
  BY <1>3, <1>4, <1>5, OneGrows

(* A division, which the tracker notes.                                       *)
LEMMA DivisionGrows ==
  ASSUME ScheduleInv, PlaceDivision
  PROVE  \E s : Grows(s)
<1>1. PICK row \in {"DIV", "RSQRT"} :
        /\ NextRow(row) /\ Place(<<Slot(row, FALSE, clock)>>, 1)
        /\ q' = clock + Latency[row] + 1 /\ base' = base
  BY DEF PlaceDivision
<1> DEFINE t == Slot(row, FALSE, clock)
<1>2. clock \in Nat /\ NewRow = row /\ Latency[row] \in Nat
  BY <1>1, ProgramShape, LatencyAssumption DEF ScheduleInv, NextRow, NewRow
<1>3. t \in SlotType /\ t.row = row /\ t.wait = FALSE /\ t.cycle = clock /\ t.found = q
  BY <1>2, ProgramShape DEF ScheduleInv, Slot, SlotType, Row, t
<1> HIDE DEF t
<1>4. Leads(t, clock', q')
  BY <1>1, <1>3 DEF Leads, Place
<1>5. Place(<<t>>, 1)
  BY <1>1 DEF t
<1>6. /\ NextRow(NewRow) /\ NewRow \in {"DIV", "RSQRT"} /\ t.row = NewRow
      /\ q' = clock + Latency[NewRow] + 1 /\ base' = base
  BY <1>1, <1>2, <1>3
<1>7. q' \in Int
  BY <1>1, <1>2
<1> QED
  BY <1>3, <1>4, <1>5, <1>6, <1>7, OneGrows

(* A read, in each of its three forms.                                        *)
LEMMA ReadGrows ==
  ASSUME ScheduleInv, PlaceRead
  PROVE  \E s : Grows(s)
<1>1. clock \in Nat /\ q \in Int /\ NewRow = "READ" /\ NextRow("READ") /\ q' = q /\ base' = base
  BY ProgramShape DEF ScheduleInv, PlaceRead, NextRow, NewRow
<1>2. CASE q - clock <= 0 /\ Place(<<Slot("READ", FALSE, clock)>>, 1)
  <2> DEFINE t == Slot("READ", FALSE, clock)
  <2>3. t \in SlotType /\ t.row = "READ" /\ t.wait = FALSE /\ t.cycle = clock /\ t.found = q
    BY <1>1, ProgramShape DEF ScheduleInv, Slot, SlotType, Row, t
  <2> HIDE DEF t
  <2>4. Leads(t, clock', q')
    BY <1>1, <1>2, <2>3 DEF Leads, Place
  <2> QED
    BY <1>1, <1>2, <2>3, <2>4, OneGrows DEF t
<1>3. CASE q - clock = 1 /\ Place(<<Slot("NOP", FALSE, clock), Slot("READ", FALSE, clock + 1)>>, 2)
  <2> DEFINE t == Slot("NOP", FALSE, clock)
             u == Slot("READ", FALSE, clock + 1)
             s == <<t, u>>
  <2>1. t \in SlotType /\ t.row = "NOP" /\ t.cycle = clock /\ t.found = q
    BY <1>1 DEF Slot, SlotType, t
  <2>2. u \in SlotType /\ u.row = "READ" /\ u.wait = FALSE /\ u.cycle = clock + 1 /\ u.found = q
    BY <1>1, ProgramShape DEF ScheduleInv, Slot, SlotType, Row, u
  <2> HIDE DEF t, u
  <2>3. s \in Seq(SlotType) /\ s # <<>> /\ Len(s) = 2 /\ DOMAIN s = {1, 2} /\ s[1] = t /\ s[2] = u
    BY <2>1, <2>2
  <2>4. Leads(t, u.cycle, u.found) /\ Leads(u, clock', q')
    BY <1>1, <1>3, <2>1, <2>2 DEF Leads, Place
  <2>5. Place(s, 2)
    BY <1>3 DEF t, u
  <2> HIDE DEF s
  <2>6. \A k \in DOMAIN s :
          /\ s[k].cycle >= clock
          /\ s[k].found = q
          /\ s[k].row \in {"NOP", NewRow}
          /\ s[k].row = "BRANCH" => k = Len(s)
          /\ Leads(s[k], IF k < Len(s) THEN s[k + 1].cycle ELSE clock',
                         IF k < Len(s) THEN s[k + 1].found ELSE q')
    BY <1>1, <2>1, <2>2, <2>3, <2>4
  <2>7. Grows(s)
    BY <1>1, <2>1, <2>3, <2>5, <2>6 DEF Grows, NextRow, Place
  <2> QED
    BY <2>7
<1>4. CASE q - clock > 1 /\ Place(<<Slot("READ", TRUE, clock)>>, q - clock + 1)
  <2> DEFINE t == Slot("READ", TRUE, clock)
  <2>3. t \in SlotType /\ t.row = "READ" /\ t.wait = TRUE /\ t.cycle = clock /\ t.found = q
    BY <1>1, ProgramShape DEF ScheduleInv, Slot, SlotType, Row, t
  <2> HIDE DEF t
  <2>4. Leads(t, clock', q')
    BY <1>1, <1>4, <2>3 DEF Leads, Place
  <2> QED
    <3>1. q - clock + 1 \in Nat /\ Place(<<t>>, q - clock + 1)
      BY <1>1, <1>4 DEF t
    <3> QED
      BY <1>1, <2>3, <2>4, <3>1, OneGrows
<1> QED
  BY <1>2, <1>3, <1>4 DEF PlaceRead

(* A branch, with the saving of its edge.                                     *)
LEMMA BranchGrows ==
  ASSUME ScheduleInv, PlaceBranch
  PROVE  \E s : Grows(s)
<1>1. /\ clock \in Nat /\ q \in Int /\ applied \in Nat /\ NewRow = "BRANCH" /\ q' = q
      /\ \A t \in DOMAIN base : base[t] \in Int
  BY ProgramShape DEF ScheduleInv, Typed, PlaceBranch, NextRow, NewRow
<1> DEFINE t == Slot("BRANCH", FALSE, clock)
           g == Target(current)
<1>2. t \in SlotType /\ t.row = "BRANCH" /\ t.wait = FALSE /\ t.cycle = clock /\ t.found = q
  BY <1>1, ProgramShape DEF ScheduleInv, Slot, SlotType, Row, t
<1> HIDE DEF t
<1>3. NextRow("BRANCH") /\ Place(<<t>>, 1)
  BY DEF PlaceBranch, t
<1>4. clock' = clock + 1
  BY <1>3 DEF Place
<1>5. Leads(t, clock', q')
  BY <1>1, <1>2, <1>4 DEF Leads
<1>6. base' = [x \in DOMAIN base \cup {g} |->
                 IF x = g /\ (x \in DOMAIN base => EdgeBase > base[x]) THEN EdgeBase ELSE base[x]]
  BY DEF PlaceBranch, Target
<1>7. EdgeBase \in Int /\ EdgeBase = applied - clock' - 1
  BY <1>1, <1>4 DEF EdgeBase
<1>8. /\ DOMAIN base' = DOMAIN base \cup {g}
      /\ \A x \in DOMAIN base : x # g => base'[x] = base[x]
      /\ base'[g] \in Int
      /\ base'[g] >= applied - clock' - 1
      /\ base'[g] = applied - clock' - 1 \/ (g \in DOMAIN base /\ base'[g] = base[g])
      /\ g \in DOMAIN base => base'[g] >= base[g]
  <2> HIDE DEF g
  <2>1. /\ DOMAIN base' = DOMAIN base \cup {g}
        /\ \A x \in DOMAIN base : x # g => base'[x] = base[x]
        /\ base'[g] = IF g \in DOMAIN base => EdgeBase > base[g] THEN EdgeBase ELSE base[g]
    BY <1>6
  <2>2. g \in DOMAIN base => base[g] \in Int
    BY <1>1
  <2> QED
    BY <1>7, <2>1, <2>2
<1> QED
  BY <1>1, <1>2, <1>3, <1>5, <1>8, OneGrows

-----------------------------------------------------------------------------
(* Entering and leaving a block *)

(* A new block has one place, and its entry is the last place of the one above. *)
LEMMA EnterFrozen ==
  ASSUME ScheduleInv, EnterBlock
  PROVE  /\ current \in DOMAIN program /\ current \in Nat \ {0} /\ Len(entered) = current - 1
         /\ Len(entered') = current /\ Entered' = 1 .. current
         /\ \A b \in Entered : b < current
         /\ \A b \in Entered' : b = current \/ b \in Entered
         /\ Skew \in Nat /\ Skew >= applied /\ applied = SkewOf(current - 1)
         /\ entered' \in Seq(EntryType)
         /\ \A b \in Entered : entered'[b] = entered[b]
         /\ entered'[current] = [cycle |-> clock, skew |-> Skew, found |-> q]
         /\ \A b \in 0 .. current - 1 : SkewOf(b)' = SkewOf(b)
         /\ \A b : b = current => SkewOf(b)' = Skew
         /\ code' = code /\ code[current] = <<>>
         /\ \A b \in Entered : \A k \in Places(b) :
              Cycle(b, k)' = Cycle(b, k) /\ Found(b, k)' = Found(b, k)
         /\ \A b : b = current => Cycle(b, 1)' = clock /\ Found(b, 1)' = q'
<1> DEFINE r == [cycle |-> clock, skew |-> Skew, found |-> q]
<1>1. Typed /\ Counted
  BY DEF ScheduleInv
<1>2. /\ current \in DOMAIN program /\ current \in Nat \ {0} /\ Len(entered) = current - 1
      /\ clock \in Nat /\ q \in Int /\ applied \in Nat
  BY <1>1, ProgramShape DEF EnterBlock, Scheduling, Counted, Typed
<1>3. Skew \in Nat /\ Skew >= applied
  <2>1. current \in DOMAIN base => base[current] \in Int
    BY <1>1 DEF Typed
  <2> QED
    BY <1>2, <2>1 DEF Skew
<1>4. r \in EntryType
  BY <1>2, <1>3 DEF EntryType
<1> HIDE DEF r
<1>5. entered' = Append(entered, r) /\ entered \in Seq(EntryType) /\ code' = code /\ clock' = clock
  BY <1>1 DEF EnterBlock, Typed, r
<1>6. /\ entered' \in Seq(EntryType) /\ Len(entered') = current
      /\ \A b \in 1 .. current - 1 : entered'[b] = entered[b]
      /\ entered'[current] = r
  BY <1>2, <1>4, <1>5
<1>7. /\ Entered = 1 .. current - 1 /\ Entered' = 1 .. current
      /\ \A b \in Entered : b < current
      /\ \A b \in Entered' : b = current \/ b \in Entered
  BY <1>2, <1>6 DEF Entered
<1>8. applied = SkewOf(current - 1)
  BY <1>1, <1>2 DEF Counted
<1>9. /\ \A b \in 0 .. current - 1 : SkewOf(b)' = SkewOf(b)
      /\ \A b : b = current => SkewOf(b)' = Skew
  BY <1>2, <1>6 DEF SkewOf, r
<1>10. code[current] = <<>>
  BY <1>1, <1>2 DEF Counted
<1>11. ASSUME NEW b \in Entered, NEW k \in Places(b)
       PROVE  Cycle(b, k)' = Cycle(b, k) /\ Found(b, k)' = Found(b, k)
  <2>1. b \in Nat /\ b < current
    BY <1>2, <1>7
  <2>2. CASE k \in DOMAIN code[b]
    BY <1>5, <2>2 DEF Cycle, Found
  <2>3. CASE k \notin DOMAIN code[b] /\ b < current - 1
    <3>1. b + 1 \in 1 .. current - 1
      BY <1>2, <2>1, <2>3
    <3> QED
      BY <1>2, <1>5, <1>6, <2>1, <2>3, <3>1 DEF Cycle, Found
  <2>4. CASE k \notin DOMAIN code[b] /\ b = current - 1
    <3>1. b + 1 = current /\ b < Len(entered') /\ ~(b < Len(entered))
      BY <1>2, <1>6, <2>1, <2>4
    <3>2. entered'[b + 1].cycle = clock /\ entered'[b + 1].found = q
      BY <1>6, <3>1 DEF r
    <3> QED
      BY <1>5, <2>4, <3>1, <3>2 DEF Cycle, Found
  <2> QED
    BY <1>2, <2>1, <2>2, <2>3, <2>4
<1>12. ASSUME NEW b, b = current
       PROVE  Cycle(b, 1)' = clock /\ Found(b, 1)' = q'
  <2>1. 1 \notin DOMAIN code'[b] /\ ~(b < Len(entered'))
    BY <1>2, <1>5, <1>6, <1>10, <1>12
  <2> QED
    BY <1>5, <2>1 DEF Cycle, Found
<1> QED
  BY <1>2, <1>3, <1>5, <1>6, <1>7, <1>8, <1>9, <1>10, <1>11, <1>12 DEF r

(* A block that is entered begins where the one above ends, put off by its    *)
(* skew.                                                                      *)
LEMMA EnterKnown ==
  ASSUME ScheduleInv, EnterBlock
  PROVE  Typed' /\ Counted' /\ RowsFrom' /\ SlotsLead' /\ BlocksBegin'
<1>1. Typed /\ Counted /\ RowsFrom /\ SlotsLead /\ BlocksBegin
  BY DEF ScheduleInv
<1>2. /\ program' = program /\ current' = current /\ offset' = 0 /\ offset = -1
      /\ code' = code /\ clock' = clock /\ base' = base /\ applied' = Skew
      /\ q' = IF q >= 0 THEN q + (Skew - applied) ELSE q
  BY DEF EnterBlock
<1>3. /\ current \in DOMAIN program /\ current \in Nat \ {0} /\ Len(entered') = current
      /\ Skew \in Nat /\ applied \in Nat /\ q \in Int
      /\ \A b \in Entered : b \in 1 .. current - 1
      /\ \A b \in Entered' : b = current \/ b \in Entered
  BY <1>1, EnterFrozen DEF Typed, Entered
<1>4. Typed'
  BY <1>1, <1>2, <1>3, EnterFrozen DEF Typed
<1>5. Counted'
  <2>1. Scheduling' <=> Scheduling
    BY <1>2 DEF Scheduling
  <2>2. Scheduling /\ 0 \in -1 .. Len(program[current].rows)
    BY <1>1, <1>3, ProgramShape DEF EnterBlock
  <2>3. Len(entered') = current /\ applied' = SkewOf(Len(entered))'
    BY <1>2, <1>3, EnterFrozen
  <2>4. ASSUME NEW b \in DOMAIN program, b > current PROVE code[b] = <<>>
    <3>1. b > Len(entered)
      BY <1>1, <1>3, <2>4, EnterFrozen, ProgramShape
    <3> QED
      BY <1>1, <3>1 DEF Counted
  <2> QED
    BY <1>2, <1>3, <2>1, <2>2, <2>3, <2>4 DEF Counted
<1>6. RowsFrom'
  <2>1. ASSUME NEW b \in Entered
        PROVE  b # current
    BY <1>3
  <2>2. DOMAIN code[current] = {}
    BY EnterFrozen
  <2> QED
    BY <1>1, <1>2, <1>3, <2>1, <2>2 DEF RowsFrom
<1>7. ASSUME NEW b \in Entered, NEW k \in DOMAIN code[b]
      PROVE  Leads(code[b][k], Cycle(b, k + 1)', Found(b, k + 1)')
  <2>0. b \in DOMAIN program
    BY <1>1, PlaceTypes
  <2>1. k + 1 \in Places(b)
    BY <1>1, <2>0, ProgramShape DEF Places, End
  <2>2. \A i : i = k + 1 => Cycle(b, i)' = Cycle(b, i) /\ Found(b, i)' = Found(b, i)
    BY <2>1, EnterFrozen
  <2>3. Cycle(b, k + 1)' = Cycle(b, k + 1) /\ Found(b, k + 1)' = Found(b, k + 1)
    BY <2>2
  <2> QED
    BY <1>1, <2>3 DEF SlotsLead
<1>8. SlotsLead'
  <2>1. DOMAIN code[current] = {}
    BY EnterFrozen
  <2> QED
    BY <1>2, <1>3, <1>7, <2>1 DEF SlotsLead
<1>9. ASSUME NEW b \in Entered PROVE BlockBegins(b)'
  <2>1. 1 \in Places(b)
    BY <1>1, PlaceTypes
  <2>2. Cycle(b, 1)' = Cycle(b, 1) /\ Found(b, 1)' = Found(b, 1)
    BY <2>1, EnterFrozen
  <2>3. b \in 0 .. current - 1 /\ b - 1 \in 0 .. current - 1
    BY <1>3
  <2>4. SkewOf(b)' = SkewOf(b)
    BY <2>3, EnterFrozen
  <2>5. \A i \in 0 .. current - 1 : SkewOf(i)' = SkewOf(i)
    BY EnterFrozen
  <2>6. SkewOf(b - 1)' = SkewOf(b - 1)
    BY <2>3, <2>5
  <2>7. entered'[b] = entered[b]
    BY EnterFrozen
  <2> QED
    BY <1>1, <2>2, <2>4, <2>6, <2>7 DEF BlocksBegin, BlockBegins
<1>10. ASSUME NEW b, b = current PROVE BlockBegins(b)'
  <2>1. /\ Cycle(b, 1)' = clock /\ Found(b, 1)' = q' /\ SkewOf(b)' = Skew
        /\ entered'[b].cycle = clock /\ entered'[b].found = q
    BY <1>10, EnterFrozen
  <2>2. b - 1 \in 0 .. current - 1
    BY <1>3, <1>10
  <2>3. SkewOf(b - 1)' = SkewOf(b - 1) /\ SkewOf(b - 1) = applied
    <3>1. \A i \in 0 .. current - 1 : SkewOf(i)' = SkewOf(i)
      BY EnterFrozen
    <3>2. SkewOf(current - 1) = applied
      BY EnterFrozen
    <3> QED
      BY <1>10, <2>2, <3>1, <3>2
  <2>4. Skew >= applied
    BY EnterFrozen
  <2> QED
    BY <1>2, <1>3, <2>1, <2>3, <2>4 DEF BlockBegins
<1>11. BlocksBegin'
  BY <1>3, <1>9, <1>10 DEF BlocksBegin
<1> QED
  BY <1>4, <1>5, <1>6, <1>8, <1>11

(* Its skew covers every edge recorded for it.                                *)
LEMMA EnterEdges ==
  ASSUME ScheduleInv, EnterBlock
  PROVE  EdgesRecorded'
<1>1. Typed /\ Counted /\ EdgesRecorded
  BY DEF ScheduleInv
<1>2. /\ program' = program /\ code' = code /\ base' = base /\ code[current] = <<>>
      /\ current \in Nat \ {0}
      /\ \A b \in Entered : b \in 1 .. current - 1
      /\ \A b \in Entered' : b = current \/ b \in Entered
      /\ \A b \in Entered : b \in Entered'
  BY EnterFrozen DEF EnterBlock, Entered
<1>3. \A b : Target(b)' = Target(b) /\ BranchOut(b)' = BranchOut(b) /\ End(b)' = End(b)
  BY <1>2 DEF Target, BranchOut, End
<1>4. ASSUME NEW b \in Entered PROVE Real(b, End(b))' = Real(b, End(b))
  <2>1. ASSUME NEW i, i = End(b)
        PROVE  Real(b, i)' = Real(b, i)
    <3>1. i \in Places(b) /\ b \in 0 .. current - 1
      BY <1>1, <1>2, <2>1, PlaceTypes
    <3> QED
      BY <3>1, EnterFrozen DEF Real
  <2> QED
    BY <1>3, <2>1
<1>5. \A b \in Entered' : BranchOut(b) => b \in Entered
  BY <1>2 DEF BranchOut
<1>6. ASSUME NEW b \in Entered', BranchOut(b)
      PROVE  Target(b) \in DOMAIN base /\ base[Target(b)] >= -Real(b, End(b))' - 1
  BY <1>1, <1>4, <1>5, <1>6 DEF EdgesRecorded
<1>7. ASSUME NEW t \in DOMAIN base
      PROVE  \E b \in Entered' : BranchOut(b) /\ Target(b) = t /\ base[t] = -Real(b, End(b))' - 1
  BY <1>1, <1>2, <1>4 DEF EdgesRecorded
<1>8. ASSUME NEW t \in Entered', t \in DOMAIN base
      PROVE  SkewOf(t)' >= base[t] + entered'[t].cycle
  <2>1. CASE t = current
    <3>1. SkewOf(t)' = Skew /\ entered'[t].cycle = clock
      BY <2>1, EnterFrozen
    <3>2. base[t] \in Int /\ clock \in Nat /\ applied \in Nat
      BY <1>1, <1>8 DEF Typed
    <3> QED
      BY <1>8, <2>1, <3>1, <3>2 DEF Skew
  <2>2. CASE t \in Entered
    <3>1. SkewOf(t)' = SkewOf(t) /\ entered'[t] = entered[t]
      <4>1. t \in 0 .. current - 1
        BY <1>2, <2>2
      <4> QED
        BY <2>2, <4>1, EnterFrozen
    <3> QED
      BY <1>1, <1>8, <2>2, <3>1 DEF EdgesRecorded
  <2> QED
    BY <1>2, <2>1, <2>2
<1> QED
  BY <1>2, <1>3, <1>6, <1>7, <1>8 DEF EdgesRecorded

(* What is known of places depends on nothing else.                           *)
LEMMA PlacesStay ==
  ASSUME ScheduleInv, UNCHANGED <<program, code, clock, q, base, entered>>
  PROVE  SlotsLead' /\ BlocksBegin' /\ EdgesRecorded' /\ SkippedPlaces'
<1>1. SlotsLead /\ BlocksBegin /\ EdgesRecorded /\ SkippedPlaces
  BY DEF ScheduleInv
<1>2. SlotsLead'
  BY <1>1 DEF SlotsLead, Entered, Cycle, Found
<1>3. BlocksBegin'
  BY <1>1 DEF BlocksBegin, BlockBegins, Entered, SkewOf, Cycle, Found
<1>4. EdgesRecorded'
  BY <1>1 DEF EdgesRecorded, Entered, Real, End, BranchOut, Target, Cycle, SkewOf
<1>5. /\ \A b : BranchOut(b)' <=> BranchOut(b)
      /\ \A b : Target(b)' = Target(b)
      /\ \A b : Places(b)' = Places(b)
      /\ \A c : NoneLandsIn(c)' <=> NoneLandsIn(c)
      /\ \A c : SkipsNoDivision(c)' <=> SkipsNoDivision(c)
      /\ \A c : SkipsWhole(c)' <=> SkipsWhole(c)
  BY DEF BranchOut, Target, Places, End, NoneLandsIn, SkipsNoDivision, SkipsWhole, Branches,
     Divisions, Skipped
<1>6. /\ \A b, k : Real(b, k)' = Real(b, k)
      /\ \A c : Real(c, End(c))' = Real(c, End(c))
  BY DEF Real, Cycle, SkewOf, End
<1>7. \A c, b, k : Same(c, b, k)' <=> Same(c, b, k)
  BY DEF Same, Due, Found, SkewOf, End
<1>8. \A c, b, k : Late(c, b, k)' <=> Late(c, b, k)
  BY DEF Late, Due, Found, SkewOf, End, Real, Cycle, Divisions
<1>9. SkippedPlaces'
  BY <1>1, <1>5, <1>6, <1>7, <1>8 DEF SkippedPlaces, Entered
<1> QED
  BY <1>2, <1>3, <1>4, <1>9

(* If a branch skips it, its entry is no sooner than that branch.             *)
LEMMA EnterSkipped ==
  ASSUME ScheduleInv, EnterBlock
  PROVE  SkippedPlaces'
<1>1. Typed /\ Counted /\ SkippedPlaces /\ BlocksBegin /\ EdgesRecorded
  BY DEF ScheduleInv
<1>2. /\ program' = program /\ code' = code /\ code[current] = <<>>
      /\ current \in Nat \ {0} /\ current \in DOMAIN program /\ Len(entered) = current - 1
      /\ Len(entered') = current
      /\ \A b \in Entered : b \in 1 .. current - 1
      /\ \A b \in Entered' : b = current \/ b \in Entered
      /\ Skew \in Nat /\ applied \in Nat /\ clock \in Nat /\ q \in Int
      /\ q' = IF q >= 0 THEN q + (Skew - applied) ELSE q
      /\ applied = SkewOf(current - 1)
  BY <1>1, EnterFrozen DEF EnterBlock, Entered, Typed
<1>3. /\ \A b : BranchOut(b)' <=> BranchOut(b)
      /\ \A b : Target(b)' = Target(b)
      /\ \A b : Places(b)' = Places(b)
      /\ \A b : End(b)' = End(b)
      /\ \A a : Divisions(a)' = Divisions(a)
      /\ \A c : NoneLandsIn(c)' <=> NoneLandsIn(c)
      /\ \A c : SkipsNoDivision(c)' <=> SkipsNoDivision(c)
      /\ \A c : SkipsWhole(c)' <=> SkipsWhole(c)
  BY <1>2 DEF BranchOut, Target, Places, End, NoneLandsIn, SkipsNoDivision, SkipsWhole, Branches,
     Divisions, Skipped
<1>4. ASSUME NEW b \in Entered, NEW k \in Places(b)
      PROVE  Real(b, k)' = Real(b, k) /\ Due(b, k)' = Due(b, k) /\ Found(b, k)' = Found(b, k)
  <2>1. b \in 0 .. current - 1
    BY <1>2
  <2> QED
    BY <2>1, EnterFrozen DEF Real, Due
<1>5. ASSUME NEW c \in Entered
      PROVE  /\ Real(c, End(c))' = Real(c, End(c)) /\ Due(c, End(c))' = Due(c, End(c))
             /\ Found(c, End(c))' = Found(c, End(c)) /\ Real(c, End(c)) \in Int
             /\ Due(c, End(c)) \in Int /\ Found(c, End(c)) \in Int
  <2>1. ASSUME NEW i, i = End(c)
        PROVE  /\ Real(c, i)' = Real(c, i) /\ Due(c, i)' = Due(c, i) /\ Found(c, i)' = Found(c, i)
               /\ Real(c, i) \in Int /\ Due(c, i) \in Int /\ Found(c, i) \in Int
    <3>1. i \in Places(c)
      BY <1>1, <2>1, PlaceTypes
    <3>2. Cycle(c, i) \in Nat /\ Found(c, i) \in Int /\ SkewOf(c) \in Nat
      BY <1>1, <3>1, PlaceTypes
    <3> QED
      BY <1>4, <3>1, <3>2 DEF Real, Due
  <2> QED
    BY <1>3, <2>1
<1>6. ASSUME NEW c \in Entered', NEW b \in c + 1 .. Len(entered'), BranchOut(c), b < Target(c),
             NEW k \in Places(b)
      PROVE  /\ NoneLandsIn(c) => Real(b, k)' >= Real(c, End(c))'
             /\ SkipsNoDivision(c) => Same(c, b, k)'
             /\ SkipsWhole(c) => Same(c, b, k)' \/ Late(c, b, k)'
  <2>1. c \in Entered /\ c \in Nat /\ b \in Nat /\ c < b /\ b <= current /\ c <= current - 1
    <3>1. c # current
      BY <1>2, <1>6 DEF BranchOut
    <3>2. c \in Entered
      BY <1>2, <3>1
    <3> QED
      BY <1>2, <1>6, <3>2
  <2>2. CASE b # current
    <3>1. b \in Entered /\ b \in c + 1 .. Len(entered)
      BY <1>2, <2>1, <2>2 DEF Entered
    <3>2. /\ NoneLandsIn(c) => Real(b, k) >= Real(c, End(c))
          /\ SkipsNoDivision(c) => Same(c, b, k)
          /\ SkipsWhole(c) => Same(c, b, k) \/ Late(c, b, k)
      BY <1>1, <1>6, <2>1, <3>1 DEF SkippedPlaces
    <3>3. Same(c, b, k) => Same(c, b, k)'
      BY <1>4, <1>5, <2>1, <3>1 DEF Same
    <3>4. Late(c, b, k) => Late(c, b, k)'
      BY <1>3, <1>4, <1>5, <2>1, <3>1 DEF Late
    <3> QED
      BY <1>4, <1>5, <2>1, <3>1, <3>2, <3>3, <3>4
  <2>3. CASE b = current
    <3> DEFINE p == current - 1
               e == End(p)
               R == Real(c, End(c))
    <3>1. k = 1
      BY <1>2, <1>6, <2>3 DEF Places, End
    <3>2. Real(b, k)' = clock - Skew /\ Due(b, k)' = q' - Skew /\ Found(b, k)' = q'
      BY <2>3, <3>1, EnterFrozen DEF Real, Due
    <3>3. /\ p \in Entered /\ e \in Places(p) /\ c <= p /\ p < Target(c)
          /\ Cycle(p, e) = clock /\ Found(p, e) = q
      <4>1. p \in Entered /\ c <= p /\ p < Target(c)
        <5>1. Target(c) \in Nat
          BY <1>1, <2>1, PlaceTypes, ProgramShape
        <5> QED
          BY <1>2, <1>6, <2>1, <2>3, <5>1 DEF Entered
      <4>2. e \in Places(p) /\ e \notin DOMAIN code[p]
        BY <1>1, <4>1, PlaceTypes, ProgramShape DEF End
      <4>3. ~(p < Len(entered))
        BY <1>2
      <4> QED
        BY <4>1, <4>2, <4>3 DEF Cycle, Found
    <3>4. Real(p, e) = clock - applied /\ Due(p, e) = q - applied
      BY <1>2, <3>3 DEF Real, Due
    <3>5. /\ NoneLandsIn(c) => Real(p, e) >= R
          /\ SkipsNoDivision(c) => Same(c, p, e)
          /\ SkipsWhole(c) => Same(c, p, e) \/ Late(c, p, e)
      <4>1. CASE p = c
        <5>1. Real(p, e) >= R
          BY <1>5, <3>3, <4>1
        <5>2. Same(c, p, e)
          BY <1>5, <3>3, <4>1 DEF Same
        <5> QED
          BY <5>1, <5>2
      <4>2. CASE p # c
        <5>1. p \in c + 1 .. Len(entered)
          BY <1>2, <2>1, <3>3, <4>2
        <5> QED
          BY <1>1, <1>6, <2>1, <3>3, <5>1 DEF SkippedPlaces
      <4> QED
        BY <4>1, <4>2
    <3> HIDE DEF p, e
    <3>6. ASSUME NoneLandsIn(c) PROVE clock - Skew >= R
      <4>1. CASE Skew = applied
        BY <3>4, <3>5, <3>6, <4>1
      <4>2. CASE Skew # applied
        <5>1. current \in DOMAIN base /\ Skew = base[current] + clock
          BY <4>2 DEF Skew
        <5>2. PICK x \in Entered :
                BranchOut(x) /\ Target(x) = current /\ base[current] = -Real(x, End(x)) - 1
          BY <1>1, <5>1 DEF EdgesRecorded
        <5>3. x \in Branches
          <6>1. x \in DOMAIN program
            BY <1>1, <5>2, PlaceTypes
          <6>2. Len(code[x]) \in DOMAIN code[x] /\ code[x][Len(code[x])].row = "BRANCH"
            BY <1>1, <5>2, <6>1, ProgramShape DEF BranchOut
          <6>3. \E i \in DOMAIN program[x].rows : program[x].rows[i] = "BRANCH"
            BY <6>2 DEF ScheduleInv, RowsFrom
          <6> QED
            BY <6>1, <6>3 DEF Branches
        <5>4. current \in Skipped(c)
          <6>1. Target(c) \in Nat
            BY <1>1, <2>1, PlaceTypes, ProgramShape
          <6> QED
            BY <1>2, <1>6, <2>1, <2>3, <6>1 DEF Skipped, Target
        <5>5. ~(x < c) /\ x # c
          <6>1. ~(x < c)
            BY <3>6, <5>2, <5>3, <5>4 DEF NoneLandsIn
          <6>2. Target(c) # current
            BY <1>2, <1>6, <2>3
          <6> QED
            BY <5>2, <6>1, <6>2
        <5>6. x \in c + 1 .. Len(entered) /\ x < Target(c)
          <6>1. x \in 1 .. current - 1 /\ Target(c) \in Nat
            BY <1>1, <1>2, <2>1, PlaceTypes, ProgramShape
          <6> QED
            BY <1>2, <1>6, <2>1, <2>3, <5>5, <6>1
        <5>7. End(x) \in Places(x)
          BY <1>1, PlaceTypes
        <5>8. Real(x, End(x)) >= R
          BY <1>1, <1>6, <2>1, <3>6, <5>6, <5>7 DEF SkippedPlaces
        <5>9. Real(x, End(x)) \in Int /\ R \in Int
          BY <1>5, <2>1
        <5> QED
          BY <1>2, <5>1, <5>2, <5>8, <5>9
      <4> QED
        BY <4>1, <4>2
    <3>7. /\ Found(p, e) < 0 => Found(b, k)' < 0
          /\ Found(p, e) >= 0 => Found(b, k)' >= 0 /\ Due(b, k)' = Due(p, e)
      <4>1. Skew >= applied
        BY EnterFrozen
      <4>2. Skew \in Nat /\ applied \in Nat /\ q \in Int
        BY <1>2
      <4>3. q' = IF q >= 0 THEN q + (Skew - applied) ELSE q
        BY <1>2
      <4>4. CASE q >= 0
        <5>1. q' = q + (Skew - applied)
          BY <4>3, <4>4
        <5>2. q' >= 0 /\ q' - Skew = q - applied
          BY <4>1, <4>2, <4>4, <5>1
        <5> QED
          BY <3>2, <3>3, <3>4, <4>2, <4>4, <5>2
      <4>5. CASE ~(q >= 0)
        BY <3>2, <3>3, <4>2, <4>3, <4>5
      <4> QED
        BY <4>4, <4>5
    <3>8. Same(c, p, e) => Same(c, b, k)'
      <4>1. /\ Found(c, End(c))' = Found(c, End(c)) /\ Due(c, End(c))' = Due(c, End(c))
            /\ Found(c, End(c)) \in Int /\ q \in Int
        BY <1>2, <1>5, <2>1
      <4> QED
        BY <3>3, <3>7, <4>1 DEF Same
    <3>9. Late(c, p, e) => Late(c, b, k)'
      <4>1. Late(c, p, e) => Found(b, k)' >= 0 /\ Due(b, k)' = Due(p, e)
        BY <3>7 DEF Late
      <4>2. Real(c, End(c))' = Real(c, End(c))
        BY <1>5, <2>1
      <4> QED
        BY <1>3, <4>1, <4>2 DEF Late
    <3> QED
      BY <1>5, <2>1, <3>2, <3>5, <3>6, <3>8, <3>9
  <2> QED
    BY <2>2, <2>3
<1> QED
  BY <1>3, <1>6 DEF SkippedPlaces

(* Entering a block keeps everything known of the schedule.                   *)
LEMMA EnterKeeps ==
  ASSUME ScheduleInv, EnterBlock
  PROVE  ScheduleInv'
BY EnterKnown, EnterEdges, EnterSkipped DEF ScheduleInv

(* Leaving a block keeps it too.                                              *)
LEMMA LeaveKeeps ==
  ASSUME ScheduleInv, LeaveBlock
  PROVE  ScheduleInv'
<1>1. Typed /\ Counted /\ RowsFrom /\ SlotsLead /\ BlocksBegin /\ EdgesRecorded /\ SkippedPlaces
  BY DEF ScheduleInv
<1>2. /\ current' = current + 1 /\ offset' = -1
      /\ program' = program /\ code' = code /\ clock' = clock /\ q' = q /\ applied' = applied
      /\ base' = base /\ entered' = entered
  BY DEF LeaveBlock
<1>3. /\ current \in 1 .. Len(program) /\ Len(program) \in Nat /\ Len(entered) = current
      /\ current \in Nat
  BY <1>1, ProgramShape DEF LeaveBlock, Scheduling, Typed, Counted
<1>4. Typed'
  BY <1>1, <1>2, <1>3 DEF Typed
<1>5. Counted'
  <2>1. current' \in DOMAIN program => -1 \in -1 .. Len(program[current'].rows)
    BY <1>1, ProgramShape
  <2>2. Scheduling' => current' \in DOMAIN program
    BY <1>1, <1>2, <1>3, ProgramShape DEF Scheduling
  <2>3. Len(entered') = current' - 1 /\ applied' = SkewOf(Len(entered))'
    BY <1>1, <1>2, <1>3 DEF Counted, SkewOf
  <2>4. \A b \in DOMAIN program' : b > Len(entered') => code'[b] = <<>>
    BY <1>1, <1>2 DEF Counted
  <2> QED
    BY <1>2, <2>1, <2>2, <2>3, <2>4 DEF Counted
<1>6. RowsFrom'
  <2>1. \A b \in Entered : b # current + 1
    BY <1>3 DEF Entered
  <2> QED
    BY <1>1, <1>2, <2>1 DEF RowsFrom, Entered
<1> QED
  BY <1>2, <1>4, <1>5, <1>6, PlacesStay DEF ScheduleInv

-----------------------------------------------------------------------------
(* Running: the schedule stays, and the machine goes from place to place. *)

(* Nothing is entered at first.                                               *)
LEMMA InitSkew == Init => SkewInv
<1> SUFFICES ASSUME Init PROVE SkewInv
  OBVIOUS
<1>1. program \in Seq(Block) /\ Len(program) \in Nat /\ DOMAIN program = 1 .. Len(program)
  BY ProgramAssumption DEF Init
<1>2. entered = <<>> /\ Len(entered) = 0 /\ Entered = {} /\ base = <<>> /\ DOMAIN base = {}
  BY DEF Init, Entered
<1>3. Typed
  <2>1. entered \in Seq(EntryType)
    BY <1>2
  <2>2. code \in [DOMAIN program -> Seq(SlotType)]
    BY DEF Init
  <2> QED
    BY <1>1, <1>2, <2>1, <2>2 DEF Init, Typed, Idle
<1>4. Counted
  <2>1. Scheduling => 1 \in DOMAIN program
    BY <1>1 DEF Init, Scheduling
  <2>2. Scheduling => -1 \in -1 .. Len(program[current].rows)
    BY <1>3, <2>1, ProgramShape DEF Init
  <2> QED
    BY <1>2, <2>2 DEF Init, Counted, SkewOf
<1>5. RowsFrom /\ SlotsLead /\ BlocksBegin /\ EdgesRecorded /\ SkippedPlaces
  BY <1>2 DEF RowsFrom, SlotsLead, BlocksBegin, EdgesRecorded, SkippedPlaces
<1>6. ~Running /\ MachineTyped /\ FirstEntry
  BY DEF Init, Running, MachineTyped, FirstEntry, Idle
<1> QED
  BY <1>3, <1>4, <1>5, <1>6 DEF SkewInv, ScheduleInv, LatencyBound, QuotientTracked, NoSooner

(* While the machine runs, every block has been scheduled.                    *)
LEMMA Scheduled ==
  ASSUME Typed, Counted, ~Scheduling
  PROVE  Len(entered) = Len(program) /\ Entered = DOMAIN program
<1>1. Len(program) \in Nat /\ current \in 1 .. Len(program) + 1 /\ current \in Nat
  BY ProgramShape DEF Typed
<1>2. current = Len(program) + 1
  BY <1>1 DEF Scheduling
<1>3. Len(entered) = Len(program)
  BY <1>1, <1>2 DEF Counted
<1> QED
  BY <1>3, ProgramShape DEF Entered

(* The machine stands at a place of a block of the program.                   *)
LEMMA Standpoint ==
  ASSUME ScheduleInv, MachineTyped, Running
  PROVE  /\ ~Scheduling
         /\ Len(entered) = Len(program) /\ Entered = DOMAIN program
         /\ at[1] \in Entered /\ at[1] \in Nat /\ at[2] \in Places(at[1]) /\ at[2] \in Nat
         /\ at = <<at[1], at[2]>>
         /\ End(at[1]) \in Nat
         /\ Cycle(at[1], at[2]) \in Nat /\ Found(at[1], at[2]) \in Int /\ SkewOf(at[1]) \in Nat
<1>1. Typed /\ Counted
  BY DEF ScheduleInv
<1>2. ~Scheduling /\ at # <<0, 0>>
  BY DEF MachineTyped, Running
<1>3. Len(entered) = Len(program) /\ Entered = DOMAIN program
  BY <1>1, <1>2, Scheduled
<1>4. at \in Nat \X Nat /\ at[1] <= Len(program) /\ at[1] \in 1 .. Len(program) + 1
  BY <1>2 DEF MachineTyped, Running
<1>5. at[1] \in Entered /\ at[1] \in Nat /\ at[2] \in Places(at[1]) /\ at[2] \in Nat
  BY <1>1, <1>2, <1>3, <1>4, ProgramShape DEF MachineTyped, Entered
<1>6. at = <<at[1], at[2]>>
  BY <1>4
<1> QED
  BY <1>1, <1>2, <1>3, <1>5, <1>6, PlaceTypes

(* Where it stands at a slot, the slot leads to the next place.               *)
LEMMA AtSlot ==
  ASSUME ScheduleInv, MachineTyped, Running, InBlock
  PROVE  /\ at[2] \in DOMAIN code[at[1]] /\ at[2] + 1 \in Places(at[1])
         /\ Here \in SlotType
         /\ Cycle(at[1], at[2]) = Here.cycle /\ Found(at[1], at[2]) = Here.found
         /\ Cycle(at[1], at[2] + 1) \in Nat /\ Found(at[1], at[2] + 1) \in Int
         /\ Leads(Here, Cycle(at[1], at[2] + 1), Found(at[1], at[2] + 1))
<1> DEFINE b == at[1]
           k == at[2]
<1>1. Typed /\ Counted /\ SlotsLead
  BY DEF ScheduleInv
<1>2. b \in Entered /\ b \in DOMAIN program /\ k \in Places(b) /\ k \in Nat
  BY <1>1, Standpoint, PlaceTypes
<1>3. code[b] \in Seq(SlotType) /\ Len(code[b]) \in Nat /\ DOMAIN code[b] = 1 .. Len(code[b])
  BY <1>1, <1>2, ProgramShape
<1>4. k \in DOMAIN code[b] /\ k + 1 \in Places(b)
  BY <1>2, <1>3 DEF InBlock, Places, End
<1>5. code[b][k] \in SlotType /\ Leads(code[b][k], Cycle(b, k + 1), Found(b, k + 1))
  BY <1>1, <1>2, <1>3, <1>4 DEF SlotsLead
<1>6. Cycle(b, k) = code[b][k].cycle /\ Found(b, k) = code[b][k].found
  BY <1>4 DEF Cycle, Found
<1> QED
  BY <1>1, <1>2, <1>4, <1>5, <1>6, PlaceTypes DEF Here

(* A step of the machine to a place where what it must know there holds.      *)
LEMMA StepKeeps ==
  ASSUME SkewInv, ~Scheduling, UNCHANGED <<program, scheduler>>,
         NEW b \in 1 .. Len(program) + 1, NEW k \in Nat, at' = <<b, k>>,
         b <= Len(program) => k \in Places(b),
         now' \in Nat, ready' \in Int, labels' \in Nat, before' \in 0 .. labels',
         b <= Len(program) =>
           /\ Bounded(b, ready', now')
           /\ Standing => Tracked(b, k, ready', now', labels' - before')
           /\ Skipless => Covered(b, k, ready' + labels', now' + labels')
  PROVE  SkewInv'
<1>1. /\ program' = program /\ current' = current /\ offset' = offset /\ code' = code
      /\ clock' = clock /\ q' = q /\ applied' = applied /\ base' = base /\ entered' = entered
  BY DEF scheduler
<1>2. Typed /\ Counted /\ RowsFrom /\ FirstEntry
  BY DEF SkewInv, ScheduleInv
<1>3. ScheduleInv'
  <2>1. Typed'
    BY <1>1, <1>2 DEF Typed
  <2>2. Counted'
    BY <1>1, <1>2 DEF Counted, Scheduling, SkewOf
  <2>3. RowsFrom'
    BY <1>1, <1>2 DEF RowsFrom, Entered
  <2>4. SlotsLead' /\ BlocksBegin' /\ EdgesRecorded' /\ SkippedPlaces'
    BY <1>1, PlacesStay DEF SkewInv
  <2> QED
    BY <2>1, <2>2, <2>3, <2>4 DEF ScheduleInv
<1>4. FirstEntry'
  BY <1>1, <1>2 DEF FirstEntry
<1>5. b \in Nat /\ Len(program) \in Nat /\ at' # <<0, 0>> /\ at'[1] = b /\ at'[2] = k
  BY <1>2, ProgramShape
<1>6. MachineTyped'
  <2>1. ~(Scheduling')
    BY <1>1 DEF Scheduling
  <2>2. at' \in Nat \X Nat
    BY <1>5
  <2>3. at'[1] <= Len(program') => at'[2] \in 1 .. Len(code'[at'[1]]) + 1
    BY <1>1, <1>5 DEF Places, End
  <2> QED
    BY <1>1, <1>5, <2>1, <2>2, <2>3 DEF MachineTyped, Places, End
<1>7. Running' => b <= Len(program)
  BY <1>1, <1>5 DEF Running
<1>8. /\ \A i, r, n : Bounded(i, r, n)' = Bounded(i, r, n)
      /\ \A i, j, r, n, l : Tracked(i, j, r, n, l)' = Tracked(i, j, r, n, l)
      /\ \A i, j, r, n : Covered(i, j, r, n)' = Covered(i, j, r, n)
  BY <1>1 DEF Bounded, Divisions, Tracked, Covered, Real, Due, Found, Cycle, SkewOf
<1>9. (Standing' <=> Standing) /\ (Skipless' <=> Skipless)
  BY <1>1 DEF Standing, Skipless, Branches, SkipsNoDivision, SkipsWhole, Skipped, Divisions
<1>10. LatencyBound'
  <2>1. Running' => Bounded(b, ready', now')
    BY <1>7
  <2> QED
    BY <1>1, <1>5, <2>1 DEF LatencyBound, Bounded, Divisions
<1>11. QuotientTracked'
  <2>1. Standing' /\ Running' => Tracked(b, k, ready', now', labels' - before')
    BY <1>7, <1>9
  <2> QED
    BY <1>1, <1>5, <2>1 DEF QuotientTracked, Tracked, Found, Cycle
<1>12. NoSooner'
  <2>1. Skipless' /\ Running' => Covered(b, k, ready' + labels', now' + labels')
    BY <1>7, <1>9
  <2> QED
    BY <1>1, <1>5, <2>1 DEF NoSooner, Covered, Real, Due, Found, Cycle, SkewOf
<1> QED
  BY <1>3, <1>4, <1>6, <1>10, <1>11, <1>12 DEF SkewInv

(* Falling into the block below: the skew only grows, and what is under way   *)
(* is put off by as much.                                                     *)
LEMMA Falling ==
  ASSUME ScheduleInv, NEW b \in Entered, b < Len(entered)
  PROVE  /\ b + 1 \in Entered
         /\ Real(b + 1, 1) <= Real(b, End(b))
         /\ Found(b, End(b)) < 0 => Found(b + 1, 1) < 0
         /\ Found(b, End(b)) >= 0 => Found(b + 1, 1) >= 0 /\ Due(b + 1, 1) = Due(b, End(b))
         /\ Found(b, End(b)) - Cycle(b, End(b)) <= Found(b + 1, 1) - Cycle(b + 1, 1)
         /\ Real(b + 1, 1) \in Int /\ Due(b + 1, 1) \in Int
<1> DEFINE t == b + 1
           e == End(b)
<1>1. Typed /\ Counted /\ BlocksBegin
  BY DEF ScheduleInv
<1>2. b \in Nat /\ t \in Entered /\ t \in Nat /\ b \in DOMAIN program /\ t - 1 = b
  <2>1. b \in Nat /\ b \in DOMAIN program /\ Len(entered) \in Nat
    BY <1>1, PlaceTypes
  <2> QED
    BY <2>1 DEF Entered
<1>3. e \notin DOMAIN code[b]
  BY <1>1, <1>2, ProgramShape DEF End
<1>4. Cycle(b, e) = entered[t].cycle /\ Found(b, e) = entered[t].found
  BY <1>3 DEF Cycle, Found
<1>5. BlockBegins(t)
  BY <1>1, <1>2 DEF BlocksBegin
<1>6. /\ Cycle(t, 1) = Cycle(b, e) /\ SkewOf(t) >= SkewOf(b)
      /\ Found(t, 1) = IF Found(b, e) >= 0 THEN Found(b, e) + SkewOf(t) - SkewOf(b) ELSE Found(b, e)
  BY <1>2, <1>4, <1>5 DEF BlockBegins
<1>7. /\ SkewOf(t) \in Nat /\ SkewOf(b) \in Nat /\ Cycle(b, e) \in Nat /\ Found(b, e) \in Int
  BY <1>1, <1>2, PlaceTypes
<1> HIDE DEF t, e
<1>8. /\ Real(t, 1) <= Real(b, e)
      /\ Real(t, 1) \in Int
  BY <1>6, <1>7 DEF Real
<1>9. /\ Found(b, e) < 0 => Found(t, 1) < 0
      /\ Found(b, e) >= 0 => Found(t, 1) >= 0 /\ Due(t, 1) = Due(b, e)
      /\ Found(b, e) - Cycle(b, e) <= Found(t, 1) - Cycle(t, 1)
      /\ Due(t, 1) \in Int
  <2>1. CASE Found(b, e) >= 0
    BY <1>6, <1>7, <2>1 DEF Due
  <2>2. CASE ~(Found(b, e) >= 0)
    BY <1>6, <1>7, <2>2 DEF Due
  <2> QED
    BY <2>1, <2>2
<1> QED
  BY <1>2, <1>8, <1>9 DEF t, e

(* Landing at the target of a branch.                                         *)
LEMMA Landing ==
  ASSUME ScheduleInv, ~Scheduling, NEW c \in Entered, BranchOut(c), NEW t, t = Target(c)
  PROVE  /\ c \in Branches
         /\ t \in Entered /\ t > c
         /\ Real(t, 1) <= Real(c, End(c)) + 1
         /\ SkipsNoDivision(c) => Same(c, t, 1)
         /\ SkipsWhole(c) => Same(c, t, 1) \/ Late(c, t, 1)
<1>1. Typed /\ Counted /\ RowsFrom /\ BlocksBegin /\ EdgesRecorded /\ SkippedPlaces
  BY DEF ScheduleInv
<1>2. Len(entered) = Len(program) /\ Entered = DOMAIN program /\ c \in Nat /\ c \in DOMAIN program
  BY <1>1, Scheduled, PlaceTypes
<1>3. c \in Branches
  <2>1. Len(code[c]) \in DOMAIN code[c] /\ code[c][Len(code[c])].row = "BRANCH"
    BY <1>1, <1>2, ProgramShape DEF BranchOut
  <2>2. \E i \in DOMAIN program[c].rows : program[c].rows[i] = "BRANCH"
    BY <1>1, <2>1 DEF RowsFrom
  <2> QED
    BY <1>2, <2>2 DEF Branches
<1>4. t \in c + 1 .. Len(program) /\ t \in Entered /\ t \in Nat /\ t > c /\ Len(program) \in Nat
  BY <1>1, <1>2, <1>3, ProgramShape
<1>5. /\ End(c) \in Places(c) /\ Cycle(c, End(c)) \in Nat /\ Found(c, End(c)) \in Int
      /\ SkewOf(c) \in Nat /\ SkewOf(t) \in Nat /\ Cycle(t, 1) \in Nat /\ Found(t, 1) \in Int
  BY <1>1, <1>2, <1>4, PlaceTypes
<1>6. Real(c, End(c)) \in Int /\ Due(c, End(c)) \in Int
  BY <1>5 DEF Real, Due
<1>7. Real(t, 1) <= Real(c, End(c)) + 1
  <2>1. t \in DOMAIN base /\ base[t] >= -Real(c, End(c)) - 1
    BY <1>1 DEF EdgesRecorded
  <2>2. SkewOf(t) >= base[t] + entered[t].cycle
    BY <1>1, <1>4, <2>1 DEF EdgesRecorded
  <2>3. Cycle(t, 1) = entered[t].cycle /\ base[t] \in Int
    BY <1>1, <1>4, <2>1 DEF BlocksBegin, BlockBegins, Typed
  <2> QED
    BY <1>5, <1>6, <2>1, <2>2, <2>3 DEF Real
<1> DEFINE p == t - 1
           e == End(p)
<1>8. p \in Entered /\ p < Len(entered) /\ p + 1 = t /\ c <= p /\ p \in Nat
  BY <1>2, <1>4 DEF Entered
<1>9. /\ SkipsNoDivision(c) => Same(c, p, e)
      /\ SkipsWhole(c) => Same(c, p, e) \/ Late(c, p, e)
  <2>1. CASE p = c
    BY <1>5, <2>1 DEF Same
  <2>2. CASE p # c
    <3>1. p \in c + 1 .. Len(entered) /\ p < Target(c)
      BY <1>2, <1>4, <1>8, <2>2
    <3>2. e \in Places(p)
      BY <1>1, <1>8, PlaceTypes
    <3> QED
      BY <1>1, <3>1, <3>2 DEF SkippedPlaces
  <2> QED
    BY <2>1, <2>2
<1>10. /\ Found(p, e) < 0 => Found(t, 1) < 0
       /\ Found(p, e) >= 0 => Found(t, 1) >= 0 /\ Due(t, 1) = Due(p, e)
  BY <1>8, Falling
<1>11. Found(p, e) \in Int
  BY <1>1, <1>8, PlaceTypes
<1> HIDE DEF p, e
<1>12. Same(c, p, e) => Same(c, t, 1)
  BY <1>10, <1>11, <1>5 DEF Same
<1>13. Late(c, p, e) => Late(c, t, 1)
  <2>1. Late(c, p, e) => Found(t, 1) >= 0 /\ Due(t, 1) = Due(p, e)
    BY <1>10 DEF Late
  <2> QED
    BY <2>1 DEF Late
<1> QED
  BY <1>3, <1>4, <1>7, <1>9, <1>12, <1>13

(* A block further down knows of no fewer divisions.                          *)
LEMMA BoundedBelow ==
  ASSUME NEW b \in Nat, NEW d \in Nat, b <= d, NEW r \in Int, NEW n \in Int, NEW m \in Int, n <= m,
         Bounded(b, r, n)
  PROVE  Bounded(d, r, m)
<1>1. CASE r <= n
  BY <1>1 DEF Bounded
<1>2. CASE \E a \in 1 .. b : \E y \in Divisions(a) : r - n <= Latency[y]
  <2>1. PICK a \in 1 .. b : \E y \in Divisions(a) : r - n <= Latency[y]
    BY <1>2
  <2>2. PICK y \in Divisions(a) : r - n <= Latency[y]
    BY <2>1
  <2>3. a \in 1 .. d /\ Latency[y] \in Nat
    BY <2>1, LatencyType
  <2>4. r - m <= Latency[y]
    BY <2>2, <2>3
  <2> QED
    BY <2>3, <2>4 DEF Bounded
<1> QED
  BY <1>1, <1>2 DEF Bounded

(* What holds of the machine where it stands.                                 *)
LEMMA Known ==
  ASSUME SkewInv, Running
  PROVE  /\ Bounded(at[1], ready, now)
         /\ Standing => Tracked(at[1], at[2], ready, now, labels - before)
         /\ Skipless => Covered(at[1], at[2], ready + labels, now + labels)
         /\ now \in Nat /\ ready \in Int /\ labels \in Nat /\ before \in 0 .. labels
         /\ at[1] \in 1 .. Len(program) + 1 /\ at[1] \in Nat /\ at[2] \in Nat
         /\ ~Scheduling
<1>1. ScheduleInv /\ MachineTyped
  BY DEF SkewInv
<1>2. /\ at[1] \in Nat /\ at[2] \in Nat /\ ~Scheduling
  BY <1>1, Standpoint
<1>3. at[1] \in 1 .. Len(program) + 1
  BY <1>1 DEF MachineTyped, Running
<1>4. now \in Nat /\ ready \in Int /\ labels \in Nat /\ before \in 0 .. labels
  BY <1>1 DEF MachineTyped
<1> QED
  BY <1>2, <1>3, <1>4 DEF SkewInv, LatencyBound, QuotientTracked, NoSooner

-----------------------------------------------------------------------------
(* The steps of the machine *)

(* The machine begins with no quotient under way, like the clock.             *)
LEMMA StartKeeps ==
  ASSUME SkewInv, Start
  PROVE  SkewInv'
<1>1. ScheduleInv /\ Typed /\ Counted /\ FirstEntry /\ MachineTyped /\ BlocksBegin
  BY DEF SkewInv, ScheduleInv
<1>2. ~Scheduling /\ at = <<0, 0>> /\ at' = <<1, 1>> /\ UNCHANGED <<program, scheduler>>
  BY DEF Start
<1>3. now' = now /\ ready' = ready /\ labels' = labels /\ before' = before
  BY DEF Start
<1>4. now \in Nat /\ ready \in Int /\ labels \in Nat /\ before \in 0 .. labels /\ ready <= now
  BY <1>1, <1>2 DEF MachineTyped
<1>5. Len(program) \in Nat /\ 1 \in 1 .. Len(program) + 1
  BY <1>1, ProgramShape
<1>6. Bounded(1, ready, now) /\ Tracked(1, 1, ready, now, labels - before)
  BY <1>4 DEF Bounded, Tracked
<1>7. ASSUME 1 <= Len(program)
      PROVE  1 \in Places(1) /\ Covered(1, 1, ready + labels, now + labels)
  <2>1. Len(entered) = Len(program) /\ Entered = DOMAIN program /\ 1 \in Entered
    BY <1>1, <1>2, <1>5, <1>7, Scheduled DEF Entered
  <2>2. entered # <<>> /\ entered[1].cycle = 0 /\ entered[1].found = Idle
    <3>1. entered # <<>>
      BY <1>7, <2>1
    <3> QED
      BY <1>1, <3>1 DEF FirstEntry
  <2>3. BlockBegins(1)
    BY <1>1, <2>1 DEF BlocksBegin
  <2>4. Cycle(1, 1) = 0 /\ Found(1, 1) = Idle
    BY <2>2, <2>3 DEF BlockBegins, Idle
  <2>5. 1 \in Places(1) /\ SkewOf(1) \in Nat
    BY <1>1, <2>1, PlaceTypes
  <2> QED
    BY <1>4, <2>4, <2>5 DEF Covered, Real, Due, Idle
<1> QED
  BY <1>2, <1>3, <1>4, <1>5, <1>6, <1>7, StepKeeps

(* A step to the next slot of the block.                                      *)
LEMMA AdvanceKeeps ==
  ASSUME SkewInv, Running, InBlock, UNCHANGED <<program, scheduler>>,
         at' = [at EXCEPT ![2] = @ + 1],
         now' \in Nat, ready' \in Int, labels' \in Nat, before' \in 0 .. labels',
         Bounded(at[1], ready', now'),
         Standing => Tracked(at[1], at[2] + 1, ready', now', labels' - before'),
         Skipless => Covered(at[1], at[2] + 1, ready' + labels', now' + labels')
  PROVE  SkewInv'
<1> DEFINE b == at[1]
           k == at[2] + 1
<1>1. ScheduleInv /\ MachineTyped
  BY DEF SkewInv
<1>2. b \in 1 .. Len(program) + 1 /\ ~Scheduling /\ k \in Nat
  BY Known
<1>3. k \in Places(b)
  BY <1>1, AtSlot
<1>4. at' = <<b, k>>
  BY <1>1, Standpoint
<1> HIDE DEF b, k
<1> QED
  BY <1>2, <1>3, <1>4, StepKeeps DEF b, k

(* A label passed is a cycle of the clock, set off by the label counted.      *)
LEMMA LabelKeeps ==
  ASSUME SkewInv, RunLabel
  PROVE  SkewInv'
<1> DEFINE b == at[1]
           k == at[2]
           r == ready
<1>1. ScheduleInv /\ MachineTyped /\ Running /\ InBlock
  BY DEF SkewInv, RunLabel
<1>2. /\ now' = now /\ ready' = ready /\ labels' = labels + 1 /\ before' = before
      /\ at' = [at EXCEPT ![2] = @ + 1] /\ UNCHANGED <<program, scheduler>>
      /\ Here.row = "LABEL"
  BY DEF RunLabel
<1>3. /\ Bounded(b, ready, now)
      /\ Standing => Tracked(b, k, ready, now, labels - before)
      /\ Skipless => Covered(b, k, ready + labels, now + labels)
      /\ now \in Nat /\ ready \in Int /\ labels \in Nat /\ before \in 0 .. labels
  BY <1>1, Known
<1>4. /\ Cycle(b, k + 1) = Cycle(b, k) + 1 /\ Found(b, k + 1) = Found(b, k)
      /\ Cycle(b, k) \in Nat /\ Found(b, k) \in Int /\ SkewOf(b) \in Nat
  <2>1. Leads(Here, Cycle(b, k + 1), Found(b, k + 1))
    BY <1>1, AtSlot
  <2>2. Cycle(b, k) = Here.cycle /\ Found(b, k) = Here.found
    BY <1>1, AtSlot
  <2>3. Cycle(b, k) \in Nat /\ Found(b, k) \in Int /\ SkewOf(b) \in Nat
    BY <1>1, Standpoint
  <2> QED
    BY <1>2, <2>1, <2>2, <2>3 DEF Leads
<1>5. labels' \in Nat /\ before' \in 0 .. labels'
  BY <1>2, <1>3
<1> HIDE DEF b, k
<1>6. Standing => Tracked(b, k + 1, ready', now', labels' - before')
  BY <1>2, <1>3, <1>4 DEF Tracked
<1>7. Skipless => Covered(b, k + 1, ready' + labels', now' + labels')
  BY <1>2, <1>3, <1>4 DEF Covered, Real, Due
<1> QED
  BY <1>1, <1>2, <1>3, <1>5, <1>6, <1>7, AdvanceKeeps DEF b, k

(* Any other row is a cycle of both.                                          *)
LEMMA PlainKeeps ==
  ASSUME SkewInv, RunPlain
  PROVE  SkewInv'
<1> DEFINE b == at[1]
           k == at[2]
<1>1. ScheduleInv /\ MachineTyped /\ Running /\ InBlock
  BY DEF SkewInv, RunPlain
<1>2. /\ now' = now + 1 /\ ready' = ready /\ labels' = labels /\ before' = before
      /\ at' = [at EXCEPT ![2] = @ + 1] /\ UNCHANGED <<program, scheduler>>
      /\ Here.row \in {"NOP", "OTHER"}
  BY DEF RunPlain
<1>3. /\ Bounded(b, ready, now)
      /\ Standing => Tracked(b, k, ready, now, labels - before)
      /\ Skipless => Covered(b, k, ready + labels, now + labels)
      /\ now \in Nat /\ ready \in Int /\ labels \in Nat /\ before \in 0 .. labels /\ b \in Nat
  BY <1>1, Known
<1>4. /\ Cycle(b, k + 1) = Cycle(b, k) + 1 /\ Found(b, k + 1) = Found(b, k)
      /\ Cycle(b, k) \in Nat /\ Found(b, k) \in Int /\ SkewOf(b) \in Nat
  <2>1. Leads(Here, Cycle(b, k + 1), Found(b, k + 1))
    BY <1>1, AtSlot
  <2>2. Cycle(b, k) = Here.cycle /\ Found(b, k) = Here.found
    BY <1>1, AtSlot
  <2>3. Cycle(b, k) \in Nat /\ Found(b, k) \in Int /\ SkewOf(b) \in Nat
    BY <1>1, Standpoint
  <2> QED
    BY <1>2, <2>1, <2>2, <2>3 DEF Leads
<1> HIDE DEF b, k
<1>5. now + 1 \in Nat /\ now + 1 \in Int /\ now \in Int /\ now <= now + 1 /\ b <= b
  BY <1>3
<1>6. Bounded(b, ready', now')
  BY <1>2, <1>3, <1>5, BoundedBelow
<1>7. Standing => Tracked(b, k + 1, ready', now', labels' - before')
  BY <1>2, <1>3, <1>4 DEF Tracked
<1>8. Skipless => Covered(b, k + 1, ready' + labels', now' + labels')
  BY <1>2, <1>3, <1>4 DEF Covered, Real, Due
<1> QED
  BY <1>1, <1>2, <1>3, <1>5, <1>6, <1>7, <1>8, AdvanceKeeps DEF b, k

(* A division is as far off for the machine as for the tracker.               *)
LEMMA DivisionKeeps ==
  ASSUME SkewInv, RunDivision
  PROVE  SkewInv'
<1> DEFINE b == at[1]
           k == at[2]
           l == Latency[Here.row]
<1>1. ScheduleInv /\ MachineTyped /\ Running /\ InBlock
  BY DEF SkewInv, RunDivision
<1>2. /\ now' = now + 1 /\ ready' = now + l + 1 /\ labels' = labels /\ before' = labels
      /\ at' = [at EXCEPT ![2] = @ + 1] /\ UNCHANGED <<program, scheduler>>
      /\ Here.row \in {"DIV", "RSQRT"}
  BY DEF RunDivision
<1>3. /\ Skipless => Covered(b, k, ready + labels, now + labels)
      /\ now \in Nat /\ ready \in Int /\ labels \in Nat /\ before \in 0 .. labels /\ b \in Nat
      /\ b \in Entered /\ b \in 1 .. b
  <2>1. b \in Entered
    BY <1>1, Standpoint
  <2>2. b \in 1 .. b
    BY <1>1, Known
  <2> QED
    BY <1>1, <2>1, <2>2, Known
<1>4. l \in Nat /\ Here.row \in Divisions(b)
  <2>1. k \in DOMAIN code[b] /\ Here = code[b][k]
    BY <1>1, AtSlot DEF Here
  <2>2. \E i \in DOMAIN program[b].rows : program[b].rows[i] = Here.row
    BY <1>1, <1>2, <1>3, <2>1 DEF ScheduleInv, RowsFrom
  <2> QED
    BY <1>2, <2>2, LatencyAssumption DEF Divisions
<1>5. /\ Cycle(b, k + 1) = Cycle(b, k) + 1 /\ Found(b, k + 1) = Cycle(b, k) + l + 1
      /\ Cycle(b, k) \in Nat /\ SkewOf(b) \in Nat
  <2>1. Leads(Here, Cycle(b, k + 1), Found(b, k + 1))
    BY <1>1, AtSlot
  <2>2. Cycle(b, k) = Here.cycle
    BY <1>1, AtSlot
  <2>3. Cycle(b, k) \in Nat /\ SkewOf(b) \in Nat
    BY <1>1, Standpoint
  <2> QED
    BY <1>2, <2>1, <2>2, <2>3 DEF Leads
<1>6. Bounded(b, now + l + 1, now + 1)
  <2>1. (now + l + 1) - (now + 1) <= Latency[Here.row]
    BY <1>3, <1>4
  <2> QED
    BY <1>3, <1>4, <2>1 DEF Bounded
<1> HIDE DEF b, k, l
<1>7. now' \in Nat /\ ready' \in Int /\ labels' \in Nat /\ before' \in 0 .. labels'
  BY <1>2, <1>3, <1>4
<1>8. Standing => Tracked(b, k + 1, ready', now', labels' - before')
  BY <1>2, <1>3, <1>4, <1>5 DEF Tracked
<1>9. Skipless => Covered(b, k + 1, ready' + labels', now' + labels')
  BY <1>2, <1>3, <1>4, <1>5 DEF Covered, Real, Due
<1> QED
  BY <1>1, <1>2, <1>6, <1>7, <1>8, <1>9, AdvanceKeeps DEF b, k

(* A read with a waitq leaves both at the quotient; one without is a plain    *)
(* row.                                                                       *)
LEMMA ReadKeeps ==
  ASSUME SkewInv, RunRead
  PROVE  SkewInv'
<1> DEFINE b == at[1]
           k == at[2]
<1>1. ScheduleInv /\ MachineTyped /\ Running /\ InBlock
  BY DEF SkewInv, RunRead
<1>2. /\ now' = (IF Here.wait /\ ready > now THEN ready ELSE now) + 1
      /\ ready' = ready /\ labels' = labels /\ before' = before
      /\ at' = [at EXCEPT ![2] = @ + 1] /\ UNCHANGED <<program, scheduler>>
      /\ Here.row = "READ"
  BY DEF RunRead
<1>3. /\ Bounded(b, ready, now)
      /\ Standing => Tracked(b, k, ready, now, labels - before)
      /\ Skipless => Covered(b, k, ready + labels, now + labels)
      /\ now \in Nat /\ ready \in Int /\ labels \in Nat /\ before \in 0 .. labels /\ b \in Nat
  BY <1>1, Known
<1>4. /\ Found(b, k + 1) = Found(b, k)
      /\ ~Here.wait => Cycle(b, k + 1) = Cycle(b, k) + 1
      /\ Here.wait => Found(b, k) > Cycle(b, k) /\ Cycle(b, k + 1) = Found(b, k) + 1
      /\ Cycle(b, k) \in Nat /\ Found(b, k) \in Int /\ SkewOf(b) \in Nat
  <2>1. Leads(Here, Cycle(b, k + 1), Found(b, k + 1))
    BY <1>1, AtSlot
  <2>2. Cycle(b, k) = Here.cycle /\ Found(b, k) = Here.found
    BY <1>1, AtSlot
  <2>3. Cycle(b, k) \in Nat /\ Found(b, k) \in Int /\ SkewOf(b) \in Nat
    BY <1>1, Standpoint
  <2> QED
    BY <1>2, <2>1, <2>2, <2>3 DEF Leads
<1> HIDE DEF b, k
<1>5. /\ now' \in Nat /\ now' >= now + 1
      /\ Here.wait => now' >= ready + 1
      /\ ~Here.wait => now' = now + 1
  BY <1>2, <1>3
<1>6. now' \in Int /\ now \in Int /\ now <= now' /\ b <= b
  BY <1>3, <1>5
<1>7. Bounded(b, ready', now')
  BY <1>2, <1>3, <1>6, BoundedBelow
<1>8. CASE Here.wait
  <2>1. Tracked(b, k + 1, ready', now', labels' - before')
    BY <1>2, <1>3, <1>5, <1>6, <1>8 DEF Tracked
  <2>2. Skipless => Covered(b, k + 1, ready' + labels', now' + labels')
    <3>1. Found(b, k) >= 0
      BY <1>4, <1>8
    <3> QED
      BY <1>2, <1>3, <1>4, <1>5, <1>6, <1>8, <3>1 DEF Covered, Real, Due
  <2> QED
    BY <1>1, <1>2, <1>3, <1>5, <1>7, <2>1, <2>2, AdvanceKeeps DEF b, k
<1>9. CASE ~Here.wait
  <2>1. now' = now + 1 /\ Cycle(b, k + 1) = Cycle(b, k) + 1
    BY <1>4, <1>5, <1>9
  <2>2. Standing => Tracked(b, k + 1, ready', now', labels' - before')
    BY <1>2, <1>3, <1>4, <2>1 DEF Tracked
  <2>3. Skipless => Covered(b, k + 1, ready' + labels', now' + labels')
    BY <1>2, <1>3, <1>4, <2>1 DEF Covered, Real, Due
  <2> QED
    BY <1>1, <1>2, <1>3, <1>5, <1>7, <2>2, <2>3, AdvanceKeeps DEF b, k
<1> QED
  BY <1>8, <1>9

(* To the block below, with the quotient no further away.                     *)
LEMMA BelowKeeps ==
  ASSUME SkewInv, Running, UNCHANGED <<program, scheduler, ready, labels, before>>,
         at' = <<at[1] + 1, 1>>, now' \in Nat, now' >= now,
         Standing => Tracked(at[1], End(at[1]), ready, now', labels - before),
         Skipless => Covered(at[1], End(at[1]), ready + labels, now' + labels)
  PROVE  SkewInv'
<1> DEFINE b == at[1]
           e == End(b)
<1>1. ScheduleInv /\ MachineTyped /\ Typed /\ Counted
  BY DEF SkewInv, ScheduleInv
<1>2. /\ ready' = ready /\ labels' = labels /\ before' = before /\ UNCHANGED <<program, scheduler>>
      /\ now \in Nat /\ ready \in Int /\ labels \in Nat /\ before \in 0 .. labels /\ b \in Nat
      /\ ~Scheduling
  BY Known
<1>3. b \in Entered /\ Len(entered) = Len(program) /\ Len(program) \in Nat /\ b <= Len(program)
  BY <1>1, Standpoint, ProgramShape DEF Entered
<1>4. b + 1 \in 1 .. Len(program) + 1 /\ 1 \in Nat
  BY <1>2, <1>3
<1>5. ASSUME b + 1 <= Len(program)
      PROVE  /\ 1 \in Places(b + 1)
             /\ Bounded(b + 1, ready', now')
             /\ Standing => Tracked(b + 1, 1, ready', now', labels' - before')
             /\ Skipless => Covered(b + 1, 1, ready' + labels', now' + labels')
  <2>1. b < Len(entered)
    BY <1>2, <1>3, <1>5
  <2>2. /\ b + 1 \in Entered
        /\ Real(b + 1, 1) <= Real(b, e)
        /\ Found(b, e) < 0 => Found(b + 1, 1) < 0
        /\ Found(b, e) >= 0 => Found(b + 1, 1) >= 0 /\ Due(b + 1, 1) = Due(b, e)
        /\ Found(b, e) - Cycle(b, e) <= Found(b + 1, 1) - Cycle(b + 1, 1)
        /\ Real(b + 1, 1) \in Int /\ Due(b + 1, 1) \in Int
    BY <1>1, <1>3, <2>1, Falling
  <2>3. 1 \in Places(b + 1) /\ Cycle(b + 1, 1) \in Nat /\ Found(b + 1, 1) \in Int
    BY <1>1, <2>2, PlaceTypes
  <2>4. Cycle(b, e) \in Nat /\ Found(b, e) \in Int /\ Real(b, e) \in Int
    <3>1. Cycle(b, e) \in Nat /\ Found(b, e) \in Int /\ SkewOf(b) \in Nat
      BY <1>1, <1>3, PlaceTypes
    <3> QED
      BY <3>1 DEF Real
  <2>5. Bounded(b + 1, ready, now')
    <3>1. Bounded(b, ready, now)
      BY Known
    <3>2. b + 1 \in Nat /\ b <= b + 1 /\ now \in Int /\ now' \in Int /\ now <= now'
      BY <1>2
    <3> QED
      BY <1>2, <3>1, <3>2, BoundedBelow
  <2> HIDE DEF b, e
  <2>6. Standing => Tracked(b + 1, 1, ready, now', labels - before)
    <3>1. Standing => Tracked(b, e, ready, now', labels - before)
      BY DEF b, e
    <3> QED
      BY <1>2, <2>2, <2>3, <2>4, <3>1 DEF Tracked
  <2>7. Skipless => Covered(b + 1, 1, ready + labels, now' + labels)
    <3>1. Skipless => Covered(b, e, ready + labels, now' + labels)
      BY DEF b, e
    <3> QED
      BY <1>2, <2>2, <2>3, <2>4, <3>1 DEF Covered
  <2> QED
    BY <1>2, <2>3, <2>5, <2>6, <2>7
<1> HIDE DEF b, e
<1>6. at' = <<b + 1, 1>>
  BY DEF b
<1> QED
  BY <1>2, <1>4, <1>5, <1>6, StepKeeps

(* Running off the end of a block.                                            *)
LEMMA FallKeeps ==
  ASSUME SkewInv, FallThrough
  PROVE  SkewInv'
<1>1. ScheduleInv /\ MachineTyped /\ Typed /\ Counted /\ Running /\ ~InBlock
  BY DEF SkewInv, ScheduleInv, FallThrough
<1>2. /\ at' = <<at[1] + 1, 1>> /\ UNCHANGED <<program, scheduler, ready, labels, before>>
      /\ now' = now
  BY DEF FallThrough
<1>3. at[2] = End(at[1])
  <2>1. at[1] \in DOMAIN program /\ at[2] \in Places(at[1]) /\ at[2] \in Nat
    BY <1>1, Standpoint
  <2>2. Len(code[at[1]]) \in Nat
    BY <1>1, <2>1, ProgramShape
  <2> QED
    BY <1>1, <2>1, <2>2 DEF InBlock, Places, End
<1>4. /\ Standing => Tracked(at[1], at[2], ready, now, labels - before)
      /\ Skipless => Covered(at[1], at[2], ready + labels, now + labels)
      /\ now \in Nat
  BY <1>1, Known
<1>5. now' \in Nat /\ now' >= now
  BY <1>2, <1>4
<1> QED
  BY <1>1, <1>2, <1>3, <1>4, <1>5, BelowKeeps

(* What is left of the quotient at the target of a branch: the tracker knows  *)
(* of the same one, or of one that outlasts it.                               *)
LEMMA LandsTracked ==
  ASSUME ScheduleInv, NEW b \in Entered, NEW t \in Entered,
         NEW r \in Int, NEW n \in Nat, NEW passed \in Nat,
         Real(t, 1) <= Real(b, End(b)) + 1,
         Same(b, t, 1) \/ Late(b, t, 1),
         Bounded(b, r, n), Tracked(b, End(b), r, n + 1, passed)
  PROVE  Tracked(t, 1, r, n + 2, passed)
<1> DEFINE e == End(b)
<1>1. Typed /\ Counted
  BY DEF ScheduleInv
<1>2. /\ Cycle(b, e) \in Nat /\ Found(b, e) \in Int /\ SkewOf(b) \in Nat
      /\ Cycle(t, 1) \in Nat /\ Found(t, 1) \in Int /\ SkewOf(t) \in Nat /\ b \in Nat
  BY <1>1, PlaceTypes
<1>3. /\ Real(b, e) = Cycle(b, e) - SkewOf(b) /\ Due(b, e) = Found(b, e) - SkewOf(b)
      /\ Real(t, 1) = Cycle(t, 1) - SkewOf(t) /\ Due(t, 1) = Found(t, 1) - SkewOf(t)
  BY DEF Real, Due
<1> HIDE DEF e
<1>4. Real(t, 1) <= Real(b, e) + 1
  BY DEF e
<1>5. CASE r <= n + 2
  BY <1>5 DEF Tracked
<1>6. CASE ~(r <= n + 2) /\ Same(b, t, 1)
  <2>1. Found(b, e) >= 0 /\ r - (n + 1) - passed <= Found(b, e) - Cycle(b, e)
    BY <1>6 DEF Tracked, e
  <2>2. Found(t, 1) >= 0 /\ Due(t, 1) = Due(b, e)
    BY <1>6, <2>1 DEF Same, e
  <2>3. r - (n + 2) - passed <= Found(t, 1) - Cycle(t, 1)
    BY <1>2, <1>3, <1>4, <2>1, <2>2
  <2> QED
    BY <2>2, <2>3 DEF Tracked
<1>7. CASE ~(r <= n + 2) /\ Late(b, t, 1)
  <2>1. ~(r <= n)
    BY <1>7
  <2>2. PICK a \in 1 .. b : \E y \in Divisions(a) : r - n <= Latency[y]
    BY <2>1 DEF Bounded
  <2>3. PICK y \in Divisions(a) : r - n <= Latency[y]
    BY <2>2
  <2>4. Found(t, 1) >= 0 /\ Due(t, 1) >= Real(b, e) + Latency[y] + 1
    BY <1>7 DEF Late, e
  <2>5. Latency[y] \in Nat
    BY LatencyType
  <2>6. r - (n + 2) - passed <= Found(t, 1) - Cycle(t, 1)
    BY <1>2, <1>3, <1>4, <2>3, <2>4, <2>5
  <2> QED
    BY <2>4, <2>6 DEF Tracked
<1> QED
  BY <1>5, <1>6, <1>7

(* The machine lands no sooner than along the edge.                           *)
LEMMA LandsCovered ==
  ASSUME ScheduleInv, NEW b \in Entered, NEW t \in Entered, NEW r \in Int, NEW n \in Int,
         Real(t, 1) <= Real(b, End(b)) + 1, Same(b, t, 1), Covered(b, End(b), r, n + 1)
  PROVE  Covered(t, 1, r, n + 2)
<1> DEFINE e == End(b)
<1>1. Typed /\ Counted
  BY DEF ScheduleInv
<1>2. /\ Cycle(b, e) \in Nat /\ Found(b, e) \in Int /\ SkewOf(b) \in Nat
      /\ Cycle(t, 1) \in Nat /\ Found(t, 1) \in Int /\ SkewOf(t) \in Nat
  BY <1>1, PlaceTypes
<1>3. Real(b, e) \in Int /\ Real(t, 1) \in Int
  BY <1>2 DEF Real
<1> HIDE DEF e
<1>4. Real(t, 1) <= Real(b, e) + 1 /\ Covered(b, e, r, n + 1) /\ Same(b, t, 1)
  BY DEF e
<1>5. n + 2 >= Real(t, 1)
  BY <1>3, <1>4 DEF Covered
<1>6. ASSUME Found(t, 1) >= 0 PROVE r >= Due(t, 1)
  <2>1. Found(b, e) >= 0
    BY <1>2, <1>6 DEF Same, e
  <2> QED
    BY <1>4, <2>1 DEF Same, Covered, e
<1> QED
  BY <1>5, <1>6 DEF Covered

(* A branch, taken or not.                                                    *)
LEMMA BranchKeeps ==
  ASSUME SkewInv, RunBranch
  PROVE  SkewInv'
<1> DEFINE b == at[1]
           k == at[2]
           e == End(b)
           t == Target(b)
<1>1. ScheduleInv /\ MachineTyped /\ Typed /\ Counted /\ Running /\ InBlock
  BY DEF SkewInv, ScheduleInv, RunBranch
<1>2. /\ now' = now + 2 /\ ready' = ready /\ labels' = labels /\ before' = before
      /\ UNCHANGED <<program, scheduler>> /\ Here.row = "BRANCH"
      /\ at' = <<t, 1>> \/ at' = <<b + 1, 1>>
  BY DEF RunBranch, Target
<1>3. /\ Bounded(b, ready, now)
      /\ Standing => Tracked(b, k, ready, now, labels - before)
      /\ Skipless => Covered(b, k, ready + labels, now + labels)
      /\ now \in Nat /\ ready \in Int /\ labels \in Nat /\ before \in 0 .. labels /\ b \in Nat
      /\ ~Scheduling
  BY <1>1, Known
<1>4. b \in Entered /\ b \in DOMAIN program /\ k \in DOMAIN code[b] /\ Len(entered) = Len(program)
  <2>1. b \in Entered /\ Entered = DOMAIN program /\ Len(entered) = Len(program)
    BY <1>1, Standpoint
  <2>2. k \in DOMAIN code[b]
    BY <1>1, AtSlot
  <2> QED
    BY <2>1, <2>2
<1>5. BranchOut(b) /\ k + 1 = e
  <2>1. k = Len(code[b])
    BY <1>1, <1>2, <1>4 DEF ScheduleInv, RowsFrom, Here
  <2>2. code[b] # <<>>
    BY <1>4
  <2> QED
    BY <1>2, <2>1, <2>2 DEF BranchOut, End, Here
<1>6. /\ Cycle(b, e) = Cycle(b, k) + 1 /\ Found(b, e) = Found(b, k)
      /\ Cycle(b, k) \in Nat /\ Found(b, k) \in Int /\ SkewOf(b) \in Nat
  <2>1. Leads(Here, Cycle(b, k + 1), Found(b, k + 1))
    BY <1>1, AtSlot
  <2>2. Cycle(b, k) = Here.cycle /\ Found(b, k) = Here.found
    BY <1>1, AtSlot
  <2>3. Cycle(b, k) \in Nat /\ Found(b, k) \in Int /\ SkewOf(b) \in Nat
    BY <1>1, Standpoint
  <2> QED
    BY <1>2, <1>5, <2>1, <2>2, <2>3 DEF Leads
<1> HIDE DEF b, k, e, t
<1>7. labels - before \in Nat /\ ready + labels \in Int /\ now + labels \in Int
  BY <1>3
<1>8. Standing => Tracked(b, e, ready, now + 1, labels - before)
  BY <1>3, <1>6, <1>7 DEF Tracked
<1>9. Skipless => Covered(b, e, ready + labels, (now + labels) + 1)
  BY <1>3, <1>6, <1>7 DEF Covered, Real, Due
<1>10. CASE at' = <<t, 1>>
  <2>1. /\ b \in Branches
        /\ t \in Entered /\ t > b
        /\ Real(t, 1) <= Real(b, End(b)) + 1
        /\ SkipsNoDivision(b) => Same(b, t, 1)
        /\ SkipsWhole(b) => Same(b, t, 1) \/ Late(b, t, 1)
    BY <1>1, <1>3, <1>4, <1>5, Landing DEF t
  <2>2. t \in 1 .. Len(program) + 1 /\ 1 \in Places(t) /\ t \in Nat
    <3>1. t \in DOMAIN program /\ 1 \in Places(t)
      BY <1>1, <2>1, PlaceTypes
    <3> QED
      BY <1>1, <3>1, ProgramShape
  <2>3. Bounded(t, ready, now + 2)
    <3>1. b <= t /\ now \in Int /\ now + 2 \in Int /\ now <= now + 2
      BY <1>3, <2>1, <2>2
    <3> QED
      BY <1>3, <2>2, <3>1, BoundedBelow
  <2>4. Standing => Tracked(t, 1, ready, now + 2, labels - before)
    <3>1. Standing => Same(b, t, 1) \/ Late(b, t, 1)
      BY <2>1 DEF Standing
    <3> QED
      BY <1>1, <1>3, <1>4, <1>7, <1>8, <2>1, <3>1, LandsTracked DEF e
  <2>5. Skipless => Covered(t, 1, ready + labels, (now + labels) + 2)
    <3>1. Skipless => Same(b, t, 1)
      BY <2>1 DEF Skipless
    <3> QED
      BY <1>1, <1>4, <1>7, <1>9, <2>1, <3>1, LandsCovered DEF e
  <2>6. (now + labels) + 2 = (now + 2) + labels /\ now + 2 \in Nat
    BY <1>3
  <2> QED
    BY <1>2, <1>3, <1>10, <2>2, <2>3, <2>4, <2>5, <2>6, StepKeeps
<1>11. CASE at' = <<b + 1, 1>>
  <2>1. now + 2 \in Nat /\ now + 2 >= now
    BY <1>3
  <2>2. Standing => Tracked(b, e, ready, now + 2, labels - before)
    BY <1>3, <1>6, <1>7, <1>8 DEF Tracked
  <2>3. Skipless => Covered(b, e, ready + labels, (now + 2) + labels)
    BY <1>3, <1>6, <1>7, <1>9 DEF Covered, Real, Due
  <2> QED
    BY <1>1, <1>2, <1>11, <2>1, <2>2, <2>3, BelowKeeps DEF b, e
<1> QED
  BY <1>2, <1>10, <1>11

(* While blocks are being scheduled nothing runs.                             *)
LEMMA SchedulingKeeps ==
  ASSUME SkewInv, EnterBlock \/ PlaceRow \/ PlaceDivision \/ PlaceRead \/ PlaceBranch \/ LeaveBlock
  PROVE  SkewInv'
<1>1. ScheduleInv /\ Typed /\ Counted /\ FirstEntry /\ MachineTyped
  BY DEF SkewInv, ScheduleInv
<1>2. ScheduleInv' /\ FirstEntry' /\ Scheduling /\ UNCHANGED machine
  <2>1. CASE EnterBlock
    <3>1. /\ entered' = Append(entered, [cycle |-> clock, skew |-> Skew, found |-> q])
          /\ Len(entered) \in Nat /\ entered \in Seq(EntryType) /\ entered' # <<>>
      BY <1>1, <2>1 DEF EnterBlock, Typed
    <3>2. entered'[1].cycle = 0 /\ entered'[1].found = Idle
      <4>1. CASE entered = <<>>
        <5>1. entered'[1] = [cycle |-> clock, skew |-> Skew, found |-> q]
          BY <3>1, <4>1
        <5> QED
          BY <1>1, <4>1, <5>1 DEF FirstEntry
      <4>2. CASE entered # <<>>
        <5>1. entered'[1] = entered[1]
          BY <3>1, <4>2
        <5> QED
          BY <1>1, <4>2, <5>1 DEF FirstEntry
      <4> QED
        BY <4>1, <4>2
    <3>3. ScheduleInv'
      BY <1>1, <2>1, EnterKeeps
    <3> QED
      BY <2>1, <3>1, <3>2, <3>3 DEF EnterBlock, FirstEntry
  <2>2. CASE PlaceRow \/ PlaceDivision \/ PlaceRead \/ PlaceBranch
    <3>1. PICK s : Grows(s)
      BY <1>1, <2>2, RowGrows, DivisionGrows, ReadGrows, BranchGrows
    <3>2. ScheduleInv' /\ current \in Entered
      BY <1>1, <3>1, GrowKeeps, GrowFrozen
    <3>3. entered' = entered /\ Scheduling /\ UNCHANGED machine
      BY <3>1 DEF Grows
    <3>4. entered # <<>>
      BY <3>2 DEF Entered
    <3> QED
      BY <1>1, <3>2, <3>3, <3>4 DEF FirstEntry
  <2>3. CASE LeaveBlock
    <3>1. ScheduleInv'
      BY <1>1, <2>3, LeaveKeeps
    <3>2. Scheduling /\ UNCHANGED machine /\ entered' = entered /\ clock' = clock /\ q' = q
      BY <2>3 DEF LeaveBlock
    <3> QED
      BY <1>1, <3>1, <3>2 DEF FirstEntry
  <2> QED
    BY <2>1, <2>2, <2>3
<1>3. at' = at /\ now' = now /\ ready' = ready /\ labels' = labels /\ before' = before
  BY <1>2 DEF machine
<1>4. at = <<0, 0>>
  BY <1>1, <1>2 DEF MachineTyped
<1>5. MachineTyped'
  BY <1>1, <1>3, <1>4 DEF MachineTyped
<1>6. ~(Running')
  BY <1>3, <1>4 DEF Running
<1> QED
  BY <1>2, <1>5, <1>6 DEF SkewInv, LatencyBound, QuotientTracked, NoSooner

(* A step that changes nothing.                                               *)
LEMMA StutterKeeps ==
  ASSUME SkewInv, UNCHANGED vars
  PROVE  SkewInv'
<1>1. /\ program' = program /\ current' = current /\ offset' = offset /\ code' = code
      /\ clock' = clock /\ q' = q /\ applied' = applied /\ base' = base /\ entered' = entered
      /\ at' = at /\ now' = now /\ ready' = ready /\ labels' = labels /\ before' = before
  BY DEF vars, scheduler, machine
<1>2. ScheduleInv'
  <2>1. Typed' /\ Counted' /\ RowsFrom'
    BY <1>1 DEF SkewInv, ScheduleInv, Typed, Counted, Scheduling, SkewOf, RowsFrom, Entered
  <2>2. SlotsLead' /\ BlocksBegin' /\ EdgesRecorded' /\ SkippedPlaces'
    BY <1>1, PlacesStay DEF SkewInv
  <2> QED
    BY <2>1, <2>2 DEF ScheduleInv
<1>3. FirstEntry' /\ MachineTyped'
  BY <1>1 DEF SkewInv, FirstEntry, MachineTyped, Scheduling, Places, End
<1>4. LatencyBound'
  BY <1>1 DEF SkewInv, LatencyBound, Running, Bounded, Divisions
<1>5. (Standing' <=> Standing) /\ (Skipless' <=> Skipless) /\ (Running' <=> Running)
  BY <1>1 DEF Standing, Skipless, Branches, SkipsNoDivision, SkipsWhole, Skipped, Divisions, Running
<1>6. QuotientTracked'
  BY <1>1, <1>5 DEF SkewInv, QuotientTracked, Tracked, Found, Cycle
<1>7. NoSooner'
  BY <1>1, <1>5 DEF SkewInv, NoSooner, Covered, Real, Due, Found, Cycle, SkewOf
<1> QED
  BY <1>2, <1>3, <1>4, <1>6, <1>7 DEF SkewInv

-----------------------------------------------------------------------------

(* In every program whose branches lead forward, with any latencies: every    *)
(* block is entered with a skew that covers each edge into it, all that it    *)
(* schedules leads on from that entry, and the machine, on whatever path, is  *)
(* no sooner and its quotient no further off than the clock and the tracker   *)
(* had them (VuEntrySkew::enter, recordBranch and                             *)
(* VuLatencyTracker::delayPipelinedResultsBy).                                *)
THEOREM SkewInvCorrect == Spec => []SkewInv
<1>1. SkewInv /\ [Next]_vars => SkewInv'
  BY SchedulingKeeps, StartKeeps, LabelKeeps, PlainKeeps, DivisionKeeps, ReadKeeps, BranchKeeps,
     FallKeeps, StutterKeeps DEF Next
<1> QED
  BY InitSkew, <1>1, PTL DEF Spec

(* No reader of Q that the scheduler left without a waitq comes too early on  *)
(* any path, but for a row for each label the path has passed since.          *)
THEOREM QuotientReadyCorrect == Spec => []QuotientReady
<1>1. SkewInv => QuotientReady
  <2> SUFFICES ASSUME SkewInv, Standing, Running, InBlock, Here.row = "READ", ~Here.wait
               PROVE  ready <= now + (labels - before)
    BY DEF QuotientReady, Standing
  <2>1. ScheduleInv /\ MachineTyped
    BY DEF SkewInv
  <2>2. Tracked(at[1], at[2], ready, now, labels - before)
    BY Known
  <2>3. now \in Nat /\ ready \in Int /\ labels \in Nat /\ before \in 0 .. labels
    BY Known
  <2>4. /\ Found(at[1], at[2]) <= Cycle(at[1], at[2])
        /\ Found(at[1], at[2]) \in Int /\ Cycle(at[1], at[2]) \in Nat
    BY <2>1, AtSlot, Standpoint DEF Leads
  <2> QED
    BY <2>2, <2>3, <2>4 DEF Tracked
<1> QED
  BY <1>1, SkewInvCorrect, PTL

(* The skew of a block is at least what any path into it saves ("the largest  *)
(* skew is the shortest real path"), where branches skip no division.         *)
THEOREM SkewCoversCorrect == Spec => []SkewCoversEveryPath
<1>1. SkewInv => SkewCoversEveryPath
  <2> SUFFICES ASSUME SkewInv, Skipless, Running, at[2] = 1
               PROVE  entered[at[1]].cycle - now <= entered[at[1]].skew + labels
    BY DEF SkewCoversEveryPath, Skipless
  <2>1. ScheduleInv /\ MachineTyped /\ BlocksBegin
    BY DEF SkewInv, ScheduleInv
  <2>2. Covered(at[1], 1, ready + labels, now + labels) /\ now \in Nat /\ labels \in Nat
    BY Known
  <2>3. at[1] \in Entered /\ at[1] \in Nat \ {0}
    BY <2>1, Standpoint DEF Entered
  <2>4. Cycle(at[1], 1) = entered[at[1]].cycle /\ SkewOf(at[1]) = entered[at[1]].skew
    BY <2>1, <2>3 DEF BlocksBegin, BlockBegins, SkewOf
  <2>5. Cycle(at[1], 1) \in Nat /\ SkewOf(at[1]) \in Nat
    BY <2>1, Standpoint
  <2> QED
    BY <2>2, <2>4, <2>5 DEF Covered, Real
<1> QED
  BY <1>1, SkewInvCorrect, PTL
================================================================================
