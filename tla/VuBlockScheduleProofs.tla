------------------------- MODULE VuBlockScheduleProofs -------------------------
(* Proofs about VuBlockSchedule, for every block, every set of registers and  *)
(* every latency: the rounds, the padding and the tails lose no token and     *)
(* schedule none twice, and what becomes of the first segment is an order     *)
(* VuReadyOrder allows, so that what is proved of such orders holds of it: its *)
(* reads, its memory accesses and its live out.  Neither the tracker nor the  *)
(* clock matters to this: whatever the delays are, only the order of the rows *)
(* is at stake.                                                               *)
(*                                                                            *)
(* And a finished block reads what its source reads, across its segments and  *)
(* in the rows its tails were slipped into: the rows of the whole block       *)
(* respect the graph of the whole block, although the scheduler only ever     *)
(* builds the graph of one segment, with the masks of the flags that are dead *)
(* behind it.  What VuReadyOrderProofs shows of such rows then holds of the   *)
(* block.                                                                     *)
EXTENDS VuBlockSchedule, SequenceTheorems, FiniteSetTheorems, TLAPS

(* What is proved of the abstract order, read in the variables of this module. *)
OrderFacts == INSTANCE VuReadyOrderProofs WITH
  Blocks      <- BlockType,
  IgnoredSets <- SUBSET {"MAC", "CLIP", "STATUS"},
  block       <- [i \in FirstSegment |-> block[i].access],
  ignored     <- SegmentFrom(1).ignored,
  row         <- [i \in FirstSegment |-> RowOf(i)],
  rows        <- Cardinality({s \in TokenSlots(Len(slots)) : slots[s].tokens \cap FirstSegment # {}})

(* The assumptions of VuReadyOrder hold of the constants it is given here.    *)
LEMMA OrderAssumptions ==
  /\ BlockType \subseteq OrderFacts!BlockType
  /\ SUBSET {"MAC", "CLIP", "STATUS"} \subseteq SUBSET {"MAC", "CLIP", "STATUS"}
<1>1. BlockType = OrderFacts!BlockType
  BY DEF BlockType, TokenType, TokenRecord, Resource,
         OrderFacts!BlockType, OrderFacts!TokenType, OrderFacts!TokenRecord, OrderFacts!Resource
<1> QED
  BY <1>1

(* A sequence with one more element, whatever the element is.                 *)
LEMMA AppendAny ==
  ASSUME NEW S, NEW s \in Seq(S), NEW e
  PROVE  /\ \E T : Append(s, e) \in Seq(T)
         /\ Len(s) \in Nat
         /\ DOMAIN s = 1 .. Len(s)
         /\ Len(Append(s, e)) = Len(s) + 1
         /\ DOMAIN Append(s, e) = 1 .. Len(s) + 1
         /\ \A i \in 1 .. Len(s) : Append(s, e)[i] = s[i]
         /\ Append(s, e)[Len(s) + 1] = e
<1> DEFINE T == S \cup {e}
<1>1. s \in Seq(T) /\ e \in T
  BY SeqMonotonic
<1>2. Append(s, e) \in Seq(T)
  BY <1>1
<1> HIDE DEF T
<1>3. /\ Len(s) \in Nat
      /\ DOMAIN s = 1 .. Len(s)
      /\ Len(Append(s, e)) = Len(s) + 1
      /\ DOMAIN Append(s, e) = 1 .. Len(s) + 1
      /\ \A i \in 1 .. Len(s) : Append(s, e)[i] = s[i]
      /\ Append(s, e)[Len(s) + 1] = e
  BY <1>1, <1>2
<1> QED
  BY <1>2, <1>3

(* A segment reaches as far as its candidates do: what follows it is a token  *)
(* that is none.                                                              *)
LEMMA SegmentFacts ==
  ASSUME block \in Seq(Instruction), NEW f \in 1 .. Len(block) + 1
  PROVE  /\ SegmentFrom(f).first = f
         /\ SegmentFrom(f).last \in f - 1 .. Len(block)
         /\ \A k \in f .. SegmentFrom(f).last : block[k].candidate
         /\ SegmentFrom(f).last < Len(block) => ~block[SegmentFrom(f).last + 1].candidate
<1> DEFINE S == {f - 1} \cup {j \in f .. Len(block) : \A k \in f .. j : block[k].candidate}
           m == SegmentFrom(f).last
<1>1. Len(block) \in Nat
  OBVIOUS
<1>2. S \in SUBSET Nat /\ S # {} /\ \A k \in S : k <= Len(block)
  BY <1>1
<1>3. PICK x \in S : \A k \in S : x >= k
  BY <1>1, <1>2, OrderAssumptions, NoRegisterAssumption, OrderFacts!GreatestElement
<1>4. m = Max(S) /\ SegmentFrom(f).first = f
  BY DEF SegmentFrom
<1>5. m \in S /\ \A k \in S : m >= k
  BY <1>3, <1>4 DEF Max
<1>6. m \in f - 1 .. Len(block)
  BY <1>1, <1>5
<1>7. \A k \in f .. m : block[k].candidate
  BY <1>1, <1>5
<1>8. ASSUME m < Len(block), block[m + 1].candidate PROVE FALSE
  <2>1. m + 1 \in f .. Len(block) /\ m \in Int
    BY <1>1, <1>6, <1>8
  <2>2. \A k \in f .. m + 1 : block[k].candidate
    BY <2>1, <1>7, <1>8
  <2>3. m + 1 \in S
    BY <2>1, <2>2
  <2> QED
    BY <2>1, <2>3, <1>5
<1> QED
  BY <1>4, <1>6, <1>7, <1>8

(* The segments depend on the block and the live flags, which never change.   *)
LEMMA SegmentStable ==
  ASSUME block' = block, live' = live
  PROVE  /\ \A f : SegmentFrom(f)' = SegmentFrom(f)
         /\ FirstSegment' = FirstSegment
         /\ Position' = Position
BY DEF SegmentFrom, FirstSegment, Position, IgnoredFlags, ReadsFlag

-----------------------------------------------------------------------------
(* Each token is in one slot at most.                                         *)
Slotted ==
  /\ \E S : slots \in Seq(S)
  /\ \A s \in DOMAIN slots : "tokens" \in DOMAIN slots[s] /\ slots[s].tokens \in SUBSET Position
  /\ \A s, t \in DOMAIN slots : slots[s].tokens \cap slots[t].tokens # {} => s = t

(* The segment is the one its first token begins.                             *)
Segmented ==
  /\ block \in Seq(Instruction)
  /\ segment.first \in 1 .. Len(block) + 1
  /\ segment = SegmentFrom(segment.first)
  /\ segment.first = 1 \/ segment.first > SegmentFrom(1).last + 1

(* What is before the segment is scheduled, what is behind it is not.         *)
InSegmentOrder ==
  \A i \in Position :
    /\ i < segment.first => Scheduled(i)
    /\ Scheduled(i) => i <= segment.last

(* The token that ends a segment, chosen behind it.                           *)
AtLastTail == Remaining = {} /\ segment.last < Len(block) /\ chosen = {segment.last + 1}

(* What a round chose may go out in one row.                                  *)
ChosenRow ==
  \/ chosen = {}
  \/ \E i, j : Ready(i) /\ Ready(j) /\ chosen = {i, j}
  \/ AtLastTail

(* The inductive invariant.                                                   *)
BlockInv == Slotted /\ Segmented /\ InSegmentOrder /\ ChosenRow

(* Where the segment lies in the block, and what it is made of.               *)
LEMMA InvFacts ==
  ASSUME Segmented
  PROVE  /\ Len(block) \in Nat
         /\ Position = 1 .. Len(block)
         /\ segment.last \in segment.first - 1 .. Len(block)
         /\ SegmentFrom(1).last \in 0 .. Len(block)
         /\ segment.first = 1 => segment.last = SegmentFrom(1).last
         /\ \A k \in Segment : block[k].candidate
         /\ segment.last < Len(block) => ~block[segment.last + 1].candidate
<1>1. Len(block) \in Nat /\ Position = 1 .. Len(block)
  BY DEF Segmented, Position
<1>2. SegmentFrom(1).last \in 0 .. Len(block)
  BY <1>1, SegmentFacts DEF Segmented
<1>3. /\ segment.last \in segment.first - 1 .. Len(block)
      /\ \A k \in segment.first .. segment.last : block[k].candidate
      /\ segment.last < Len(block) => ~block[segment.last + 1].candidate
  BY SegmentFacts DEF Segmented
<1> QED
  BY <1>1, <1>2, <1>3 DEF Segmented, Segment

-----------------------------------------------------------------------------
(* A slot is appended *)

(* A row at the end schedules its tokens and leaves the others.               *)
LEMMA Appended ==
  ASSUME BlockInv, NEW r, "tokens" \in DOMAIN r, r.tokens \in SUBSET Position, \A i \in r.tokens : ~Scheduled(i),
         slots' = Append(slots, r), block' = block
  PROVE  /\ Slotted'
         /\ Len(slots) \in Nat
         /\ DOMAIN slots = 1 .. Len(slots)
         /\ Len(slots') = Len(slots) + 1
         /\ DOMAIN slots' = 1 .. Len(slots) + 1
         /\ \A s \in DOMAIN slots : slots'[s] = slots[s]
         /\ slots'[Len(slots) + 1] = r
         /\ \A i : Scheduled(i)' <=> Scheduled(i) \/ i \in r.tokens
<1>1. PICK S : slots \in Seq(S)
  BY DEF BlockInv, Slotted
<1> DEFINE longer == Append(slots, r)
<1>2. /\ \E T : longer \in Seq(T)
      /\ Len(slots) \in Nat
      /\ DOMAIN slots = 1 .. Len(slots)
      /\ Len(longer) = Len(slots) + 1
      /\ DOMAIN longer = 1 .. Len(slots) + 1
      /\ \A s \in 1 .. Len(slots) : longer[s] = slots[s]
      /\ longer[Len(slots) + 1] = r
  BY <1>1, AppendAny
<1> HIDE DEF longer
<1>0. slots' = longer
  BY DEF longer
<1>3. \A i : Scheduled(i)' <=> Scheduled(i) \/ i \in r.tokens
  BY <1>0, <1>2 DEF Scheduled, InRow
<1>4. Position' = Position
  BY DEF Position
<1>5. \A s \in DOMAIN slots' : "tokens" \in DOMAIN slots'[s] /\ slots'[s].tokens \in SUBSET Position'
  BY <1>0, <1>2, <1>4 DEF BlockInv, Slotted
<1>6. ASSUME NEW s \in DOMAIN slots', NEW t \in DOMAIN slots',
             NEW i \in slots'[s].tokens \cap slots'[t].tokens
      PROVE  s = t
  <2>1. s \in DOMAIN slots \/ s = Len(slots) + 1
    BY <1>0, <1>2
  <2>2. t \in DOMAIN slots \/ t = Len(slots) + 1
    BY <1>0, <1>2
  <2>3. CASE s \in DOMAIN slots /\ t \in DOMAIN slots
    BY <2>3, <1>0, <1>2, <1>6 DEF BlockInv, Slotted
  <2>4. \A u \in DOMAIN slots : i \in slots[u].tokens => Scheduled(i)
    BY DEF Scheduled, InRow
  <2>5. CASE s \in DOMAIN slots /\ t = Len(slots) + 1
    BY <2>4, <2>5, <1>0, <1>2, <1>6
  <2>6. CASE t \in DOMAIN slots /\ s = Len(slots) + 1
    BY <2>4, <2>6, <1>0, <1>2, <1>6
  <2> QED
    BY <2>1, <2>2, <2>3, <2>5, <2>6
<1>7. Slotted'
  BY <1>0, <1>2, <1>5, <1>6 DEF Slotted
<1> QED
  BY <1>0, <1>2, <1>3, <1>7

(* A tail slips into the last row.                                            *)
LEMMA Joined ==
  ASSUME BlockInv, NEW t \in Position, ~Scheduled(t), slots # <<>>,
         slots' = [slots EXCEPT ![Len(slots)].tokens = @ \cup {t}], block' = block
  PROVE  /\ Slotted'
         /\ Len(slots) \in Nat \ {0}
         /\ Len(slots') = Len(slots)
         /\ DOMAIN slots = 1 .. Len(slots)
         /\ DOMAIN slots' = DOMAIN slots
         /\ \A s \in DOMAIN slots :
              slots'[s].tokens = IF s = Len(slots) THEN slots[s].tokens \cup {t} ELSE slots[s].tokens
         /\ \A i : Scheduled(i)' <=> Scheduled(i) \/ i = t
<1> DEFINE row   == slots[Len(slots)]
           wider == [row EXCEPT !.tokens = @ \cup {t}]
           after == [slots EXCEPT ![Len(slots)] = wider]
<1>1. PICK S : slots \in Seq(S)
  BY DEF BlockInv, Slotted
<1>2. /\ Len(slots) \in Nat \ {0}
      /\ DOMAIN slots = 1 .. Len(slots)
      /\ Len(slots) \in DOMAIN slots
  BY <1>1
<1>3. wider.tokens = row.tokens \cup {t} /\ "tokens" \in DOMAIN wider
  BY <1>2 DEF BlockInv, Slotted
<1>4. slots' = after
  OBVIOUS
<1>5. \E T : slots \in Seq(T) /\ wider \in T
  <2>1. slots \in Seq(S \cup {wider})
    BY <1>1, SeqMonotonic
  <2> QED
    BY <2>1
<1> HIDE DEF wider
<1>6. PICK T : slots \in Seq(T) /\ wider \in T
  BY <1>5
<1>7. /\ after \in Seq(T)
      /\ Len(after) = Len(slots)
      /\ DOMAIN after = DOMAIN slots
      /\ \A s \in DOMAIN slots : after[s] = IF s = Len(slots) THEN wider ELSE slots[s]
  BY <1>2, <1>6
<1> HIDE DEF after
<1>8. /\ DOMAIN slots' = DOMAIN slots
      /\ Len(slots') = Len(slots)
      /\ \A s \in DOMAIN slots :
           slots'[s].tokens = IF s = Len(slots) THEN slots[s].tokens \cup {t} ELSE slots[s].tokens
  BY <1>3, <1>4, <1>7
<1>9. \A i : Scheduled(i)' <=> Scheduled(i) \/ i = t
  BY <1>2, <1>8 DEF Scheduled, InRow
<1>10. Position' = Position
  BY DEF Position
<1>11. \A s \in DOMAIN slots' : "tokens" \in DOMAIN slots'[s] /\ slots'[s].tokens \in SUBSET Position'
  BY <1>3, <1>4, <1>7, <1>10 DEF BlockInv, Slotted
<1>12. \A s \in DOMAIN slots : t \notin slots[s].tokens
  BY DEF Scheduled, InRow
<1>13. ASSUME NEW s \in DOMAIN slots', NEW u \in DOMAIN slots',
              NEW i \in slots'[s].tokens \cap slots'[u].tokens
       PROVE  s = u
  <2>1. CASE i = t
    BY <1>8, <1>12, <1>13, <2>1
  <2>2. CASE i # t
    BY <1>8, <1>13, <2>2 DEF BlockInv, Slotted
  <2> QED
    BY <2>1, <2>2
<1>14. Slotted'
  BY <1>4, <1>7, <1>11, <1>13 DEF Slotted
<1> QED
  BY <1>2, <1>8, <1>9, <1>14
-----------------------------------------------------------------------------
(* Every step keeps the invariant *)

(* Nothing is scheduled of the block the loop begins with.                    *)
LEMMA InitInv == Init => BlockInv
<1> SUFFICES ASSUME Init PROVE BlockInv
  OBVIOUS
<1>1. block \in Seq(Instruction) /\ Len(block) \in Nat
  BY BlocksAssumption DEF Init
<1>2. SegmentFrom(1).first = 1 /\ SegmentFrom(1).last \in 0 .. Len(block)
  BY <1>1, SegmentFacts
<1>3. Segmented
  BY <1>1, <1>2 DEF Init, Segmented
<1>4. slots = <<>> /\ DOMAIN slots = {} /\ \E S : slots \in Seq(S)
  <2>1. <<>> \in Seq(Nat) /\ DOMAIN <<>> = {}
    OBVIOUS
  <2> QED
    BY <2>1 DEF Init
<1>5. Slotted
  BY <1>4 DEF Slotted
<1>6. InSegmentOrder
  BY <1>1, <1>2, <1>4 DEF Init, InSegmentOrder, Scheduled, Position
<1>7. ChosenRow
  BY DEF Init, ChosenRow, NoRow
<1> QED
  BY <1>3, <1>5, <1>6, <1>7 DEF BlockInv

(* Where the segment stays, its facts do.                                     *)
LEMMA SameSegment ==
  ASSUME Segmented, block' = block, live' = live, segment' = segment
  PROVE  Segmented'
BY SegmentStable DEF Segmented

(* A row of ready tokens of the segment goes out.                             *)
LEMMA RowGoesOut ==
  ASSUME BlockInv, NEW r, "tokens" \in DOMAIN r, r.tokens \subseteq Remaining,
         slots' = Append(slots, r), UNCHANGED <<block, live, segment>>, chosen' = {}
  PROVE  BlockInv'
<1>1. /\ Len(block) \in Nat
      /\ Position = 1 .. Len(block)
      /\ segment.last \in segment.first - 1 .. Len(block)
      /\ segment.first \in 1 .. Len(block) + 1
  BY InvFacts DEF BlockInv, Segmented
<1>2. \A i \in r.tokens : i \in Position /\ ~Scheduled(i) /\ i <= segment.last
  BY <1>1 DEF Remaining, Segment
<1>3. Slotted' /\ \A i : Scheduled(i)' <=> Scheduled(i) \/ i \in r.tokens
  BY <1>2, Appended
<1>4. Segmented'
  BY SameSegment DEF BlockInv
<1>5. Position' = Position
  BY DEF Position
<1>6. InSegmentOrder'
  BY <1>2, <1>3, <1>5 DEF BlockInv, InSegmentOrder
<1>7. ChosenRow'
  BY DEF ChosenRow
<1> QED
  BY <1>3, <1>4, <1>6, <1>7 DEF BlockInv

(* The token behind a finished segment goes out, and the next one begins      *)
(* behind it.                                                                 *)
LEMMA TailGoesOut ==
  ASSUME BlockInv, Remaining = {}, segment.last < Len(block),
         Slotted', \A i : Scheduled(i)' <=> Scheduled(i) \/ i = segment.last + 1,
         UNCHANGED <<block, live>>, segment' = SegmentFrom(segment.last + 2), chosen' = {}
  PROVE  BlockInv'
<1>1. /\ block \in Seq(Instruction)
      /\ Len(block) \in Nat
      /\ Position = 1 .. Len(block)
      /\ segment.last \in segment.first - 1 .. Len(block)
      /\ segment.first \in 1 .. Len(block) + 1
      /\ SegmentFrom(1).last \in 0 .. Len(block)
      /\ segment.first = 1 => segment.last = SegmentFrom(1).last
  BY InvFacts DEF BlockInv, Segmented
<1> DEFINE f == segment.last + 2
<1>2. f \in 1 .. Len(block) + 1
  BY <1>1
<1>3. SegmentFrom(f).first = f /\ SegmentFrom(f).last \in f - 1 .. Len(block)
  BY <1>1, <1>2, SegmentFacts
<1>4. segment'.first = f /\ segment'.last \in f - 1 .. Len(block) /\ segment' = SegmentFrom(f)
  BY <1>3
<1>5. SegmentFrom(1)' = SegmentFrom(1) /\ Position' = Position
  BY SegmentStable
<1>6. SegmentFrom(segment.first)' = SegmentFrom(f)
  BY <1>4, SegmentStable
<1>7. f > SegmentFrom(1).last + 1
  BY <1>1 DEF BlockInv, Segmented
<1>8. Segmented'
  BY <1>1, <1>2, <1>4, <1>5, <1>6, <1>7 DEF Segmented
<1>9. ASSUME NEW i \in Position
      PROVE  /\ i < f => Scheduled(i)'
             /\ Scheduled(i)' => i <= segment'.last
  <2>1. i \in Nat
    BY <1>1
  <2>2. i <= segment.last => Scheduled(i)
    BY <1>1, <2>1 DEF BlockInv, InSegmentOrder, Remaining, Segment
  <2>3. Scheduled(i) => i <= segment.last
    BY DEF BlockInv, InSegmentOrder
  <2> QED
    BY <1>1, <1>4, <2>1, <2>2, <2>3
<1>10. InSegmentOrder'
  BY <1>4, <1>5, <1>9 DEF InSegmentOrder
<1>11. ChosenRow'
  BY DEF ChosenRow
<1> QED
  BY <1>8, <1>10, <1>11 DEF BlockInv

(* A step that schedules nothing keeps what is scheduled, and the segment.    *)
LEMMA NothingGoesOut ==
  ASSUME BlockInv, Slotted', \A i : Scheduled(i)' <=> Scheduled(i),
         UNCHANGED <<block, live, segment>>
  PROVE  /\ Slotted' /\ Segmented' /\ InSegmentOrder'
         /\ Remaining' = Remaining
         /\ \A i : Ready(i)' <=> Ready(i)
         /\ AtLastTail /\ chosen' = chosen => AtLastTail'
<1>1. Position' = Position
  BY DEF Position
<1>2. Segmented'
  BY SameSegment DEF BlockInv
<1>3. InSegmentOrder'
  BY <1>1 DEF BlockInv, InSegmentOrder
<1>4. Remaining' = Remaining
  BY DEF Remaining, Segment
<1>5. \A i : Ready(i)' <=> Ready(i)
  BY <1>4 DEF Ready, Blockers
<1> QED
  BY <1>2, <1>3, <1>4, <1>5 DEF AtLastTail

(* A ready token goes out in the words of another token's wait.               *)
LEMMA FillWaitInv ==
  ASSUME BlockInv, NEW w \in Remaining, NEW u \in Remaining, FillWait(w, u)
  PROVE  BlockInv'
<1> DEFINE kind == KindOf({w})
           r == [ tokens |-> {u}, padding |-> kind, issue |-> cycle,
                  cycles |-> WaitCycles(kind) + 1, words |-> 1, ignored |-> segment.ignored ]
<1>1. slots' = Append(slots, r) /\ UNCHANGED <<block, live, segment>> /\ chosen' = {}
  BY DEF FillWait, WaitRow, NoRow
<1>2. "tokens" \in DOMAIN r /\ r.tokens \subseteq Remaining
  OBVIOUS
<1> QED
  BY <1>1, <1>2, RowGoesOut

(* A ready token goes out in the last word of its own wait.                   *)
LEMMA IssueWaitingUpperInv ==
  ASSUME BlockInv, NEW i \in Remaining, IssueWaitingUpper(i)
  PROVE  BlockInv'
<1> DEFINE kind == KindOf({i})
           r == [ tokens |-> {i}, padding |-> kind, issue |-> cycle,
                  cycles |-> WaitCycles(kind) + 1, words |-> 1, ignored |-> segment.ignored ]
<1>1. slots' = Append(slots, r) /\ UNCHANGED <<block, live, segment>> /\ chosen' = {}
  BY DEF IssueWaitingUpper, WaitRow, NoRow
<1>2. "tokens" \in DOMAIN r /\ r.tokens \subseteq Remaining
  OBVIOUS
<1> QED
  BY <1>1, <1>2, RowGoesOut

(* Choosing writes no row.                                                    *)
LEMMA SlotsStay ==
  ASSUME BlockInv, UNCHANGED <<block, live, slots, segment>>
  PROVE  Slotted' /\ \A i : Scheduled(i)' <=> Scheduled(i)
<1>1. Position' = Position
  BY DEF Position
<1>2. Slotted'
  BY <1>1 DEF BlockInv, Slotted
<1> QED
  BY <1>2 DEF Scheduled, InRow

(* One ready token is chosen.                                                 *)
LEMMA ChooseAloneInv ==
  ASSUME BlockInv, NEW i \in Remaining, ChooseAlone(i)
  PROVE  BlockInv'
<1>1. Ready(i) /\ chosen' = {i} /\ UNCHANGED <<block, live, slots, segment>>
  BY DEF ChooseAlone
<1>2. Slotted' /\ Segmented' /\ InSegmentOrder' /\ Ready(i)'
  BY <1>1, SlotsStay, NothingGoesOut
<1>3. chosen' = {i, i}
  BY <1>1
<1>4. ChosenRow'
  BY <1>2, <1>3 DEF ChosenRow
<1> QED
  BY <1>2, <1>4 DEF BlockInv

(* Two ready tokens are chosen.                                               *)
LEMMA ChoosePairInv ==
  ASSUME BlockInv, NEW i \in Remaining, NEW j \in Remaining, ChoosePair(i, j)
  PROVE  BlockInv'
<1>1. Ready(i) /\ Ready(j) /\ chosen' = {i, j} /\ UNCHANGED <<block, live, slots, segment>>
  BY DEF ChoosePair, Partners
<1>2. Slotted' /\ Segmented' /\ InSegmentOrder' /\ Ready(i)' /\ Ready(j)'
  BY <1>1, SlotsStay, NothingGoesOut
<1>3. ChosenRow'
  BY <1>1, <1>2 DEF ChosenRow
<1> QED
  BY <1>2, <1>3 DEF BlockInv

(* What was chosen may still be issued behind padding.                        *)
LEMMA ChosenStays ==
  ASSUME BlockInv, Slotted', \A i : Scheduled(i)' <=> Scheduled(i),
         UNCHANGED <<block, live, segment, chosen>>
  PROVE  BlockInv'
<1>1. /\ Slotted' /\ Segmented' /\ InSegmentOrder'
      /\ \A i : Ready(i)' <=> Ready(i)
      /\ AtLastTail => AtLastTail'
  BY NothingGoesOut
<1>2. ChosenRow'
  BY <1>1 DEF BlockInv, ChosenRow
<1> QED
  BY <1>1, <1>2 DEF BlockInv

(* Padding holds no token.                                                    *)
LEMMA PadInv ==
  ASSUME BlockInv, Pad
  PROVE  BlockInv'
<1>1. UNCHANGED <<block, live, segment, chosen>>
  BY DEF Pad
<1>2. CASE slots' = slots
  BY <1>1, <1>2, SlotsStay, ChosenStays
<1>3. CASE \E r : r.tokens = {} /\ "tokens" \in DOMAIN r /\ slots' = Append(slots, r)
  <2>1. PICK r : r.tokens = {} /\ "tokens" \in DOMAIN r /\ slots' = Append(slots, r)
    BY <1>3
  <2>2. Slotted' /\ \A i : Scheduled(i)' <=> Scheduled(i)
    BY <1>1, <2>1, Appended
  <2> QED
    BY <1>1, <2>2, ChosenStays
<1> QED
  BY <1>2, <1>3 DEF Pad

(* The token behind a finished segment is not scheduled yet.                  *)
LEMMA TailIsNext ==
  ASSUME BlockInv, segment.last < Len(block)
  PROVE  segment.last + 1 \in Position /\ ~Scheduled(segment.last + 1)
<1>1. /\ Len(block) \in Nat
      /\ Position = 1 .. Len(block)
      /\ segment.last \in segment.first - 1 .. Len(block)
      /\ segment.first \in 1 .. Len(block) + 1
  BY InvFacts DEF BlockInv, Segmented
<1>2. segment.last + 1 \in Position
  BY <1>1
<1>3. Scheduled(segment.last + 1) => segment.last + 1 <= segment.last
  BY <1>2 DEF BlockInv, InSegmentOrder
<1> QED
  BY <1>1, <1>2, <1>3

(* The chosen row goes out: ready tokens of the segment, or its tail.         *)
LEMMA IssueInv ==
  ASSUME BlockInv, Issue
  PROVE  BlockInv'
<1> DEFINE tail == \E i \in chosen : ~block[i].candidate
           r == [ tokens |-> chosen, padding |-> "NONE", issue |-> cycle, cycles |-> 1, words |-> 1,
                  ignored |-> IF tail THEN {} ELSE segment.ignored ]
<1>1. /\ slots' = Append(slots, r)
      /\ segment' = IF tail THEN SegmentFrom(segment.last + 2) ELSE segment
      /\ chosen' = {} /\ chosen # {}
      /\ UNCHANGED <<block, live>>
  BY DEF Issue, NoRow
<1>2. "tokens" \in DOMAIN r /\ r.tokens = chosen
  OBVIOUS
<1> HIDE DEF r
<1>3. CASE \E i, j : Ready(i) /\ Ready(j) /\ chosen = {i, j}
  <2>1. chosen \subseteq Remaining
    BY <1>3 DEF Ready
  <2>2. ~tail
    BY <2>1, InvFacts DEF BlockInv, Remaining
  <2> QED
    BY <1>1, <1>2, <2>1, <2>2, RowGoesOut
<1>4. CASE AtLastTail
  <2>1. /\ segment.last + 1 \in Position
        /\ ~block[segment.last + 1].candidate
        /\ ~Scheduled(segment.last + 1)
    BY <1>4, TailIsNext, InvFacts DEF AtLastTail, BlockInv
  <2>2. chosen = {segment.last + 1} /\ tail
    BY <1>4, <2>1 DEF AtLastTail
  <2>3. r.tokens \in SUBSET Position /\ \A i \in r.tokens : ~Scheduled(i)
    BY <1>2, <2>1, <2>2
  <2>4. Slotted' /\ \A i : Scheduled(i)' <=> Scheduled(i) \/ i \in r.tokens
    BY <1>1, <1>2, <2>3, Appended
  <2>5. \A i : Scheduled(i)' <=> Scheduled(i) \/ i = segment.last + 1
    BY <1>2, <2>2, <2>4
  <2> QED
    BY <1>1, <1>4, <2>2, <2>4, <2>5, TailGoesOut DEF AtLastTail
<1> QED
  BY <1>1, <1>3, <1>4 DEF BlockInv, ChosenRow

(* The tail is slipped into the last row.                                     *)
LEMMA PairTailInv ==
  ASSUME BlockInv, PairTail
  PROVE  BlockInv'
<1> DEFINE t == segment.last + 1
<1>1. /\ Remaining = {} /\ segment.last < Len(block)
      /\ slots # <<>>
      /\ slots' = [slots EXCEPT ![Len(slots)].tokens = @ \cup {t}]
      /\ segment' = SegmentFrom(t + 1)
      /\ UNCHANGED <<block, live>> /\ chosen' = {}
  BY DEF PairTail, AtTail, JoinsRow, NoRow
<1>2. t \in Position /\ ~Scheduled(t)
  BY <1>1, TailIsNext
<1>3. Slotted' /\ \A i : Scheduled(i)' <=> Scheduled(i) \/ i = segment.last + 1
  BY <1>1, <1>2, Joined
<1>4. t + 1 = segment.last + 2
  BY <1>1, InvFacts DEF BlockInv, Segmented
<1> QED
  BY <1>1, <1>3, <1>4, TailGoesOut

(* The tail is chosen for a row of its own.                                   *)
LEMMA StartTailInv ==
  ASSUME BlockInv, StartTail
  PROVE  BlockInv'
<1>1. /\ Remaining = {} /\ segment.last < Len(block) /\ chosen' = {segment.last + 1}
      /\ UNCHANGED <<block, live, slots, segment>>
  BY DEF StartTail, AtTail
<1>2. Slotted' /\ Segmented' /\ InSegmentOrder' /\ Remaining' = Remaining
  BY <1>1, SlotsStay, NothingGoesOut
<1>3. AtLastTail'
  BY <1>1, <1>2 DEF AtLastTail
<1> QED
  BY <1>2, <1>3 DEF BlockInv, ChosenRow

(* One step per action of the scheduler.                                      *)
LEMMA NextInv == BlockInv /\ [Next]_vars => BlockInv'
<1> SUFFICES ASSUME BlockInv, [Next]_vars PROVE BlockInv'
  OBVIOUS
<1>1. CASE \E w, u \in Remaining : FillWait(w, u)
  BY <1>1, FillWaitInv
<1>2. CASE \E i \in Remaining : IssueWaitingUpper(i)
  BY <1>2, IssueWaitingUpperInv
<1>3. CASE \E i \in Remaining : ChooseAlone(i)
  BY <1>3, ChooseAloneInv
<1>4. CASE \E i, j \in Remaining : ChoosePair(i, j)
  BY <1>4, ChoosePairInv
<1>5. CASE Pad
  BY <1>5, PadInv
<1>6. CASE Issue
  BY <1>6, IssueInv
<1>7. CASE PairTail
  BY <1>7, PairTailInv
<1>8. CASE StartTail
  BY <1>8, StartTailInv
<1>9. CASE UNCHANGED vars
  BY <1>9, SlotsStay, ChosenStays DEF vars
<1> QED
  BY <1>1, <1>2, <1>3, <1>4, <1>5, <1>6, <1>7, <1>8, <1>9 DEF Next, Step, Done

(* No token is in two slots, none of a later segment is scheduled, and what a *)
(* round chose is ready until it is issued.                                   *)
THEOREM BlockInvCorrect == Spec => []BlockInv
<1> QED
  BY InitInv, NextInv, PTL DEF Spec

(* Every token of a finished block is in exactly one of its slots: nothing is *)
(* lost between two segments, and no tail is scheduled again behind the row   *)
(* it was slipped into.                                                       *)
EveryTokenOnce ==
  Finished =>
    /\ \A i \in Position : Scheduled(i)
    /\ \A s, t \in DOMAIN slots : slots[s].tokens \cap slots[t].tokens # {} => s = t

(* The rounds, waits and tails of a block schedule each of its tokens once.   *)
THEOREM EveryTokenOnceCorrect == Spec => []EveryTokenOnce
<1>1. BlockInv => EveryTokenOnce
  <2> SUFFICES ASSUME BlockInv, Finished PROVE EveryTokenOnce
    BY DEF EveryTokenOnce
  <2>1. \A i \in Position : Scheduled(i)
    BY InvFacts DEF BlockInv, Segmented, InSegmentOrder, Finished, Remaining, Segment
  <2> QED
    BY <2>1 DEF BlockInv, Slotted, EveryTokenOnce
<1> QED
  BY <1>1, BlockInvCorrect, PTL

-----------------------------------------------------------------------------
(* The rows of the first segment *)

(* The number of rows with a token among the first slots.                     *)
LEMMA TokenSlotsCount ==
  ASSUME NEW n \in Nat
  PROVE  /\ IsFiniteSet(TokenSlots(n))
         /\ Cardinality(TokenSlots(n)) \in Nat
         /\ n \in TokenSlots(n) => Cardinality(TokenSlots(n)) # 0
         /\ TokenSlots(n + 1) = IF slots[n + 1].tokens # {} THEN TokenSlots(n) \cup {n + 1} ELSE TokenSlots(n)
         /\ n + 1 \notin TokenSlots(n)
<1>1. TokenSlots(n) \in SUBSET (1 .. n)
  BY DEF TokenSlots
<1>2. IsFiniteSet(1 .. n)
  BY FS_Interval
<1>3. IsFiniteSet(TokenSlots(n))
  BY <1>1, <1>2, FS_Subset
<1>4. Cardinality(TokenSlots(n)) \in Nat
  BY <1>3, FS_CardinalityType
<1>5. n \in TokenSlots(n) => Cardinality(TokenSlots(n)) # 0
  BY <1>3, FS_EmptySet
<1>6. n + 1 \notin TokenSlots(n)
  BY DEF TokenSlots
<1>7. \A s : s \in 1 .. n + 1 <=> s \in 1 .. n \/ s = n + 1
  OBVIOUS
<1>8. TokenSlots(n + 1) = IF slots[n + 1].tokens # {} THEN TokenSlots(n) \cup {n + 1} ELSE TokenSlots(n)
  BY <1>7, Zenon DEF TokenSlots
<1> QED
  BY <1>3, <1>4, <1>5, <1>6, <1>8

(* A scheduled token is in one slot, and its row is never 0.                  *)
LEMMA RowOfSlot ==
  ASSUME Slotted, NEW s \in DOMAIN slots, NEW i \in slots[s].tokens
  PROVE  /\ Scheduled(i)
         /\ (CHOOSE u \in DOMAIN slots : InRow(i, u)) = s
         /\ RowOf(i) = Cardinality(TokenSlots(s))
         /\ RowOf(i) # 0
<1>1. Scheduled(i) /\ InRow(i, s)
  BY DEF Scheduled, InRow
<1>2. \A u \in DOMAIN slots : InRow(i, u) => u = s
  BY DEF InRow, Slotted
<1>3. (CHOOSE u \in DOMAIN slots : InRow(i, u)) = s
  BY <1>1, <1>2
<1>4. RowOf(i) = Cardinality(TokenSlots(s))
  BY <1>1, <1>3 DEF RowOf
<1>5. s \in Nat /\ s \in 1 .. s
  <2>1. PICK S : slots \in Seq(S)
    BY DEF Slotted
  <2> QED
    BY <2>1
<1>6. s \in TokenSlots(s)
  BY <1>5 DEF TokenSlots
<1> QED
  BY <1>1, <1>3, <1>4, <1>5, <1>6, TokenSlotsCount

(* The variables of VuReadyOrder. *)
OrderBlock   == [i \in FirstSegment |-> block[i].access]
OrderRow     == [i \in FirstSegment |-> RowOf(i)]
OrderRows    == Cardinality({s \in TokenSlots(Len(slots)) : slots[s].tokens \cap FirstSegment # {}})

(* In the first segment of a block the slots hold tokens of that segment only. *)
LEMMA FirstRows ==
  ASSUME BlockInv, segment.first = 1
  PROVE  OrderRows = Cardinality(TokenSlots(Len(slots)))
<1>1. ASSUME NEW s \in TokenSlots(Len(slots)) PROVE slots[s].tokens \cap FirstSegment # {}
  <2>1. PICK S : slots \in Seq(S)
    BY DEF BlockInv, Slotted
  <2>2. s \in DOMAIN slots /\ slots[s].tokens # {}
    BY <2>1 DEF TokenSlots
  <2>3. PICK i \in slots[s].tokens : TRUE
    BY <2>2
  <2>4. i \in Position /\ Scheduled(i)
    BY <2>2, <2>3 DEF BlockInv, Slotted, Scheduled, InRow
  <2>5. i <= segment.last
    BY <2>4 DEF BlockInv, InSegmentOrder
  <2>6. i \in FirstSegment
    BY <2>4, <2>5, InvFacts DEF BlockInv, FirstSegment
  <2> QED
    BY <2>3, <2>6
<1>2. {s \in TokenSlots(Len(slots)) : slots[s].tokens \cap FirstSegment # {}} = TokenSlots(Len(slots))
  BY <1>1
<1> QED
  BY <1>2 DEF OrderRows

(* A row at the end takes the next row number and changes no earlier one.     *)
LEMMA RowsAfterAppend ==
  ASSUME BlockInv, NEW r, "tokens" \in DOMAIN r, r.tokens \in SUBSET Position,
         \A i \in r.tokens : ~Scheduled(i),
         slots' = Append(slots, r), block' = block, live' = live
  PROVE  /\ \A i : Scheduled(i) => RowOf(i)' = RowOf(i)
         /\ \A i : ~Scheduled(i) /\ i \notin r.tokens => RowOf(i)' = 0
         /\ \A i \in r.tokens : RowOf(i)' = Cardinality(TokenSlots(Len(slots))) + 1
         /\ OrderRows' = IF r.tokens \cap FirstSegment = {} THEN OrderRows ELSE OrderRows + 1
<1> DEFINE n == Len(slots)
<1>1. /\ Slotted'
      /\ n \in Nat
      /\ DOMAIN slots = 1 .. n
      /\ Len(slots') = n + 1
      /\ DOMAIN slots' = 1 .. n + 1
      /\ \A s \in DOMAIN slots : slots'[s] = slots[s]
      /\ slots'[n + 1] = r
      /\ \A i : Scheduled(i)' <=> Scheduled(i) \/ i \in r.tokens
  BY Appended
<1>2. ASSUME NEW s \in 0 .. n
      PROVE  {u \in 1 .. s : slots'[u].tokens # {}} = TokenSlots(s)
  BY <1>1 DEF TokenSlots
<1>3. {u \in 1 .. n + 1 : slots'[u].tokens # {}}
        = IF r.tokens # {} THEN TokenSlots(n) \cup {n + 1} ELSE TokenSlots(n)
  BY <1>1, <1>2 DEF TokenSlots
<1>4. Cardinality({u \in 1 .. n + 1 : slots'[u].tokens # {}})
        = IF r.tokens # {} THEN Cardinality(TokenSlots(n)) + 1 ELSE Cardinality(TokenSlots(n))
  <2>1. /\ IsFiniteSet(TokenSlots(n))
        /\ n + 1 \notin TokenSlots(n)
    BY <1>1, TokenSlotsCount
  <2>2. Cardinality(TokenSlots(n) \cup {n + 1}) = Cardinality(TokenSlots(n)) + 1
    BY <2>1, FS_AddElement
  <2> QED
    BY <1>3, <2>2
<1>5. ASSUME NEW i, Scheduled(i) PROVE RowOf(i)' = RowOf(i)
  <2>1. PICK s \in DOMAIN slots : i \in slots[s].tokens
    BY <1>5 DEF Scheduled, InRow
  <2>2. RowOf(i) = Cardinality(TokenSlots(s))
    BY <2>1, RowOfSlot DEF BlockInv
  <2>3. /\ Scheduled(i)'
        /\ \A u \in DOMAIN slots' : i \in slots'[u].tokens <=> u = s
    BY <1>1, <1>5, <2>1 DEF Slotted
  <2>4. (CHOOSE u \in DOMAIN slots' : i \in slots'[u].tokens) = s
    BY <1>1, <2>1, <2>3
  <2>5. RowOf(i)' = Cardinality({u \in 1 .. s : slots'[u].tokens # {}})
    BY <2>3, <2>4 DEF RowOf, TokenSlots, InRow
  <2>6. {u \in 1 .. s : slots'[u].tokens # {}} = TokenSlots(s)
    BY <1>1, <1>2, <2>1
  <2> QED
    BY <2>2, <2>5, <2>6
<1>6. ASSUME NEW i, ~Scheduled(i), i \notin r.tokens PROVE RowOf(i)' = 0
  BY <1>1, <1>6 DEF RowOf
<1>7. ASSUME NEW i \in r.tokens PROVE RowOf(i)' = Cardinality(TokenSlots(n)) + 1
  <2>3. /\ Scheduled(i)'
        /\ \A u \in DOMAIN slots' : i \in slots'[u].tokens <=> u = n + 1
    BY <1>1, <1>7 DEF Slotted
  <2>4. (CHOOSE u \in DOMAIN slots' : i \in slots'[u].tokens) = n + 1
    BY <1>1, <2>3
  <2>5. RowOf(i)' = Cardinality({u \in 1 .. n + 1 : slots'[u].tokens # {}})
    BY <2>3, <2>4 DEF RowOf, TokenSlots, InRow
  <2> QED
    BY <1>4, <2>5
<1>8. OrderRows' = IF r.tokens \cap FirstSegment = {} THEN OrderRows ELSE OrderRows + 1
  <2> DEFINE Old == {s \in TokenSlots(n) : slots[s].tokens \cap FirstSegment # {}}
             New == {s \in {u \in 1 .. n + 1 : slots'[u].tokens # {}} : slots'[s].tokens \cap FirstSegment # {}}
  <2>1. FirstSegment' = FirstSegment
    BY SegmentStable
  <2>2. \A s : s \in New <=> s \in Old \/ (s = n + 1 /\ r.tokens \cap FirstSegment # {})
    BY <1>1, <1>3 DEF TokenSlots
  <2>3. IsFiniteSet(Old) /\ n + 1 \notin Old
    BY <1>1, TokenSlotsCount, FS_Subset
  <2>4. OrderRows' = Cardinality(New) /\ OrderRows = Cardinality(Old)
    BY <1>1, <2>1 DEF OrderRows, TokenSlots
  <2> HIDE DEF Old, New
  <2>5. CASE r.tokens \cap FirstSegment = {}
    <3>1. New = Old
      BY <2>2, <2>5
    <3> QED
      BY <2>4, <2>5, <3>1
  <2>6. CASE r.tokens \cap FirstSegment # {}
    <3>1. New = Old \cup {n + 1}
      BY <2>2, <2>6
    <3>2. Cardinality(New) = Cardinality(Old) + 1
      BY <2>3, <3>1, FS_AddElement
    <3> QED
      BY <2>4, <2>6, <3>2
  <2> QED
    BY <2>5, <2>6
<1> QED
  BY <1>5, <1>6, <1>7, <1>8

(* A tail slipped into the last row leaves the first segment as it was.       *)
LEMMA RowsAfterJoin ==
  ASSUME BlockInv, NEW t \in Position, ~Scheduled(t), t \notin FirstSegment,
         slots # <<>>, slots[Len(slots)].tokens # {},
         slots' = [slots EXCEPT ![Len(slots)].tokens = @ \cup {t}], block' = block, live' = live
  PROVE  OrderRow' = OrderRow /\ OrderRows' = OrderRows
<1>1. /\ Slotted'
      /\ Len(slots) \in Nat \ {0}
      /\ Len(slots') = Len(slots)
      /\ DOMAIN slots = 1 .. Len(slots)
      /\ DOMAIN slots' = DOMAIN slots
      /\ \A s \in DOMAIN slots :
           slots'[s].tokens = IF s = Len(slots) THEN slots[s].tokens \cup {t} ELSE slots[s].tokens
      /\ \A i : Scheduled(i)' <=> Scheduled(i) \/ i = t
  BY Joined
<1>2. FirstSegment' = FirstSegment
  BY SegmentStable
<1>3. \A s \in 1 .. Len(slots) :
        /\ slots'[s].tokens # {} <=> slots[s].tokens # {}
        /\ slots'[s].tokens \cap FirstSegment = slots[s].tokens \cap FirstSegment
  BY <1>1
<1>4. ASSUME NEW n \in 0 .. Len(slots)
      PROVE  {u \in 1 .. n : slots'[u].tokens # {}} = TokenSlots(n)
  BY <1>1, <1>3 DEF TokenSlots
<1>5. ASSUME NEW i \in FirstSegment PROVE RowOf(i)' = RowOf(i)
  <2>1. i # t
    OBVIOUS
  <2>2. CASE ~Scheduled(i)
    BY <1>1, <2>1, <2>2 DEF RowOf
  <2>3. CASE Scheduled(i)
    <3>1. PICK s \in DOMAIN slots : i \in slots[s].tokens
      BY <2>3 DEF Scheduled, InRow
    <3>2. RowOf(i) = Cardinality(TokenSlots(s))
      BY <3>1, RowOfSlot DEF BlockInv
    <3>3. /\ Scheduled(i)'
          /\ \A u \in DOMAIN slots' : i \in slots'[u].tokens <=> u = s
      BY <1>1, <2>1, <2>3, <3>1 DEF Slotted
    <3>4. (CHOOSE u \in DOMAIN slots' : i \in slots'[u].tokens) = s
      BY <1>1, <3>1, <3>3
    <3>5. RowOf(i)' = Cardinality({u \in 1 .. s : slots'[u].tokens # {}})
      BY <3>3, <3>4 DEF RowOf, TokenSlots, InRow
    <3>6. {u \in 1 .. s : slots'[u].tokens # {}} = TokenSlots(s)
      BY <1>1, <1>4, <3>1
    <3> QED
      BY <3>2, <3>5, <3>6
  <2> QED
    BY <2>2, <2>3
<1>6. OrderRow' = OrderRow
  BY <1>2, <1>5 DEF OrderRow
<1>7. OrderRows' = OrderRows
  <2> DEFINE n == Len(slots)
             Old == {s \in TokenSlots(n) : slots[s].tokens \cap FirstSegment # {}}
             New == {s \in {u \in 1 .. n : slots'[u].tokens # {}} : slots'[s].tokens \cap FirstSegment # {}}
  <2>1. \A s : s \in New <=> s \in Old
    BY <1>1, <1>3 DEF TokenSlots
  <2>2. New = Old
    BY <2>1
  <2>3. OrderRows' = Cardinality(New)
    BY <1>1, <1>2 DEF OrderRows, TokenSlots
  <2> QED
    BY <2>2, <2>3 DEF OrderRows
<1> QED
  BY <1>6, <1>7

-----------------------------------------------------------------------------
(* The refinement *)

(* An instruction's access is a token of the graph.                           *)
LEMMA OrderBlockType ==
  ASSUME block \in Seq(Instruction)
  PROVE  /\ OrderBlock \in BlockType
         /\ FirstSegment = 1 .. SegmentFrom(1).last
         /\ FirstSegment \subseteq Position
<1>1. Len(block) \in Nat /\ Position = 1 .. Len(block)
  BY DEF Position
<1>2. SegmentFrom(1).last \in 0 .. Len(block)
  BY <1>1, SegmentFacts
<1>3. FirstSegment = 1 .. SegmentFrom(1).last /\ FirstSegment \subseteq Position
  BY <1>1, <1>2 DEF FirstSegment
<1>4. \A i \in FirstSegment : block[i].access \in TokenType
  <2>1. \A i \in FirstSegment : block[i] \in Instruction
    BY <1>1, <1>3
  <2> QED
    BY <2>1 DEF Instruction
<1>5. OrderBlock \in [1 .. SegmentFrom(1).last -> TokenType]
  BY <1>3, <1>4 DEF OrderBlock
<1>6. OrderBlock \in Seq(TokenType)
  BY <1>2, <1>5
<1> QED
  BY <1>3, <1>6 DEF BlockType

(* The abstract order reads the graph as this module does.                    *)
LEMMA SameEdge ==
  ASSUME NEW b, NEW g, NEW i, NEW j
  PROVE  Order!Edge(b, g, i, j) <=> Edge(b, g, i, j)
BY Zenon
   DEF Edge, RegisterConflict, RegisterRaw, RegisterWar, RegisterWaw, PairwiseConflict,
       Resource, PairwiseResource, PreciseResource, AccumulatingResource,
       MemoryConflict, MayExchange, MemoryDistinct, IsPlainAccess, RegisterFlagEdge,
       WindowFlagEdge, AccumulatingFlagEdge, IsFinalWriter, LastWriterBefore, ReadAfter,
       ContributorAt, LastContributorAt, LastClearBefore, Reads, Writes, Clears,
       Contributes,
       Order!Edge, Order!RegisterConflict, Order!RegisterRaw, Order!RegisterWar,
       Order!RegisterWaw, Order!PairwiseConflict, Order!Resource,
       Order!PairwiseResource, Order!PreciseResource, Order!AccumulatingResource,
       Order!MemoryConflict, Order!MayExchange, Order!MemoryDistinct,
       Order!IsPlainAccess, Order!RegisterFlagEdge, Order!WindowFlagEdge,
       Order!AccumulatingFlagEdge, Order!IsFinalWriter, Order!LastWriterBefore,
       Order!ReadAfter, Order!ContributorAt, Order!LastContributorAt,
       Order!LastClearBefore, Order!Reads, Order!Writes, Order!Clears, Order!Contributes

(* The graph of the first segment is the abstract order's.                    *)
LEMMA FirstBlockers ==
  ASSUME BlockInv, segment.first = 1, NEW p \in FirstSegment, NEW i \in FirstSegment,
         Order!Edge(OrderBlock, SegmentFrom(1).ignored, p, i)
  PROVE  p \in Blockers(i)
<1> DEFINE last == SegmentFrom(1).last
           access == [k \in 1 .. last - 1 + 1 |-> block[1 + k - 1].access]
<1>1. segment = SegmentFrom(1) /\ last \in Nat /\ FirstSegment = 1 .. last
  BY InvFacts DEF BlockInv, Segmented, FirstSegment
<1>2. access = OrderBlock
  BY <1>1 DEF OrderBlock
<1>3. segment.edges = {e \in (1 .. last) \X (1 .. last) :
                         Edge(access, SegmentFrom(1).ignored, e[1] - 1 + 1, e[2] - 1 + 1)}
  BY <1>1 DEF SegmentFrom
<1>4. Edge(access, SegmentFrom(1).ignored, p, i)
  BY <1>2, SameEdge
<1>5. p - 1 + 1 = p /\ i - 1 + 1 = i
  BY <1>1
<1> HIDE DEF access
<1>6. <<p, i>> \in segment.edges
  BY <1>1, <1>3, <1>4, <1>5
<1> QED
  BY <1>6 DEF Blockers

(* Before the first round no token of the first segment has a row.            *)
LEMMA InitRefines == Init => Order!Init
<1> SUFFICES ASSUME Init PROVE Order!Init
  OBVIOUS
<1>1. BlockInv
  BY InitInv
<1>2. OrderBlock \in BlockType /\ DOMAIN OrderBlock = FirstSegment
  BY <1>1, OrderBlockType DEF BlockInv, Segmented, OrderBlock
<1>3. SegmentFrom(1).ignored \in SUBSET {"MAC", "CLIP", "STATUS"}
  BY DEF SegmentFrom, IgnoredFlags
<1>4. slots = <<>> /\ DOMAIN slots = {} /\ Len(slots) = 0
  BY DEF Init
<1>5. \A i : RowOf(i) = 0
  BY <1>4 DEF RowOf, Scheduled
<1>6. OrderRow = [i \in FirstSegment |-> 0]
  BY <1>5 DEF OrderRow
<1>7. OrderRows = 0
  <2>1. {s \in TokenSlots(0) : slots[s].tokens \cap FirstSegment # {}} = {}
    BY DEF TokenSlots
  <2> QED
    BY <2>1, <1>4, FS_EmptySet DEF OrderRows
<1> QED
  BY <1>2, <1>3, <1>6, <1>7 DEF Order!Init, OrderBlock, OrderRow, OrderRows

(* A step that leaves the first segment's rows alone is a stutter.            *)
LEMMA RowsStay ==
  ASSUME UNCHANGED <<block, live>>, OrderRow' = OrderRow, OrderRows' = OrderRows
  PROVE  UNCHANGED Order!vars
<1>1. FirstSegment' = FirstSegment /\ SegmentFrom(1)' = SegmentFrom(1)
  BY SegmentStable
<1>2. OrderBlock' = OrderBlock
  BY <1>1 DEF OrderBlock
<1> QED
  BY <1>1, <1>2 DEF Order!vars, OrderBlock, OrderRow, OrderRows

(* A step that writes no slot.                                                *)
LEMMA SlotsStayRefines ==
  ASSUME BlockInv, UNCHANGED <<block, live, slots>>
  PROVE  UNCHANGED Order!vars
<1>1. FirstSegment' = FirstSegment
  BY SegmentStable
<1>2. \A i : RowOf(i)' = RowOf(i)
  BY DEF RowOf, Scheduled, InRow, TokenSlots
<1>3. OrderRow' = OrderRow /\ OrderRows' = OrderRows
  BY <1>1, <1>2 DEF OrderRow, OrderRows, TokenSlots
<1> QED
  BY <1>3, RowsStay

(* A slot that holds no token of the first segment.                           *)
LEMMA OtherSlotRefines ==
  ASSUME BlockInv, NEW r, "tokens" \in DOMAIN r, r.tokens \in SUBSET Position,
         \A i \in r.tokens : ~Scheduled(i), r.tokens \cap FirstSegment = {},
         slots' = Append(slots, r), UNCHANGED <<block, live>>
  PROVE  UNCHANGED Order!vars
<1>1. /\ \A i : Scheduled(i) => RowOf(i)' = RowOf(i)
      /\ \A i : ~Scheduled(i) /\ i \notin r.tokens => RowOf(i)' = 0
      /\ OrderRows' = OrderRows
  BY RowsAfterAppend
<1>2. \A i \in FirstSegment : RowOf(i)' = RowOf(i)
  BY <1>1 DEF RowOf
<1>3. OrderRow' = OrderRow
  BY <1>2, SegmentStable DEF OrderRow
<1> QED
  BY <1>1, <1>3, RowsStay

(* A token the segment's graph lets go is one the abstract order lets go.     *)
LEMMA ReadyRefines ==
  ASSUME BlockInv, segment.first = 1, NEW i, Ready(i)
  PROVE  i \in FirstSegment /\ Order!Ready(i)
<1>1. i \in FirstSegment /\ ~Scheduled(i)
  BY InvFacts DEF BlockInv, Ready, Remaining, Segment, FirstSegment
<1>2. DOMAIN OrderBlock = FirstSegment
  BY DEF OrderBlock
<1>3. OrderRow[i] = 0
  BY <1>1 DEF OrderRow, RowOf
<1>4. ASSUME NEW p \in FirstSegment, Order!Edge(OrderBlock, SegmentFrom(1).ignored, p, i)
      PROVE  OrderRow[p] # 0
  <2>1. Scheduled(p)
    BY <1>1, <1>4, FirstBlockers DEF Ready
  <2>2. RowOf(p) # 0
    BY <2>1, RowOfSlot DEF BlockInv, Scheduled, InRow
  <2> QED
    BY <2>2 DEF OrderRow
<1> QED
  BY <1>1, <1>2, <1>3, <1>4 DEF Order!Ready, Order!Emitted, Order!Position, OrderBlock, OrderRow

(* A row of ready tokens of the first segment is a row of the abstract order. *)
LEMMA FirstRowRefines ==
  ASSUME BlockInv, segment.first = 1, NEW i, NEW j, Ready(i), Ready(j),
         NEW r, "tokens" \in DOMAIN r, r.tokens = {i, j},
         slots' = Append(slots, r), UNCHANGED <<block, live>>
  PROVE  Order!Next
<1>1. /\ i \in FirstSegment /\ Order!Ready(i)
      /\ j \in FirstSegment /\ Order!Ready(j)
  BY ReadyRefines
<1>2. FirstSegment \subseteq Position /\ FirstSegment = 1 .. SegmentFrom(1).last
  BY OrderBlockType DEF BlockInv, Segmented
<1>3. r.tokens \in SUBSET Position /\ \A k \in r.tokens : ~Scheduled(k)
  BY <1>1, <1>2 DEF Ready, Remaining
<1>4. /\ \A k : Scheduled(k) => RowOf(k)' = RowOf(k)
      /\ \A k : ~Scheduled(k) /\ k \notin r.tokens => RowOf(k)' = 0
      /\ \A k \in r.tokens : RowOf(k)' = OrderRows + 1
  BY <1>3, RowsAfterAppend, FirstRows
<1>5. FirstSegment' = FirstSegment /\ SegmentFrom(1)' = SegmentFrom(1)
  BY SegmentStable
<1>6. OrderBlock' = OrderBlock
  BY <1>5 DEF OrderBlock
<1>7. OrderRow' = [k \in FirstSegment |-> IF k \in {i, j} THEN OrderRows + 1 ELSE OrderRow[k]]
  <2>1. ASSUME NEW k \in FirstSegment
        PROVE  RowOf(k)' = IF k \in {i, j} THEN OrderRows + 1 ELSE OrderRow[k]
    <3>1. OrderRow[k] = RowOf(k) /\ (~Scheduled(k) => RowOf(k) = 0)
      BY DEF OrderRow, RowOf
    <3>2. CASE k \in {i, j}
      BY <1>4, <3>2
    <3>3. CASE k \notin {i, j}
      BY <1>4, <3>1, <3>3
    <3> QED
      BY <3>2, <3>3
  <2> QED
    BY <1>5, <2>1 DEF OrderRow
<1>8. OrderRows' = OrderRows + 1
  BY <1>1, <1>3, RowsAfterAppend
<1> QED
  BY <1>1, <1>5, <1>6, <1>7, <1>8
  DEF Order!Next, Order!EmitRow, Order!Position, OrderBlock, OrderRow, OrderRows

(* A row of ready tokens of any segment.                                      *)
LEMMA RowRefines ==
  ASSUME BlockInv, NEW i, NEW j, Ready(i), Ready(j),
         NEW r, "tokens" \in DOMAIN r, r.tokens = {i, j},
         slots' = Append(slots, r), UNCHANGED <<block, live>>
  PROVE  [Order!Next]_(Order!vars)
<1>1. CASE segment.first = 1
  BY <1>1, FirstRowRefines
<1>2. CASE segment.first # 1
  <2>1. segment.first > SegmentFrom(1).last + 1
    BY <1>2 DEF BlockInv, Segmented
  <2>2. \A k \in r.tokens : k \in Position /\ ~Scheduled(k) /\ k >= segment.first
    BY InvFacts DEF BlockInv, Segmented, Ready, Remaining, Segment
  <2>3. r.tokens \cap FirstSegment = {}
    BY <2>1, <2>2, InvFacts DEF BlockInv, Segmented, FirstSegment
  <2> QED
    BY <2>2, <2>3, OtherSlotRefines
<1> QED
  BY <1>1, <1>2

(* The token behind a segment is behind the first one too.                    *)
LEMMA TailIsBehind ==
  ASSUME BlockInv, segment.last < Len(block)
  PROVE  segment.last + 1 \notin FirstSegment
<1>1. /\ segment.last \in segment.first - 1 .. Len(block)
      /\ segment.first \in 1 .. Len(block) + 1
      /\ Len(block) \in Nat
      /\ SegmentFrom(1).last \in 0 .. Len(block)
      /\ segment.first = 1 => segment.last = SegmentFrom(1).last
      /\ segment.first = 1 \/ segment.first > SegmentFrom(1).last + 1
  BY InvFacts DEF BlockInv, Segmented
<1> QED
  BY <1>1 DEF FirstSegment

(* The chosen row is a row of the order, its tail none.                       *)
LEMMA IssueRefines ==
  ASSUME BlockInv, Issue
  PROVE  [Order!Next]_(Order!vars)
<1> DEFINE tail == \E i \in chosen : ~block[i].candidate
           r == [ tokens |-> chosen, padding |-> "NONE", issue |-> cycle, cycles |-> 1, words |-> 1,
                  ignored |-> IF tail THEN {} ELSE segment.ignored ]
<1>1. slots' = Append(slots, r) /\ chosen # {} /\ UNCHANGED <<block, live>>
  BY DEF Issue, NoRow
<1>2. "tokens" \in DOMAIN r /\ r.tokens = chosen
  OBVIOUS
<1> HIDE DEF r
<1>3. CASE \E i, j : Ready(i) /\ Ready(j) /\ chosen = {i, j}
  BY <1>1, <1>2, <1>3, RowRefines
<1>4. CASE AtLastTail
  <2>1. segment.last + 1 \in Position /\ ~Scheduled(segment.last + 1)
    BY <1>4, TailIsNext DEF AtLastTail
  <2>2. segment.last + 1 \notin FirstSegment
    BY <1>4, TailIsBehind DEF AtLastTail
  <2>3. /\ r.tokens \in SUBSET Position
        /\ \A i \in r.tokens : ~Scheduled(i)
        /\ r.tokens \cap FirstSegment = {}
    BY <1>2, <1>4, <2>1, <2>2 DEF AtLastTail
  <2> QED
    BY <1>1, <1>2, <2>3, OtherSlotRefines
<1> QED
  BY <1>1, <1>3, <1>4 DEF BlockInv, ChosenRow

(* Padding is a stutter.                                                      *)
LEMMA PadRefines ==
  ASSUME BlockInv, Pad
  PROVE  UNCHANGED Order!vars
<1>1. CASE slots' = slots
  BY <1>1, SlotsStayRefines DEF Pad
<1>2. CASE \E r : r.tokens = {} /\ "tokens" \in DOMAIN r /\ slots' = Append(slots, r)
  BY <1>2, OtherSlotRefines DEF Pad
<1> QED
  BY <1>1, <1>2 DEF Pad

(* So is a tail that joins the last row.                                      *)
LEMMA PairTailRefines ==
  ASSUME BlockInv, PairTail
  PROVE  UNCHANGED Order!vars
<1> DEFINE t == segment.last + 1
<1>1. /\ segment.last < Len(block)
      /\ slots # <<>>
      /\ Cardinality(slots[Len(slots)].tokens) = 1
      /\ slots' = [slots EXCEPT ![Len(slots)].tokens = @ \cup {t}]
      /\ UNCHANGED <<block, live>>
  BY DEF PairTail, AtTail, JoinsRow
<1>2. t \in Position /\ ~Scheduled(t) /\ t \notin FirstSegment
  BY <1>1, TailIsNext, TailIsBehind
<1>3. slots[Len(slots)].tokens # {}
  <2> DEFINE T == slots[Len(slots)].tokens
  <2>1. Cardinality({}) = 0 /\ Cardinality(T) = 1
    BY <1>1, FS_EmptySet, Zenon
  <2> HIDE DEF T
  <2>2. T # {}
    BY <2>1
  <2> QED
    BY <2>2 DEF T
<1> QED
  BY <1>1, <1>2, <1>3, RowsAfterJoin, RowsStay

(* Every step of the scheduler is a row of the order or a stutter.            *)
LEMMA NextRefines == BlockInv /\ [Next]_vars => [Order!Next]_(Order!vars)
<1> SUFFICES ASSUME BlockInv, [Next]_vars PROVE [Order!Next]_(Order!vars)
  OBVIOUS
<1>1. ASSUME NEW w \in Remaining, NEW u \in Remaining, FillWait(w, u)
      PROVE  [Order!Next]_(Order!vars)
  <2> DEFINE r == [ tokens |-> {u}, padding |-> KindOf({w}), issue |-> cycle,
                    cycles |-> WaitCycles(KindOf({w})) + 1, words |-> 1, ignored |-> segment.ignored ]
  <2>1. slots' = Append(slots, r) /\ UNCHANGED <<block, live>> /\ Ready(u)
    BY <1>1 DEF FillWait, WaitRow, Filler
  <2>2. "tokens" \in DOMAIN r /\ r.tokens = {u, u}
    OBVIOUS
  <2> QED
    BY <2>1, <2>2, RowRefines
<1>2. ASSUME NEW i \in Remaining, IssueWaitingUpper(i)
      PROVE  [Order!Next]_(Order!vars)
  <2> DEFINE r == [ tokens |-> {i}, padding |-> KindOf({i}), issue |-> cycle,
                    cycles |-> WaitCycles(KindOf({i})) + 1, words |-> 1, ignored |-> segment.ignored ]
  <2>1. slots' = Append(slots, r) /\ UNCHANGED <<block, live>> /\ Ready(i)
    BY <1>2 DEF IssueWaitingUpper, WaitRow
  <2>2. "tokens" \in DOMAIN r /\ r.tokens = {i, i}
    OBVIOUS
  <2> QED
    BY <2>1, <2>2, RowRefines
<1>3. CASE UNCHANGED <<block, live, slots>>
  BY <1>3, SlotsStayRefines
<1>4. ASSUME NEW i \in Remaining, ChooseAlone(i) PROVE UNCHANGED <<block, live, slots>>
  BY <1>4 DEF ChooseAlone
<1>5. ASSUME NEW i \in Remaining, NEW j \in Remaining, ChoosePair(i, j)
      PROVE  UNCHANGED <<block, live, slots>>
  BY <1>5 DEF ChoosePair
<1>6. CASE StartTail \/ UNCHANGED vars
  BY <1>3, <1>6 DEF StartTail, vars
<1> QED
  BY <1>1, <1>2, <1>3, <1>4, <1>5, <1>6, PadRefines, IssueRefines, PairTailRefines
  DEF Next, Step, Done

(* The rounds, the waits and the padding of the first segment of any block    *)
(* are an order the abstract scheduler may produce, whatever the delays.      *)
THEOREM ImplementsOrder == Spec => ImplementsReadyOrder
<1>1. BlockInv /\ [Next]_vars => [Order!Next]_(Order!vars)
  BY NextRefines
<1> QED
  BY <1>1, InitRefines, BlockInvCorrect, PTL DEF Spec, ImplementsReadyOrder, Order!Spec

-----------------------------------------------------------------------------
(* The graph of the proofs' order is the one of this module too.              *)
LEMMA SameEdgeFacts ==
  ASSUME NEW b, NEW g, NEW i, NEW j
  PROVE  OrderFacts!Edge(b, g, i, j) <=> Edge(b, g, i, j)
BY Zenon
   DEF Edge, RegisterConflict, RegisterRaw, RegisterWar, RegisterWaw, PairwiseConflict,
       Resource, PairwiseResource, PreciseResource, AccumulatingResource,
       MemoryConflict, MayExchange, MemoryDistinct, IsPlainAccess, RegisterFlagEdge,
       WindowFlagEdge, AccumulatingFlagEdge, IsFinalWriter, LastWriterBefore, ReadAfter,
       ContributorAt, LastContributorAt, LastClearBefore, Reads, Writes, Clears,
       Contributes,
       OrderFacts!Edge, OrderFacts!RegisterConflict, OrderFacts!RegisterRaw,
       OrderFacts!RegisterWar, OrderFacts!RegisterWaw, OrderFacts!PairwiseConflict,
       OrderFacts!Resource, OrderFacts!PairwiseResource, OrderFacts!PreciseResource,
       OrderFacts!AccumulatingResource, OrderFacts!MemoryConflict,
       OrderFacts!MayExchange, OrderFacts!MemoryDistinct, OrderFacts!IsPlainAccess,
       OrderFacts!RegisterFlagEdge, OrderFacts!WindowFlagEdge,
       OrderFacts!AccumulatingFlagEdge, OrderFacts!IsFinalWriter,
       OrderFacts!LastWriterBefore, OrderFacts!ReadAfter, OrderFacts!ContributorAt,
       OrderFacts!LastContributorAt, OrderFacts!LastClearBefore, OrderFacts!Reads,
       OrderFacts!Writes, OrderFacts!Clears, OrderFacts!Contributes

(* Order and OrderFacts are the same specification.                           *)
LEMMA SameOrder == Order!Spec => OrderFacts!Spec
<1>1. Order!Init => OrderFacts!Init
  BY DEF Order!Init, OrderFacts!Init
<1>2. [Order!Next]_(Order!vars) => [OrderFacts!Next]_(OrderFacts!vars)
  <2>1. Order!vars = OrderFacts!vars /\ (UNCHANGED Order!vars <=> UNCHANGED OrderFacts!vars)
    BY DEF Order!vars, OrderFacts!vars
  <2>2. Order!Position = OrderFacts!Position
    BY DEF Order!Position, OrderFacts!Position
  <2>3. \A i : Order!Emitted(i) <=> OrderFacts!Emitted(i)
    BY DEF Order!Emitted, OrderFacts!Emitted
  <2>4. \A i : Order!Ready(i) <=> OrderFacts!Ready(i)
    BY <2>2, <2>3, SameEdge, SameEdgeFacts, Zenon DEF Order!Ready, OrderFacts!Ready
  <2>5. \A i, j : Order!EmitRow(i, j) => OrderFacts!EmitRow(i, j)
    BY <2>2, <2>4, Zenon DEF Order!EmitRow, OrderFacts!EmitRow
  <2> QED
    BY <2>1, <2>2, <2>3, <2>5, Zenon DEF Order!Next, OrderFacts!Next, Order!Done, OrderFacts!Done
<1> QED
  BY <1>1, <1>2, PTL DEF Order!Spec, OrderFacts!Spec

(* In the rows of the first segment of any block no dependency is broken, and *)
(* every register, every implicit resource and every ordered pair of memory   *)
(* accesses is as in the source order, with its live out when it is done.     *)
FirstSegmentPreserved ==
  /\ OrderFacts!GraphRespected
  /\ OrderFacts!RegisterReadsPreserved
  /\ OrderFacts!ImplicitReadsPreserved
  /\ OrderFacts!MemoryOrderPreserved
  /\ OrderFacts!LiveOutPreserved

(* The theorems about the abstract order, carried over to the scheduler of    *)
(* the code by the refinement.                                                *)
THEOREM FirstSegmentCorrect == Spec => []FirstSegmentPreserved
<1>1. OrderFacts!Spec => []OrderFacts!GraphRespected
  BY OrderAssumptions, NoRegisterAssumption, OrderFacts!GraphRespectedCorrect
<1>2. OrderFacts!Spec => []OrderFacts!RegisterReadsPreserved
  BY OrderAssumptions, NoRegisterAssumption, OrderFacts!RegisterReadsCorrect
<1>3. OrderFacts!Spec => []OrderFacts!ImplicitReadsPreserved
  BY OrderAssumptions, NoRegisterAssumption, OrderFacts!ImplicitReadsCorrect
<1>4. OrderFacts!Spec => []OrderFacts!MemoryOrderPreserved
  BY OrderAssumptions, NoRegisterAssumption, OrderFacts!MemoryOrderCorrect
<1>5. OrderFacts!Spec => []OrderFacts!LiveOutPreserved
  BY OrderAssumptions, NoRegisterAssumption, OrderFacts!LiveOutCorrect
<1>6. /\ OrderFacts!GraphRespected /\ OrderFacts!RegisterReadsPreserved
      /\ OrderFacts!ImplicitReadsPreserved /\ OrderFacts!MemoryOrderPreserved
      /\ OrderFacts!LiveOutPreserved
      => FirstSegmentPreserved
  BY DEF FirstSegmentPreserved
<1> QED
  BY <1>1, <1>2, <1>3, <1>4, <1>5, <1>6, SameOrder, ImplementsOrder, PTL DEF ImplementsReadyOrder

-----------------------------------------------------------------------------
(* The whole block *)

AnyIgnored == SUBSET {"MAC", "CLIP", "STATUS"}

(* What is proved of an order, read in the rows of the whole block.           *)
WholeFacts == INSTANCE VuReadyOrderProofs WITH
  Blocks      <- BlockType,
  IgnoredSets <- AnyIgnored,
  block       <- AccessOf(block),
  ignored     <- {"MAC", "CLIP", "STATUS"} \ live,
  row         <- [i \in Position |-> RowOf(i)],
  rows        <- Cardinality(TokenSlots(Len(slots)))

WholeBlock   == AccessOf(block)
WholeIgnored == {"MAC", "CLIP", "STATUS"} \ live
WholeRows    == Cardinality(TokenSlots(Len(slots)))

WholeEdge(i, j) == Edge(WholeBlock, WholeIgnored, i, j)

(* The block is one of those the scheduler may be given.                      *)
Given ==
  /\ block \in Seq(Instruction)
  /\ \A i \in Position :
       /\ block[i].access.implicitReads \cap block[i].access.implicitWrites \cap {"MAC", "CLIP"} = {}
       /\ block[i].access.memoryKind # "NONE" => block[i].lower /\ block[i].form # "MOVE"

(* No row holds, or comes before, what one of its tokens waits for in the     *)
(* graph of the whole block.                                                  *)
RowsRespectGraph ==
  \A i, j \in Position : WholeEdge(i, j) /\ Scheduled(j) => Scheduled(i) /\ RowOf(i) < RowOf(j)

WholeInv == Given /\ BlockInv /\ RowsRespectGraph

-----------------------------------------------------------------------------
(* The graph of the block *)

(* The tokens of the block, but for the mask of a status reader.              *)
LEMMA WholeTokens ==
  ASSUME block \in Seq(Instruction)
  PROVE  /\ DOMAIN WholeBlock = Position
         /\ Len(WholeBlock) = Len(block)
         /\ WholeBlock \in BlockType
         /\ \A i \in Position :
              /\ WholeBlock[i].registerReads  = block[i].access.registerReads
              /\ WholeBlock[i].registerWrites = block[i].access.registerWrites
              /\ WholeBlock[i].implicitReads  = block[i].access.implicitReads
              /\ WholeBlock[i].implicitWrites = block[i].access.implicitWrites
              /\ WholeBlock[i].memoryKind     = block[i].access.memoryKind
              /\ WholeBlock[i].memoryBase     = block[i].access.memoryBase
              /\ WholeBlock[i].hasMemoryOffset = block[i].access.hasMemoryOffset
              /\ WholeBlock[i].memoryOffset   = block[i].access.memoryOffset
              /\ WholeBlock[i].needsLast => block[i].access.needsLast
<1> DEFINE access == [i \in DOMAIN block |-> block[i].access]
           Answered(r) ==
             \A i, j \in DOMAIN block :
               /\ i < j /\ InOneSegment(block, i, j)
               /\ ContributorAt(access, i, r, "STATUS")
               /\ ContributorAt(access, j, r, "STATUS")
               => InOneSegment(block, i, r)
           masked(r) == [access[r] EXCEPT !.needsLast = @ /\ Answered(r)]
<1>1. /\ Len(block) \in Nat
      /\ Position = 1 .. Len(block)
      /\ DOMAIN block = Position
  BY DEF Position
<1>2. ASSUME NEW i \in Position
      PROVE  /\ block[i].access \in TokenType
             /\ access[i] = block[i].access
  <2>1. block[i] \in Instruction
    BY <1>1
  <2> QED
    BY <1>1, <2>1 DEF Instruction
<1> HIDE DEF access, Answered
<1>3. ASSUME NEW i \in Position
      PROVE  /\ masked(i) \in TokenType
             /\ masked(i).registerReads   = block[i].access.registerReads
             /\ masked(i).registerWrites  = block[i].access.registerWrites
             /\ masked(i).implicitReads   = block[i].access.implicitReads
             /\ masked(i).implicitWrites  = block[i].access.implicitWrites
             /\ masked(i).memoryKind      = block[i].access.memoryKind
             /\ masked(i).memoryBase      = block[i].access.memoryBase
             /\ masked(i).hasMemoryOffset = block[i].access.hasMemoryOffset
             /\ masked(i).memoryOffset    = block[i].access.memoryOffset
             /\ masked(i).needsLast => block[i].access.needsLast
  <2> DEFINE t == access[i]
             n == t.needsLast /\ Answered(i)
  <2>1. t \in TokenType /\ t = block[i].access
    BY <1>2
  <2>2. n \in BOOLEAN
    OBVIOUS
  <2>8. n => t.needsLast
    OBVIOUS
  <2> HIDE DEF t, n
  <2>3. /\ t \in TokenRecord
        /\ t.memoryBase # NoRegister => t.memoryBase \in t.registerReads
    BY <2>1 DEF TokenType
  <2>4. [t EXCEPT !.needsLast = n] \in TokenRecord
    BY <2>2, <2>3 DEF TokenRecord
  <2>5. /\ [t EXCEPT !.needsLast = n].registerReads = t.registerReads
        /\ [t EXCEPT !.needsLast = n].registerWrites = t.registerWrites
        /\ [t EXCEPT !.needsLast = n].implicitReads = t.implicitReads
        /\ [t EXCEPT !.needsLast = n].implicitWrites = t.implicitWrites
        /\ [t EXCEPT !.needsLast = n].memoryKind = t.memoryKind
        /\ [t EXCEPT !.needsLast = n].memoryBase = t.memoryBase
        /\ [t EXCEPT !.needsLast = n].hasMemoryOffset = t.hasMemoryOffset
        /\ [t EXCEPT !.needsLast = n].memoryOffset = t.memoryOffset
        /\ [t EXCEPT !.needsLast = n].needsLast = n
    BY <2>3 DEF TokenRecord
  <2>6. [t EXCEPT !.needsLast = n] \in TokenType
    BY <2>3, <2>4, <2>5 DEF TokenType
  <2>7. masked(i) = [t EXCEPT !.needsLast = n]
    BY DEF t, n
  <2> HIDE DEF masked
  <2> QED
    BY <2>1, <2>5, <2>6, <2>7, <2>8
<1>4. WholeBlock = [r \in DOMAIN block |-> masked(r)]
  BY DEF WholeBlock, AccessOf, access, Answered
<1> HIDE DEF masked
<1>5. /\ DOMAIN WholeBlock = Position
      /\ \A i \in Position : WholeBlock[i] = masked(i)
  BY <1>1, <1>4
<1>6. WholeBlock \in Seq(TokenType) /\ Len(WholeBlock) = Len(block)
  <2>1. WholeBlock \in [1 .. Len(block) -> TokenType]
    BY <1>1, <1>3, <1>4
  <2> QED
    BY <1>1, <2>1
<1> QED
  BY <1>3, <1>5, <1>6 DEF BlockType

(* Which reader asks for the last contributor to stay last: one that shares a *)
(* segment with any two of its contributors that share one.                   *)
LEMMA AskedFor ==
  ASSUME block \in Seq(Instruction), NEW r \in Position, WholeBlock[r].needsLast,
         NEW i \in Position, NEW j \in Position, i < j, InOneSegment(block, i, j),
         ContributorAt(WholeBlock, i, r, "STATUS"), ContributorAt(WholeBlock, j, r, "STATUS")
  PROVE  InOneSegment(block, i, r)
<1> DEFINE access == [k \in DOMAIN block |-> block[k].access]
           Answered(q) ==
             \A k, l \in DOMAIN block :
               /\ k < l /\ InOneSegment(block, k, l)
               /\ ContributorAt(access, k, q, "STATUS")
               /\ ContributorAt(access, l, q, "STATUS")
               => InOneSegment(block, k, q)
<1>1. DOMAIN block = Position /\ DOMAIN WholeBlock = Position /\ DOMAIN access = Position
  BY WholeTokens DEF Position
<1>2. \A k \in Position :
        /\ WholeBlock[k].implicitReads = access[k].implicitReads
        /\ WholeBlock[k].implicitWrites = access[k].implicitWrites
  BY WholeTokens DEF Position
<1> HIDE DEF access
<1>3. \A k \in Position : ContributorAt(WholeBlock, k, r, "STATUS") => ContributorAt(access, k, r, "STATUS")
  BY <1>1, <1>2 DEF ContributorAt, Contributes, Clears, Reads, Writes
<1>4. access[r] \in TokenRecord
  <2>1. block[r] \in Instruction
    BY DEF Position
  <2> QED
    BY <1>1, <2>1 DEF access, Instruction, TokenType
<1> HIDE DEF Answered
<1>5. WholeBlock[r] = [access[r] EXCEPT !.needsLast = @ /\ Answered(r)]
  BY <1>1 DEF WholeBlock, AccessOf, access, Answered
<1>6. Answered(r)
  BY <1>4, <1>5 DEF TokenRecord
<1> QED
  BY <1>1, <1>3, <1>6 DEF Answered
-----------------------------------------------------------------------------
(* The graph of the segment, inside the graph of the block *)

SegmentTokens == [k \in 1 .. segment.last - segment.first + 1 |-> block[segment.first + k - 1].access]

(* The place a token of the block has in its segment.                         *)
Place(i) == i - segment.first + 1

(* The place of a token in its segment, and back.                             *)
LEMMA PlaceFacts ==
  ASSUME BlockInv
  PROVE  /\ Segment \subseteq Position
         /\ segment.first \in Nat \ {0} /\ segment.last \in Nat /\ segment.last <= Len(block)
         /\ Len(SegmentTokens) \in Nat
         /\ DOMAIN SegmentTokens = 1 .. Len(SegmentTokens)
         /\ \A i \in Segment : Place(i) \in DOMAIN SegmentTokens /\ SegmentTokens[Place(i)] = block[i].access
         /\ \A n \in DOMAIN SegmentTokens : \E i \in Segment : n = Place(i)
         /\ Place(segment.last) = Len(SegmentTokens)
         /\ segment.ignored = IgnoredFlags(segment.last)
         /\ \A i, j \in Segment :
              Edge(SegmentTokens, segment.ignored, Place(i), Place(j)) => i \in Blockers(j)
<1>1. /\ Len(block) \in Nat
      /\ Position = 1 .. Len(block)
      /\ segment.first \in 1 .. Len(block) + 1
      /\ segment.last \in segment.first - 1 .. Len(block)
      /\ segment = SegmentFrom(segment.first)
  BY InvFacts DEF BlockInv, Segmented
<1> DEFINE n == segment.last - segment.first + 1
<1>2. n \in Nat
  BY <1>1
<1>3. DOMAIN SegmentTokens = 1 .. n /\ Len(SegmentTokens) = n
  BY <1>2 DEF SegmentTokens
<1>4. ASSUME NEW i \in Segment
      PROVE  Place(i) \in 1 .. n /\ SegmentTokens[Place(i)] = block[i].access
  <2>1. Place(i) \in 1 .. n /\ segment.first + Place(i) - 1 = i
    BY <1>1 DEF Place, Segment
  <2> QED
    BY <2>1 DEF SegmentTokens
<1>5. ASSUME NEW k \in 1 .. n PROVE \E i \in Segment : k = Place(i)
  <2>1. segment.first + k - 1 \in Segment /\ Place(segment.first + k - 1) = k
    BY <1>1 DEF Place, Segment
  <2> QED
    BY <2>1
<1>6. /\ segment.ignored = IgnoredFlags(segment.last)
      /\ segment.edges = {e \in (segment.first .. segment.last) \X (segment.first .. segment.last) :
                            Edge(SegmentTokens, segment.ignored, e[1] - segment.first + 1, e[2] - segment.first + 1)}
  <2> DEFINE f == segment.first
             s == SegmentFrom(f)
  <2>1. s.ignored = IgnoredFlags(s.last)
    BY DEF SegmentFrom
  <2>2. s.edges = {e \in (f .. s.last) \X (f .. s.last) :
                     Edge([k \in 1 .. s.last - f + 1 |-> block[f + k - 1].access], s.ignored,
                          e[1] - f + 1, e[2] - f + 1)}
    BY DEF SegmentFrom
  <2>3. s = segment
    BY <1>1
  <2> QED
    BY <2>1, <2>2, <2>3 DEF SegmentTokens
<1>7. ASSUME NEW i \in Segment, NEW j \in Segment,
             Edge(SegmentTokens, segment.ignored, Place(i), Place(j))
      PROVE  i \in Blockers(j)
  <2>1. <<i, j>> \in segment.edges
    BY <1>6, <1>7 DEF Segment, Place
  <2> QED
    BY <2>1 DEF Blockers
<1>8. Place(segment.last) = n
  BY <1>1 DEF Place
<1> QED
  BY <1>1, <1>2, <1>3, <1>4, <1>5, <1>6, <1>7, <1>8 DEF Segment

(* Inside the segment the scan of a resource finds the same tokens.           *)
LEMMA SameScan ==
  ASSUME Given, BlockInv
  PROVE  /\ \A i, j \in Segment : i < j <=> Place(i) < Place(j)
         /\ \A i \in Segment : \A res :
              /\ Reads(SegmentTokens, Place(i), res) <=> Reads(WholeBlock, i, res)
              /\ Writes(SegmentTokens, Place(i), res) <=> Writes(WholeBlock, i, res)
         /\ \A i, j \in Segment : \A res :
              LastWriterBefore(WholeBlock, i, j, res) => LastWriterBefore(SegmentTokens, Place(i), Place(j), res)
         /\ \A i, j \in Segment : \A res :
              ContributorAt(WholeBlock, i, j, res) => ContributorAt(SegmentTokens, Place(i), Place(j), res)
         /\ \A i, j \in Segment : \A res :
              LastContributorAt(WholeBlock, i, j, res) => LastContributorAt(SegmentTokens, Place(i), Place(j), res)
         /\ \A i, j \in Segment : \A res :
              LastClearBefore(WholeBlock, i, j, res) => LastClearBefore(SegmentTokens, Place(i), Place(j), res)
         /\ \A i \in Segment : \A res : \A r \in Position \cup {Len(block) + 1} :
              r > segment.last /\ LastWriterBefore(WholeBlock, i, r, res)
                => LastWriterBefore(SegmentTokens, Place(i), Len(SegmentTokens) + 1, res)
<1>1. /\ Segment \subseteq Position
      /\ DOMAIN WholeBlock = Position
      /\ Position = 1 .. Len(block)
      /\ Len(block) \in Nat
      /\ segment.first \in Nat /\ segment.last \in Nat /\ segment.last <= Len(block)
  BY WholeTokens, PlaceFacts DEF Given, Position
<1>2. \A i, j \in Segment : (i < j <=> Place(i) < Place(j)) /\ Place(i) \in Int /\ i \in Int
  BY <1>1 DEF Segment, Place
<1>3. \A i \in Segment : \A res :
        /\ Reads(SegmentTokens, Place(i), res) <=> Reads(WholeBlock, i, res)
        /\ Writes(SegmentTokens, Place(i), res) <=> Writes(WholeBlock, i, res)
  BY <1>1, WholeTokens, PlaceFacts DEF Given, Reads, Writes
<1>4. \A i, j \in Segment : \A k \in DOMAIN SegmentTokens :
        Place(i) < k /\ k < Place(j) => \E l \in Segment : k = Place(l) /\ i < l /\ l < j
  BY <1>2, PlaceFacts
<1>5. ASSUME NEW i \in Segment, NEW j \in Segment, NEW res
      PROVE  LastWriterBefore(WholeBlock, i, j, res) => LastWriterBefore(SegmentTokens, Place(i), Place(j), res)
  BY <1>1, <1>2, <1>3, <1>4 DEF LastWriterBefore
<1>6. ASSUME NEW i \in Segment, NEW j \in Segment, NEW res
      PROVE  ContributorAt(WholeBlock, i, j, res) => ContributorAt(SegmentTokens, Place(i), Place(j), res)
  BY <1>1, <1>2, <1>3, <1>4 DEF ContributorAt, Contributes, Clears
<1>7. ASSUME NEW i \in Segment, NEW j \in Segment, NEW res
      PROVE  LastContributorAt(WholeBlock, i, j, res) => LastContributorAt(SegmentTokens, Place(i), Place(j), res)
  BY <1>1, <1>2, <1>3, <1>4, <1>6 DEF LastContributorAt, Contributes
<1>8. ASSUME NEW i \in Segment, NEW j \in Segment, NEW res
      PROVE  LastClearBefore(WholeBlock, i, j, res) => LastClearBefore(SegmentTokens, Place(i), Place(j), res)
  BY <1>1, <1>2, <1>3, <1>4 DEF LastClearBefore, Clears
<1>9. ASSUME NEW i \in Segment, NEW res, NEW r \in Position \cup {Len(block) + 1},
             r > segment.last, LastWriterBefore(WholeBlock, i, r, res)
      PROVE  LastWriterBefore(SegmentTokens, Place(i), Len(SegmentTokens) + 1, res)
  <2>1. \A k \in DOMAIN SegmentTokens : Place(i) < k => \E l \in Segment : k = Place(l) /\ i < l /\ l < r
    <3>1. \A l \in Segment : l < r
      BY <1>1, <1>9 DEF Segment
    <3> QED
      BY <1>2, <3>1, PlaceFacts
  <2>2. Place(i) < Len(SegmentTokens) + 1
    BY PlaceFacts
  <2> QED
    BY <1>1, <1>3, <1>9, <2>1, <2>2 DEF LastWriterBefore
<1> QED
  BY <1>2, <1>3, <1>5, <1>6, <1>7, <1>8, <1>9

(* A flag somebody reads behind the segment, or that leaves the block, is not *)
(* in its mask.                                                               *)
LEMMA NotIgnored ==
  ASSUME Given, BlockInv, NEW res \in {"MAC", "CLIP"},
         \/ res \notin WholeIgnored
         \/ \E r \in Position : r > segment.last /\ Reads(WholeBlock, r, res)
  PROVE  res \notin segment.ignored
<1>1. segment.ignored = IgnoredFlags(segment.last) /\ segment.last \in Nat
  BY PlaceFacts
<1>2. CASE res \notin WholeIgnored
  BY <1>1, <1>2 DEF WholeIgnored, IgnoredFlags
<1>3. CASE \E r \in Position : r > segment.last /\ Reads(WholeBlock, r, res)
  <2>1. PICK r \in Position : r > segment.last /\ Reads(WholeBlock, r, res)
    BY <1>3
  <2>2. ReadsFlag(r, res)
    BY <2>1, WholeTokens DEF Given, ReadsFlag, TokenReads, TokenWrites, Reads
  <2>3. ~(r < segment.last)
    BY <1>1, <2>1 DEF Position, Given
  <2> QED
    BY <1>1, <2>2, <2>3 DEF IgnoredFlags
<1> QED
  BY <1>2, <1>3

(* Whether two accesses may be exchanged depends on what they access alone.   *)
LEMMA SameMemoryConflict ==
  ASSUME NEW a, NEW b, NEW c, NEW d, MemoryConflict(a, b),
         a.registerReads = c.registerReads, a.registerWrites = c.registerWrites,
         a.implicitReads = c.implicitReads, a.implicitWrites = c.implicitWrites,
         a.memoryKind = c.memoryKind, a.memoryBase = c.memoryBase,
         a.hasMemoryOffset = c.hasMemoryOffset, a.memoryOffset = c.memoryOffset,
         b.registerReads = d.registerReads, b.registerWrites = d.registerWrites,
         b.implicitReads = d.implicitReads, b.implicitWrites = d.implicitWrites,
         b.memoryKind = d.memoryKind, b.memoryBase = d.memoryBase,
         b.hasMemoryOffset = d.hasMemoryOffset, b.memoryOffset = d.memoryOffset
  PROVE  MemoryConflict(c, d)
BY DEF MemoryConflict, MayExchange, MemoryDistinct, IsPlainAccess, RegisterRaw, RegisterWaw

(* Between two tokens of the segment, its graph has every edge of the block's. *)
LEMMA SegmentEdge ==
  ASSUME Given, BlockInv, NEW i \in Segment, NEW j \in Segment, WholeEdge(i, j)
  PROVE  i \in Blockers(j)
<1> DEFINE a == Place(i)
           b == Place(j)
           T == SegmentTokens
           g == segment.ignored
<1>1. /\ i < j /\ a < b
      /\ a \in DOMAIN T /\ b \in DOMAIN T
      /\ i \in Position /\ j \in Position
      /\ Position = 1 .. Len(block) /\ Len(block) \in Nat
      /\ segment.first \in Nat /\ segment.last \in Nat
      /\ DOMAIN WholeBlock = Position
  BY SameScan, PlaceFacts, WholeTokens DEF WholeEdge, Edge, Given, Position
<1>2. /\ T[a] = block[i].access /\ T[b] = block[j].access
      /\ block[i].access \in TokenType /\ block[j].access \in TokenType
  <2>1. block[i] \in Instruction /\ block[j] \in Instruction
    BY <1>1 DEF Given
  <2> QED
    BY <2>1, PlaceFacts DEF Instruction
<1>3. g \subseteq {"MAC", "CLIP", "STATUS"} /\ WholeIgnored \subseteq {"MAC", "CLIP", "STATUS"}
  BY PlaceFacts DEF IgnoredFlags, WholeIgnored
<1>4. \A k \in Segment : \A res :
        /\ Reads(T, Place(k), res) <=> Reads(WholeBlock, k, res)
        /\ Writes(T, Place(k), res) <=> Writes(WholeBlock, k, res)
  BY SameScan
<1> SUFFICES Edge(T, g, a, b)
  BY PlaceFacts
<1> HIDE DEF T, g
<1>5. CASE RegisterConflict(WholeBlock[i], WholeBlock[j])
  <2>1. RegisterConflict(T[a], T[b])
    BY <1>1, <1>2, <1>5, WholeTokens DEF Given, RegisterConflict, RegisterRaw, RegisterWar, RegisterWaw
  <2> QED
    BY <1>1, <2>1 DEF Edge
<1>6. CASE PairwiseConflict(WholeBlock[i], WholeBlock[j], WholeIgnored)
  <2>1. \A S : (S \cap PairwiseResource) \ g = S \cap PairwiseResource
    BY <1>3 DEF PairwiseResource, PreciseResource
  <2>2. \A S : (S \cap PairwiseResource) \ WholeIgnored = S \cap PairwiseResource
    BY <1>3 DEF PairwiseResource, PreciseResource
  <2>3. PairwiseConflict(T[a], T[b], g)
    BY <1>1, <1>2, <1>6, <2>1, <2>2, WholeTokens DEF Given, PairwiseConflict
  <2> QED
    BY <1>1, <2>3 DEF Edge
<1>7. CASE MemoryConflict(WholeBlock[i], WholeBlock[j])
  <2>1. MemoryConflict(T[a], T[b])
    BY <1>1, <1>2, <1>7, WholeTokens, SameMemoryConflict DEF Given
  <2> QED
    BY <1>1, <2>1 DEF Edge
<1>8. ASSUME NEW res \in {"ACC", "MAC"}, RegisterFlagEdge(WholeBlock, i, j, res, WholeIgnored)
      PROVE  RegisterFlagEdge(T, a, b, res, g)
  <2>1. CASE Reads(WholeBlock, j, res) /\ LastWriterBefore(WholeBlock, i, j, res)
    BY <1>4, <2>1, SameScan DEF RegisterFlagEdge, T
  <2>2. CASE /\ Writes(WholeBlock, i, res) /\ Writes(WholeBlock, j, res)
             /\ IsFinalWriter(WholeBlock, j, res, WholeIgnored)
    <3>1. CASE \E r \in Segment : Reads(WholeBlock, r, res) /\ LastWriterBefore(WholeBlock, j, r, res)
      <4>1. PICK r \in Segment : Reads(WholeBlock, r, res) /\ LastWriterBefore(WholeBlock, j, r, res)
        BY <3>1
      <4>2. Reads(T, Place(r), res) /\ LastWriterBefore(T, b, Place(r), res) /\ Place(r) \in DOMAIN T
        BY <1>4, <4>1, SameScan, PlaceFacts DEF T
      <4> QED
        BY <1>4, <2>2, <4>2 DEF RegisterFlagEdge, IsFinalWriter
    <3>2. CASE \E r \in Position : /\ r > segment.last
                                   /\ Reads(WholeBlock, r, res) /\ LastWriterBefore(WholeBlock, j, r, res)
      <4>1. PICK r \in Position : /\ r > segment.last
                                  /\ Reads(WholeBlock, r, res) /\ LastWriterBefore(WholeBlock, j, r, res)
        BY <3>2
      <4>2. LastWriterBefore(T, b, Len(T) + 1, res)
        BY <4>1, SameScan DEF T
      <4>3. res \notin g
        BY <1>3, <4>1, NotIgnored DEF g
      <4> QED
        BY <1>4, <2>2, <4>2, <4>3 DEF RegisterFlagEdge, IsFinalWriter
    <3>3. CASE res \notin WholeIgnored /\ LastWriterBefore(WholeBlock, j, Len(WholeBlock) + 1, res)
      <4>1. Len(block) + 1 > segment.last /\ Len(WholeBlock) = Len(block)
        BY <1>1, PlaceFacts, WholeTokens DEF Given
      <4>2. LastWriterBefore(T, b, Len(T) + 1, res)
        BY <3>3, <4>1, SameScan DEF T
      <4>3. res \notin g
        BY <1>3, <3>3, NotIgnored DEF g
      <4> QED
        BY <1>4, <2>2, <4>2, <4>3 DEF RegisterFlagEdge, IsFinalWriter
    <3>4. ASSUME NEW r \in Position, LastWriterBefore(WholeBlock, j, r, res)
          PROVE  r \in Segment \/ r > segment.last
      BY <1>1, <3>4 DEF LastWriterBefore, Segment
    <3> QED
      BY <1>1, <2>2, <3>1, <3>2, <3>3, <3>4 DEF IsFinalWriter
  <2> QED
    BY <1>8, <2>1, <2>2 DEF RegisterFlagEdge
<1>9. ASSUME WindowFlagEdge(WholeBlock, i, j, "CLIP", WholeIgnored)
      PROVE  WindowFlagEdge(T, a, b, "CLIP", g)
  <2>1. LastWriterBefore(T, a, b, "CLIP")
    BY <1>9, SameScan DEF WindowFlagEdge, T
  <2>2. CASE Reads(WholeBlock, j, "CLIP")
    BY <1>4, <2>1, <2>2 DEF WindowFlagEdge
  <2>3. CASE \E r \in Segment : j < r /\ Reads(WholeBlock, r, "CLIP")
    <3>1. PICK r \in Segment : j < r /\ Reads(WholeBlock, r, "CLIP")
      BY <2>3
    <3>2. Place(r) \in DOMAIN T /\ b < Place(r) /\ Reads(T, Place(r), "CLIP")
      BY <1>4, <3>1, SameScan, PlaceFacts DEF T
    <3>3. ReadAfter(T, b, "CLIP")
      BY <3>2 DEF ReadAfter
    <3>4. Writes(WholeBlock, j, "CLIP") => Writes(T, b, "CLIP")
      BY <1>4
    <3> QED
      BY <1>9, <2>1, <2>2, <3>3, <3>4 DEF WindowFlagEdge
  <2>4. CASE \/ \E r \in Position : r > segment.last /\ Reads(WholeBlock, r, "CLIP")
             \/ "CLIP" \notin WholeIgnored
    <3>1. "CLIP" \notin g
      BY <2>4, NotIgnored DEF g
    <3>2. Writes(WholeBlock, j, "CLIP") => Writes(T, b, "CLIP")
      BY <1>4
    <3> QED
      BY <1>9, <2>1, <2>2, <3>1, <3>2 DEF WindowFlagEdge
  <2>5. ReadAfter(WholeBlock, j, "CLIP")
          => \E r \in Position : j < r /\ Reads(WholeBlock, r, "CLIP") /\ (r \in Segment \/ r > segment.last)
    BY <1>1 DEF ReadAfter, Segment
  <2> QED
    BY <1>9, <2>2, <2>3, <2>4, <2>5 DEF WindowFlagEdge
<1>10. ASSUME AccumulatingFlagEdge(WholeBlock, i, j, "STATUS")
       PROVE  AccumulatingFlagEdge(T, a, b, "STATUS")
  <2>1. CASE Reads(WholeBlock, j, "STATUS") /\ ContributorAt(WholeBlock, i, j, "STATUS")
    BY <1>4, <2>1, SameScan DEF AccumulatingFlagEdge, T
  <2>2. CASE Contributes(WholeBlock, j, "STATUS") /\ LastClearBefore(WholeBlock, i, j, "STATUS")
    BY <1>4, <2>2, SameScan DEF AccumulatingFlagEdge, Contributes, T
  <2>3. ASSUME NEW r \in Position, Reads(WholeBlock, r, "STATUS"), ~Clears(WholeBlock, r, "STATUS"),
               WholeBlock[r].needsLast, ContributorAt(WholeBlock, i, r, "STATUS"),
               LastContributorAt(WholeBlock, j, r, "STATUS")
        PROVE  AccumulatingFlagEdge(T, a, b, "STATUS")
    <3>1. i < r /\ j < r /\ ContributorAt(WholeBlock, j, r, "STATUS")
      BY <2>3 DEF LastContributorAt, ContributorAt
    <3>2. InOneSegment(block, i, j)
      BY <1>1, InvFacts DEF BlockInv, InOneSegment, Segment
    <3>3. InOneSegment(block, i, r)
      BY <1>1, <2>3, <3>1, <3>2, AskedFor DEF Given
    <3>4. r \in Segment
      <4>1. ASSUME r > segment.last PROVE FALSE
        <5>1. segment.last + 1 \in i .. r /\ segment.last < Len(block)
          BY <1>1, <4>1 DEF Segment
        <5>2. ~block[segment.last + 1].candidate
          BY <5>1, InvFacts DEF BlockInv
        <5> QED
          BY <3>3, <5>1, <5>2 DEF InOneSegment
      <4> QED
        BY <1>1, <3>1, <4>1 DEF Segment
    <3>5. T[Place(r)].needsLast
      <4>1. T[Place(r)] = block[r].access
        BY <3>4, PlaceFacts DEF T
      <4>2. block[r].access.needsLast
        BY <2>3, WholeTokens DEF Given
      <4> QED
        BY <4>1, <4>2
    <3>6. Reads(T, Place(r), "STATUS") /\ ~Clears(T, Place(r), "STATUS") /\ Place(r) \in DOMAIN T
      BY <1>4, <2>3, <3>4, PlaceFacts DEF Clears, T
    <3>7. ContributorAt(T, a, Place(r), "STATUS") /\ LastContributorAt(T, b, Place(r), "STATUS")
      BY <2>3, <3>4, SameScan DEF T
    <3> QED
      BY <3>5, <3>6, <3>7 DEF AccumulatingFlagEdge
  <2> QED
    BY <1>1, <1>10, <2>1, <2>2, <2>3 DEF AccumulatingFlagEdge
<1> QED
  BY <1>1, <1>5, <1>6, <1>7, <1>8, <1>9, <1>10 DEF WholeEdge, Edge

(* A tail waits for nothing in the row it is slipped into.                    *)
LEMMA NoEdgeInRow ==
  ASSUME Given, NEW p \in Position, NEW t \in Position, NEW m, TailFits(block[p], block[t], m)
  PROVE  ~WholeEdge(p, t)
<1> DEFINE a == WholeBlock[p]
           b == WholeBlock[t]
<1>1. /\ a.registerReads = block[p].access.registerReads
      /\ a.registerWrites = block[p].access.registerWrites
      /\ a.implicitReads = block[p].access.implicitReads
      /\ a.implicitWrites = block[p].access.implicitWrites
      /\ a.memoryKind = block[p].access.memoryKind
      /\ b.registerReads = block[t].access.registerReads
      /\ b.registerWrites = block[t].access.registerWrites
      /\ b.implicitReads = block[t].access.implicitReads
      /\ b.implicitWrites = block[t].access.implicitWrites
      /\ b.memoryKind = block[t].access.memoryKind
  BY WholeTokens DEF Given
<1>2. /\ a.implicitWrites \cap b.implicitReads = {}
      /\ a.implicitWrites \cap b.implicitWrites = {}
      /\ b.implicitWrites \cap a.implicitReads = {}
  BY <1>1 DEF TailFits
<1>3. ~RegisterConflict(a, b)
  BY <1>1 DEF TailFits, NoDataDependency, RegisterConflict, RegisterRaw, RegisterWar, RegisterWaw
<1>4. ~PairwiseConflict(a, b, WholeIgnored)
  BY <1>2 DEF PairwiseConflict
<1>5. ~MemoryConflict(a, b)
  <2>1. a.memoryKind = "NONE" \/ b.memoryKind = "NONE"
    BY <1>1 DEF TailFits, SchedulesAsLower, Given
  <2> QED
    BY <2>1 DEF MemoryConflict
<1>6. \A res : /\ ~(Writes(WholeBlock, p, res) /\ Reads(WholeBlock, t, res))
               /\ ~(Writes(WholeBlock, p, res) /\ Writes(WholeBlock, t, res))
  BY <1>2 DEF Reads, Writes
<1>7. \A res \in {"ACC", "MAC"} : ~RegisterFlagEdge(WholeBlock, p, t, res, WholeIgnored)
  BY <1>6 DEF RegisterFlagEdge, LastWriterBefore
<1>8. ~WindowFlagEdge(WholeBlock, p, t, "CLIP", WholeIgnored)
  BY <1>6 DEF WindowFlagEdge, LastWriterBefore
<1>9. ~AccumulatingFlagEdge(WholeBlock, p, t, "STATUS")
  BY <1>6 DEF AccumulatingFlagEdge, ContributorAt, LastContributorAt, LastClearBefore, Contributes, Clears
<1> QED
  BY <1>3, <1>4, <1>5, <1>7, <1>8, <1>9 DEF WholeEdge, Edge

-----------------------------------------------------------------------------
(* The rows *)

(* The row of a token is one of those counted; only a token of the last slot  *)
(* can be in the last of them.                                                *)
LEMMA RowBound ==
  ASSUME Slotted, NEW i, Scheduled(i)
  PROVE  /\ WholeRows \in Nat
         /\ RowOf(i) \in 1 .. WholeRows
         /\ slots # <<>> /\ slots[Len(slots)].tokens # {} /\ i \notin slots[Len(slots)].tokens
              => RowOf(i) < WholeRows
<1> DEFINE n == Len(slots)
<1>1. PICK s \in DOMAIN slots : i \in slots[s].tokens
  BY DEF Scheduled, InRow
<1>2. n \in Nat /\ DOMAIN slots = 1 .. n /\ (slots # <<>> => n \in 1 .. n)
  <2>1. PICK S : slots \in Seq(S)
    BY DEF Slotted
  <2> QED
    BY <2>1
<1>3. RowOf(i) = Cardinality(TokenSlots(s)) /\ RowOf(i) # 0
  BY <1>1, RowOfSlot
<1>4. s \in Nat /\ s <= n
  BY <1>1, <1>2
<1>5. TokenSlots(s) \subseteq TokenSlots(n)
  BY <1>4 DEF TokenSlots
<1>6. /\ IsFiniteSet(TokenSlots(n)) /\ Cardinality(TokenSlots(n)) \in Nat
      /\ IsFiniteSet(TokenSlots(s)) /\ Cardinality(TokenSlots(s)) \in Nat
  BY <1>2, <1>4, TokenSlotsCount
<1>7. Cardinality(TokenSlots(s)) <= Cardinality(TokenSlots(n))
  BY <1>5, <1>6, FS_Subset
<1>8. ASSUME slots # <<>>, slots[n].tokens # {}, i \notin slots[n].tokens
      PROVE  Cardinality(TokenSlots(s)) < Cardinality(TokenSlots(n))
  <2>1. s < n
    BY <1>1, <1>2, <1>4, <1>8
  <2>2. n \in TokenSlots(n) /\ n \notin TokenSlots(s)
    BY <1>2, <1>4, <1>8, <2>1 DEF TokenSlots
  <2>3. TokenSlots(s) # TokenSlots(n)
    BY <2>2
  <2> QED
    BY <1>5, <1>6, <2>3, FS_Subset
<1> QED
  BY <1>3, <1>6, <1>7, <1>8 DEF WholeRows

(* A row at the end, of tokens whose predecessors are all out.                *)
LEMMA AppendedRespects ==
  ASSUME WholeInv, NEW r, "tokens" \in DOMAIN r, r.tokens \in SUBSET Position,
         \A i \in r.tokens : ~Scheduled(i),
         \A i \in r.tokens, p \in Position : WholeEdge(p, i) => Scheduled(p),
         slots' = Append(slots, r), UNCHANGED <<block, live>>
  PROVE  RowsRespectGraph'
<1>1. /\ \A i : Scheduled(i) => RowOf(i)' = RowOf(i)
      /\ \A i \in r.tokens : RowOf(i)' = WholeRows + 1
  BY RowsAfterAppend DEF WholeInv, WholeRows
<1>2. \A i : Scheduled(i)' <=> Scheduled(i) \/ i \in r.tokens
  BY Appended DEF WholeInv
<1>3. Position' = Position /\ \A i, j : WholeEdge(i, j)' <=> WholeEdge(i, j)
  BY DEF Position, WholeEdge, WholeBlock, WholeIgnored
<1>4. \A i : Scheduled(i) => RowOf(i) \in 1 .. WholeRows /\ WholeRows \in Nat
  BY RowBound DEF WholeInv, BlockInv
<1>5. ASSUME NEW i \in Position, NEW j \in Position, WholeEdge(i, j), Scheduled(j)'
      PROVE  Scheduled(i)' /\ RowOf(i)' < RowOf(j)'
  <2>1. CASE j \in r.tokens
    <3>1. Scheduled(i)
      BY <1>5, <2>1
    <3> QED
      BY <1>1, <1>2, <1>4, <2>1, <3>1
  <2>2. CASE j \notin r.tokens
    <3>1. Scheduled(j)
      BY <1>2, <1>5, <2>2
    <3>2. Scheduled(i) /\ RowOf(i) < RowOf(j)
      BY <1>5, <3>1 DEF WholeInv, RowsRespectGraph
    <3> QED
      BY <1>1, <1>2, <3>1, <3>2
  <2> QED
    BY <2>1, <2>2
<1> QED
  BY <1>3, <1>5 DEF RowsRespectGraph

(* The predecessors of a ready token are out: those before the segment, and   *)
(* those its graph keeps.                                                     *)
LEMMA ReadyHasAll ==
  ASSUME WholeInv, NEW i, Ready(i), NEW p \in Position, WholeEdge(p, i)
  PROVE  Scheduled(p)
<1>1. /\ i \in Segment /\ i \in Position /\ p < i
      /\ Position = 1 .. Len(block) /\ Len(block) \in Nat
      /\ segment.first \in Nat /\ segment.last \in Nat
  BY PlaceFacts, InvFacts DEF WholeInv, BlockInv, Ready, Remaining, WholeEdge, Edge
<1>2. CASE p < segment.first
  BY <1>2 DEF WholeInv, BlockInv, InSegmentOrder
<1>3. CASE p \in Segment
  <2>1. p \in Blockers(i)
    BY <1>1, <1>3, SegmentEdge DEF WholeInv
  <2> QED
    BY <2>1 DEF Ready
<1> QED
  BY <1>1, <1>2, <1>3 DEF Segment

(* Everything before a tail is out.                                           *)
LEMMA TailHasAll ==
  ASSUME WholeInv, Remaining = {}, segment.last < Len(block), NEW p \in Position, p < segment.last + 1
  PROVE  Scheduled(p)
<1>1. /\ Position = 1 .. Len(block) /\ Len(block) \in Nat
      /\ segment.first \in Nat /\ segment.last \in Nat
  BY PlaceFacts, InvFacts DEF WholeInv, BlockInv
<1>2. p < segment.first \/ p \in Segment
  BY <1>1 DEF Segment
<1> QED
  BY <1>2 DEF WholeInv, BlockInv, InSegmentOrder, Remaining

(* A row of ready tokens of the segment.                                      *)
LEMMA ReadyRowRespects ==
  ASSUME WholeInv, NEW i, NEW j, Ready(i), Ready(j),
         NEW r, "tokens" \in DOMAIN r, r.tokens = {i, j},
         slots' = Append(slots, r), UNCHANGED <<block, live>>
  PROVE  RowsRespectGraph'
<1>1. r.tokens \in SUBSET Position /\ \A k \in r.tokens : ~Scheduled(k)
  BY PlaceFacts DEF WholeInv, Ready, Remaining
<1>2. \A k \in r.tokens, p \in Position : WholeEdge(p, k) => Scheduled(p)
  BY ReadyHasAll
<1> QED
  BY <1>1, <1>2, AppendedRespects

(* A step that writes no slot.                                                *)
LEMMA SlotsStayRespects ==
  ASSUME WholeInv, UNCHANGED <<block, live, slots>>
  PROVE  RowsRespectGraph'
<1>1. Position' = Position /\ \A i, j : WholeEdge(i, j)' <=> WholeEdge(i, j)
  BY DEF Position, WholeEdge, WholeBlock, WholeIgnored
<1>2. \A i : RowOf(i)' = RowOf(i) /\ (Scheduled(i)' <=> Scheduled(i))
  BY DEF RowOf, Scheduled, InRow, TokenSlots
<1> QED
  BY <1>1, <1>2 DEF WholeInv, RowsRespectGraph

(* A tail in the last row.                                                    *)
LEMMA PairTailRespects ==
  ASSUME WholeInv, PairTail
  PROVE  RowsRespectGraph'
<1> DEFINE t == segment.last + 1
           n == Len(slots)
<1>1. /\ Remaining = {} /\ segment.last < Len(block)
      /\ slots # <<>>
      /\ Cardinality(slots[n].tokens) = 1
      /\ \A p \in slots[n].tokens : TailFits(block[p], block[t], slots[n].ignored)
      /\ slots' = [slots EXCEPT ![n].tokens = @ \cup {t}]
      /\ UNCHANGED <<block, live>>
  BY DEF PairTail, AtTail, JoinsRow
<1>2. t \in Position /\ ~Scheduled(t)
  BY <1>1, TailIsNext DEF WholeInv
<1>3. /\ Slotted'
      /\ n \in Nat \ {0}
      /\ Len(slots') = n
      /\ DOMAIN slots = 1 .. n
      /\ DOMAIN slots' = DOMAIN slots
      /\ \A s \in DOMAIN slots :
           slots'[s].tokens = IF s = n THEN slots[s].tokens \cup {t} ELSE slots[s].tokens
      /\ \A i : Scheduled(i)' <=> Scheduled(i) \/ i = t
  BY <1>1, <1>2, Joined DEF WholeInv
<1>4. slots[n].tokens # {}
  <2> DEFINE T == slots[n].tokens
  <2>1. Cardinality({}) = 0 /\ Cardinality(T) = 1
    BY <1>1, FS_EmptySet, Zenon
  <2> HIDE DEF T
  <2>2. T # {}
    BY <2>1
  <2> QED
    BY <2>2 DEF T
<1>11. n \in DOMAIN slots /\ slots'[n].tokens = slots[n].tokens \cup {t}
  <2>1. n \in 1 .. n
    BY <1>3
  <2>2. n \in DOMAIN slots
    BY <1>3, <2>1, Zenon
  <2> QED
    BY <1>3, <2>2, Zenon
<1>12. \A s \in 1 .. n : slots'[s].tokens # {} <=> slots[s].tokens # {}
  BY <1>3, <1>4
<1>5. ASSUME NEW s \in 0 .. n PROVE {u \in 1 .. s : slots'[u].tokens # {}} = TokenSlots(s)
  <2>1. \A u \in 1 .. s : u \in 1 .. n
    BY <1>3
  <2> QED
    BY <1>12, <2>1 DEF TokenSlots
<1>6. ASSUME NEW i, NEW s \in DOMAIN slots, i \in slots'[s].tokens
      PROVE  RowOf(i)' = Cardinality(TokenSlots(s))
  <2>1. /\ Scheduled(i)'
        /\ \A u \in DOMAIN slots' : i \in slots'[u].tokens <=> u = s
    BY <1>3, <1>6 DEF Slotted, Scheduled, InRow
  <2>2. (CHOOSE u \in DOMAIN slots' : i \in slots'[u].tokens) = s
    BY <1>3, <1>6, <2>1
  <2>3. RowOf(i)' = Cardinality({u \in 1 .. s : slots'[u].tokens # {}})
    BY <2>1, <2>2 DEF RowOf, TokenSlots, InRow
  <2>4. s \in 0 .. n
    BY <1>3
  <2> QED
    BY <1>5, <2>3, <2>4
<1>7. ASSUME NEW i, Scheduled(i) PROVE RowOf(i)' = RowOf(i)
  <2>1. PICK s \in DOMAIN slots : i \in slots[s].tokens
    BY <1>7 DEF Scheduled, InRow
  <2>2. RowOf(i) = Cardinality(TokenSlots(s))
    BY <2>1, RowOfSlot DEF WholeInv, BlockInv
  <2>3. i \in slots'[s].tokens
    BY <1>3, <2>1
  <2> QED
    BY <1>6, <2>2, <2>3
<1>8. ASSUME NEW u, u = t PROVE RowOf(u)' = WholeRows
  <2>1. n \in DOMAIN slots /\ u \in slots'[n].tokens
    BY <1>8, <1>11
  <2> QED
    BY <1>6, <2>1 DEF WholeRows
<1>9. Position' = Position /\ \A i, j : WholeEdge(i, j)' <=> WholeEdge(i, j)
  BY <1>1 DEF Position, WholeEdge, WholeBlock, WholeIgnored
<1>10. ASSUME NEW i \in Position, NEW j \in Position, WholeEdge(i, j), Scheduled(j)'
       PROVE  Scheduled(i)' /\ RowOf(i)' < RowOf(j)'
  <2>1. CASE j = t
    <3>1. i < t
      BY <1>10, <2>1 DEF WholeEdge, Edge
    <3>2. Scheduled(i)
      BY <1>1, <3>1, TailHasAll
    <3>3. i \notin slots[n].tokens
      BY <1>1, <1>2, <1>10, <2>1, NoEdgeInRow DEF WholeInv
    <3>4. RowOf(i) < WholeRows
      BY <1>1, <1>4, <3>2, <3>3, RowBound DEF WholeInv, BlockInv
    <3>5. RowOf(i)' = RowOf(i) /\ RowOf(j)' = WholeRows /\ Scheduled(i)'
      BY <1>3, <1>7, <1>8, <2>1, <3>2
    <3> QED
      BY <3>4, <3>5
  <2>2. CASE j # t
    <3>1. Scheduled(j)
      BY <1>3, <1>10, <2>2
    <3>2. Scheduled(i) /\ RowOf(i) < RowOf(j)
      BY <1>10, <3>1 DEF WholeInv, RowsRespectGraph
    <3> QED
      BY <1>3, <1>7, <3>1, <3>2
  <2> QED
    BY <2>1, <2>2
<1> QED
  BY <1>9, <1>10 DEF RowsRespectGraph

-----------------------------------------------------------------------------
(* One step per action of the scheduler.                                      *)
LEMMA InitWhole == Init => WholeInv
<1> SUFFICES ASSUME Init PROVE WholeInv
  OBVIOUS
<1>1. BlockInv
  BY InitInv
<1>2. Given
  BY BlocksAssumption, TableAssumption DEF Init, Given, Position
<1>3. \A i : ~Scheduled(i)
  BY DEF Init, Scheduled
<1> QED
  BY <1>1, <1>2, <1>3 DEF WholeInv, RowsRespectGraph

(* One lemma for the rows: each action leaves them respecting the graph.      *)
LEMMA NextRespects ==
  ASSUME WholeInv, [Next]_vars
  PROVE  RowsRespectGraph'
<1>1. ASSUME NEW w \in Remaining, NEW u \in Remaining, FillWait(w, u)
      PROVE  RowsRespectGraph'
  <2> DEFINE r == [ tokens |-> {u}, padding |-> KindOf({w}), issue |-> cycle,
                    cycles |-> WaitCycles(KindOf({w})) + 1, words |-> 1, ignored |-> segment.ignored ]
  <2>1. slots' = Append(slots, r) /\ UNCHANGED <<block, live>> /\ Ready(u)
    BY <1>1 DEF FillWait, WaitRow, Filler
  <2>2. "tokens" \in DOMAIN r /\ r.tokens = {u, u}
    OBVIOUS
  <2> QED
    BY <2>1, <2>2, ReadyRowRespects
<1>2. ASSUME NEW i \in Remaining, IssueWaitingUpper(i)
      PROVE  RowsRespectGraph'
  <2> DEFINE r == [ tokens |-> {i}, padding |-> KindOf({i}), issue |-> cycle,
                    cycles |-> WaitCycles(KindOf({i})) + 1, words |-> 1, ignored |-> segment.ignored ]
  <2>1. slots' = Append(slots, r) /\ UNCHANGED <<block, live>> /\ Ready(i)
    BY <1>2 DEF IssueWaitingUpper, WaitRow
  <2>2. "tokens" \in DOMAIN r /\ r.tokens = {i, i}
    OBVIOUS
  <2> QED
    BY <2>1, <2>2, ReadyRowRespects
<1>3. CASE UNCHANGED <<block, live, slots>>
  BY <1>3, SlotsStayRespects
<1>4. ASSUME NEW i \in Remaining, ChooseAlone(i) PROVE UNCHANGED <<block, live, slots>>
  BY <1>4 DEF ChooseAlone
<1>5. ASSUME NEW i \in Remaining, NEW j \in Remaining, ChoosePair(i, j)
      PROVE  UNCHANGED <<block, live, slots>>
  BY <1>5 DEF ChoosePair
<1>6. CASE StartTail \/ UNCHANGED vars
  BY <1>3, <1>6 DEF StartTail, vars
<1>7. CASE Pad
  <2>1. UNCHANGED <<block, live>>
    BY <1>7 DEF Pad
  <2>2. CASE \E r : r.tokens = {} /\ "tokens" \in DOMAIN r /\ slots' = Append(slots, r)
    BY <2>1, <2>2, AppendedRespects
  <2> QED
    BY <1>3, <1>7, <2>1, <2>2 DEF Pad
<1>8. CASE Issue
  <2> DEFINE r == [ tokens |-> chosen, padding |-> "NONE", issue |-> cycle, cycles |-> 1, words |-> 1,
                    ignored |-> IF \E i \in chosen : ~block[i].candidate THEN {} ELSE segment.ignored ]
  <2>1. slots' = Append(slots, r) /\ chosen # {} /\ UNCHANGED <<block, live>>
    BY <1>8 DEF Issue, NoRow
  <2>2. "tokens" \in DOMAIN r /\ r.tokens = chosen
    OBVIOUS
  <2> HIDE DEF r
  <2>3. CASE \E i, j : Ready(i) /\ Ready(j) /\ chosen = {i, j}
    BY <2>1, <2>2, <2>3, ReadyRowRespects
  <2>4. CASE AtLastTail
    <3>1. segment.last + 1 \in Position /\ ~Scheduled(segment.last + 1)
      BY <2>4, TailIsNext DEF AtLastTail, WholeInv
    <3>2. \A i \in r.tokens, p \in Position : WholeEdge(p, i) => Scheduled(p)
      BY <2>2, <2>4, TailHasAll DEF AtLastTail, WholeEdge, Edge
    <3>3. r.tokens \in SUBSET Position /\ \A i \in r.tokens : ~Scheduled(i)
      BY <2>2, <2>4, <3>1 DEF AtLastTail
    <3> QED
      BY <2>1, <2>2, <3>2, <3>3, AppendedRespects
  <2> QED
    BY <2>1, <2>3, <2>4 DEF WholeInv, BlockInv, ChosenRow
<1> QED
  BY <1>1, <1>2, <1>3, <1>4, <1>5, <1>6, <1>7, <1>8, PairTailRespects DEF Next, Step, Done

(* The rows of the whole block respect the graph of the whole block.          *)
THEOREM WholeInvCorrect == Spec => []WholeInv
<1>1. WholeInv /\ [Next]_vars => WholeInv'
  <2> SUFFICES ASSUME WholeInv, [Next]_vars PROVE WholeInv'
    OBVIOUS
  <2>1. BlockInv' /\ RowsRespectGraph'
    BY NextInv, NextRespects DEF WholeInv
  <2>2. block' = block
    BY DEF Next, Step, Done, vars, FillWait, IssueWaitingUpper, WaitRow, ChooseAlone, ChoosePair,
           Pad, Issue, PairTail, StartTail
  <2>3. Given'
    BY <2>2 DEF WholeInv, Given, Position
  <2> QED
    BY <2>1, <2>3 DEF WholeInv
<1> QED
  BY <1>1, InitWhole, PTL DEF Spec

-----------------------------------------------------------------------------
(* What the rows mean to the readers of the block *)

(* The instance of VuReadyOrder on the whole block meets its assumptions.     *)
LEMMA WholeAssumptions ==
  /\ BlockType \subseteq WholeFacts!BlockType
  /\ AnyIgnored \subseteq SUBSET {"MAC", "CLIP", "STATUS"}
<1>1. BlockType = WholeFacts!BlockType
  BY DEF BlockType, TokenType, TokenRecord, Resource,
         WholeFacts!BlockType, WholeFacts!TokenType, WholeFacts!TokenRecord, WholeFacts!Resource
<1> QED
  BY <1>1 DEF AnyIgnored

(* The order's graph is the one of this module.                               *)
LEMMA SameEdgeWhole ==
  ASSUME NEW b, NEW g, NEW i, NEW j
  PROVE  WholeFacts!Edge(b, g, i, j) <=> Edge(b, g, i, j)
BY Zenon
   DEF Edge, RegisterConflict, RegisterRaw, RegisterWar, RegisterWaw, PairwiseConflict,
       Resource, PairwiseResource, PreciseResource, AccumulatingResource,
       MemoryConflict, MayExchange, MemoryDistinct, IsPlainAccess, RegisterFlagEdge,
       WindowFlagEdge, AccumulatingFlagEdge, IsFinalWriter, LastWriterBefore, ReadAfter,
       ContributorAt, LastContributorAt, LastClearBefore, Reads, Writes, Clears,
       Contributes,
       WholeFacts!Edge, WholeFacts!RegisterConflict, WholeFacts!RegisterRaw,
       WholeFacts!RegisterWar, WholeFacts!RegisterWaw, WholeFacts!PairwiseConflict,
       WholeFacts!Resource, WholeFacts!PairwiseResource, WholeFacts!PreciseResource,
       WholeFacts!AccumulatingResource, WholeFacts!MemoryConflict,
       WholeFacts!MayExchange, WholeFacts!MemoryDistinct, WholeFacts!IsPlainAccess,
       WholeFacts!RegisterFlagEdge, WholeFacts!WindowFlagEdge,
       WholeFacts!AccumulatingFlagEdge, WholeFacts!IsFinalWriter,
       WholeFacts!LastWriterBefore, WholeFacts!ReadAfter, WholeFacts!ContributorAt,
       WholeFacts!LastContributorAt, WholeFacts!LastClearBefore, WholeFacts!Reads,
       WholeFacts!Writes, WholeFacts!Clears, WholeFacts!Contributes

(* The inductive invariant of VuReadyOrder holds of the rows of the block.    *)
LEMMA WholeOrder ==
  ASSUME WholeInv
  PROVE  WholeFacts!IInv
<1> DEFINE order == [i \in Position |-> RowOf(i)]
<1>1. /\ DOMAIN WholeBlock = Position /\ WholeBlock \in BlockType
  BY WholeTokens DEF WholeInv, Given
<1>2. WholeRows \in Nat /\ \A i \in Position : RowOf(i) \in 0 .. WholeRows /\ (RowOf(i) # 0 <=> Scheduled(i))
  <2>1. WholeRows \in Nat
    <3>1. Len(slots) \in Nat
      BY DEF WholeInv, BlockInv, Slotted
    <3> QED
      BY <3>1, TokenSlotsCount DEF WholeRows
  <2>2. ASSUME NEW i \in Position PROVE RowOf(i) \in 0 .. WholeRows /\ (RowOf(i) # 0 <=> Scheduled(i))
    <3>1. CASE Scheduled(i)
      BY <2>1, <3>1, RowBound DEF WholeInv, BlockInv
    <3>2. CASE ~Scheduled(i)
      BY <2>1, <3>2 DEF RowOf
    <3> QED
      BY <3>1, <3>2
  <2> QED
    BY <2>1, <2>2
<1>3. WholeFacts!Position = Position
  BY <1>1 DEF WholeFacts!Position, WholeBlock
<1>4. \A i \in Position : WholeFacts!Emitted(i) <=> Scheduled(i)
  BY <1>2 DEF WholeFacts!Emitted
<1>5. WholeFacts!TypeOK
  <2>1. WholeBlock \in WholeFacts!BlockType
    BY <1>1, WholeAssumptions
  <2>2. WholeIgnored \in AnyIgnored
    BY DEF WholeIgnored, AnyIgnored
  <2> QED
    BY <1>2, <1>3, <2>1, <2>2 DEF WholeFacts!TypeOK, WholeBlock, WholeIgnored, WholeRows
<1>6. WholeFacts!GraphRespected
  <2>1. \A i, j \in Position : WholeFacts!Edge(AccessOf(block), {"MAC", "CLIP", "STATUS"} \ live, i, j) => WholeEdge(i, j)
    BY SameEdgeWhole DEF WholeEdge, WholeBlock, WholeIgnored
  <2> QED
    BY <1>3, <1>4, <2>1 DEF WholeFacts!GraphRespected, WholeInv, RowsRespectGraph
<1> QED
  BY <1>5, <1>6 DEF WholeFacts!IInv

(* Whole and WholeFacts are one module read in the same rows.                 *)
LEMMA SamePosition ==
  /\ Whole!Position = WholeFacts!Position
  /\ \A i : Whole!Emitted(i) <=> WholeFacts!Emitted(i)
  /\ \A res : Whole!ResourceWriters(res) = WholeFacts!ResourceWriters(res)
  /\ \A r : Whole!RegisterWriters(r) = WholeFacts!RegisterWriters(r)
BY DEF Whole!Position, WholeFacts!Position, Whole!Emitted, WholeFacts!Emitted,
       Whole!ResourceWriters, WholeFacts!ResourceWriters,
       Whole!RegisterWriters, WholeFacts!RegisterWriters

(* What a reader finds is the same in both.                                   *)
LEMMA SameRead ==
  /\ \A W, j, r : WholeFacts!ReadPreserved(W, j, r) => Whole!ReadPreserved(W, j, r)
  /\ \A W, j, r : WholeFacts!WindowPreserved(W, j, r) => Whole!WindowPreserved(W, j, r)
BY SamePosition, Zenon
   DEF Whole!ReadPreserved, WholeFacts!ReadPreserved, Whole!LastInSource, WholeFacts!LastInSource,
       Whole!LastInRows, WholeFacts!LastInRows, Whole!WindowPreserved, WholeFacts!WindowPreserved,
       Whole!Emitted, WholeFacts!Emitted

(* So is which contributors a status reader finds.                            *)
LEMMA SameStatus ==
  /\ \A j : Whole!SourceContributors(j) = WholeFacts!SourceContributors(j)
  /\ \A r : Whole!RowContributors(r) = WholeFacts!RowContributors(r)
  /\ \A b, i, res : Whole!Reads(b, i, res) <=> WholeFacts!Reads(b, i, res)
  /\ \A b, i, res : Whole!Clears(b, i, res) <=> WholeFacts!Clears(b, i, res)
  /\ \A b, c, j, res : Whole!LastContributorAt(b, c, j, res) <=> WholeFacts!LastContributorAt(b, c, j, res)
<1>1. \A b, c, j, res : Whole!ContributorAt(b, c, j, res) <=> WholeFacts!ContributorAt(b, c, j, res)
  BY DEF Whole!ContributorAt, WholeFacts!ContributorAt, Whole!Contributes, WholeFacts!Contributes,
         Whole!Clears, WholeFacts!Clears, Whole!Reads, WholeFacts!Reads, Whole!Writes, WholeFacts!Writes
<1>2. /\ \A b, i, res : Whole!Reads(b, i, res) <=> WholeFacts!Reads(b, i, res)
      /\ \A b, i, res : Whole!Clears(b, i, res) <=> WholeFacts!Clears(b, i, res)
      /\ \A b, i, res : Whole!Contributes(b, i, res) <=> WholeFacts!Contributes(b, i, res)
  BY DEF Whole!Contributes, WholeFacts!Contributes, Whole!Clears, WholeFacts!Clears,
         Whole!Reads, WholeFacts!Reads, Whole!Writes, WholeFacts!Writes
<1>3. \A j : Whole!SourceContributors(j) = WholeFacts!SourceContributors(j)
  BY <1>1, SamePosition DEF Whole!SourceContributors, WholeFacts!SourceContributors
<1>4. \A r : Whole!RowContributors(r) = WholeFacts!RowContributors(r)
  BY <1>2, SamePosition DEF Whole!RowContributors, WholeFacts!RowContributors
<1>5. \A b, c, j, res : Whole!LastContributorAt(b, c, j, res) <=> WholeFacts!LastContributorAt(b, c, j, res)
  BY <1>1, <1>2, Zenon DEF Whole!LastContributorAt, WholeFacts!LastContributorAt
<1> QED
  BY <1>2, <1>3, <1>4, <1>5

(* A finished block reads every register, every implicit resource and every   *)
(* ordered pair of memory accesses as its source does, and leaves behind what *)
(* its source leaves behind.                                                  *)
THEOREM BlockReadsCorrect == Spec => []BlockReadsPreserved
<1>1. ASSUME WholeInv PROVE BlockReadsPreserved
  <2>1. WholeFacts!IInv
    BY <1>1, WholeOrder
  <2>2. /\ WholeFacts!RegisterReadsPreserved
        /\ WholeFacts!ResourceReadsPreserved
        /\ WholeFacts!ClipReadsPreserved
        /\ WholeFacts!StatusReadsPreserved
        /\ WholeFacts!MemoryOrderPreserved
        /\ WholeFacts!LiveOutPreserved
    BY <2>1, WholeAssumptions, NoRegisterAssumption, WholeFacts!RegisterReadsFromGraph,
       WholeFacts!ResourceReadsFromGraph, WholeFacts!ClipReadsFromGraph,
       WholeFacts!StatusReadsFromGraph, WholeFacts!MemoryOrderFromGraph, WholeFacts!LiveOutFromGraph
  <2>3. Whole!RegisterReadsPreserved
    BY <2>2, SamePosition, SameRead DEF Whole!RegisterReadsPreserved, WholeFacts!RegisterReadsPreserved
  <2>4. Whole!ResourceReadsPreserved
    BY <2>2, SamePosition, SameRead DEF Whole!ResourceReadsPreserved, WholeFacts!ResourceReadsPreserved
  <2>5. Whole!ClipReadsPreserved
    BY <2>2, SamePosition, SameRead, SameStatus DEF Whole!ClipReadsPreserved, WholeFacts!ClipReadsPreserved
  <2>6. Whole!StatusReadsPreserved
    BY <2>2, SamePosition, SameStatus, Zenon DEF Whole!StatusReadsPreserved, WholeFacts!StatusReadsPreserved
  <2>7. Whole!MemoryOrderPreserved
    BY <2>2, SamePosition, Zenon
    DEF Whole!MemoryOrderPreserved, WholeFacts!MemoryOrderPreserved, Whole!IsPlainAccess, WholeFacts!IsPlainAccess
  <2>8. Whole!LiveOutPreserved
    BY <2>2, SamePosition, SameRead, SameStatus, Zenon
    DEF Whole!LiveOutPreserved, WholeFacts!LiveOutPreserved, Whole!Resource, WholeFacts!Resource
  <2> QED
    BY <2>3, <2>4, <2>5, <2>6, <2>7, <2>8 DEF BlockReadsPreserved, Whole!ImplicitReadsPreserved
<1> QED
  BY <1>1, WholeInvCorrect, PTL
=============================================================================
