------------------------- MODULE VuKernelLayoutProofs -------------------------
(***************************************************************************)
(* Proofs about the kernel placer and about the plan that is laid out from *)
(* its slots, for every loop, every interval, every course of the          *)
(* backtracking and every number of passes.                                *)
(*                                                                         *)
(* The placer.  The invariant says two things of a slot assignment and a   *)
(* table: the assignment keeps every edge, and the table mirrors the       *)
(* assignment.  It is stated for any pair of the two, because the          *)
(* backtracking goes through pairs that are no state of the machine: a     *)
(* node taken out, the unplaced one put in, the first put back in.         *)
(*                                                                         *)
(* The plan.  The placer leaves three facts behind (Laid): the edges are   *)
(* kept, no two nodes of a lane start in the same cycle of the kernel, and *)
(* no node is in a stage the count of stages does not cover.  From the     *)
(* last two follows where a plan issues node i of turn t: in copy          *)
(* StageOf(i) + t, in cycle ModSlot(i), and nowhere else.  From the first  *)
(* follows that two nodes one of which writes what the other touches are   *)
(* less than a turn apart, in the order of the body; so the plan issues    *)
(* such nodes in the order of the loop, whatever their turns.  The last    *)
(* writer in front of a read is then the same in both.                     *)
(***************************************************************************)
EXTENDS VuKernelLayout, FiniteSetTheorems, SequenceTheorems, TLAPS

Slots == {Unplaced} \cup 0 .. SlotBound

Owners == {Free} \cup Nodes

Assigned(at) == at \in [Nodes -> Slots]

Mirrors(at, held) ==
  /\ held \in [Lanes -> [0 .. ii - 1 -> Owners]]
  /\ \A l \in Lanes, c \in 0 .. ii - 1, i \in Nodes :
       (held[l][c] = i) <=> (Placed(at, i) /\ Lane(i) = l /\ c \in Cells(i, at[i]))

KeepsEdges(at) ==
  \A e \in edges :
    Placed(at, e[1]) /\ Placed(at, e[2]) => at[e[2]] - at[e[1]] >= Gap(e)

(* The edges join two different nodes, and none of them is a NOP. *)
EdgesTyped ==
  \A e \in edges :
    /\ e[1] \in Nodes /\ e[2] \in Nodes /\ e[1] # e[2]
    /\ e[3] \in Nat
    /\ Lane(e[1]) # "none" /\ Lane(e[2]) # "none"

(* A node the first pass has yet to come to has no slot. *)
Unvisited == phase = "place" => \A i \in Nodes \ visited : ~Placed(slot, i)

Inv ==
  /\ TypeOK
  /\ Unvisited
  /\ EdgesTyped
  /\ KeepsEdges(slot)
  /\ Mirrors(slot, table)

-----------------------------------------------------------------------------
(* A body is a sequence of nodes, numbered from one: no node is Free. *)
LEMMA BodyTyped ==
  ASSUME NEW body \in Loops
  PROVE  /\ body \in Seq(Node)
         /\ DOMAIN body \subseteq Nat \ {0}
         /\ \A i \in DOMAIN body : body[i] \in Node
         /\ \A i \in DOMAIN body :
              body[i].pipe = "none" /\ body[i].unit = "none"
                => body[i].reads = <<>> /\ body[i].writes = <<>>
<1>1. body \in Seq(Node)
  BY LoopsAssumption
<1>2. DOMAIN body = 1 .. Len(body) /\ \A i \in DOMAIN body : body[i] \in Node
  BY <1>1
<1>3. Len(body) \in Nat
  BY <1>1
<1> QED
  BY <1>1, <1>2, <1>3, LoopsAssumption

(* Two nodes with an edge are different, its latency is a number and neither *)
(* of the two is a NOP.                                                      *)
LEMMA DemandsTyped ==
  ASSUME NEW body \in Loops, NEW i \in DOMAIN body, NEW j \in DOMAIN body,
         NEW l \in Demands(body, FALSE, i, j)
  PROVE  /\ i # j
         /\ l \in Nat
         /\ ~(body[i].pipe = "none" /\ body[i].unit = "none")
         /\ ~(body[j].pipe = "none" /\ body[j].unit = "none")
<1>1. i # j
  BY DEF Demands
<1>2. l \in Nat
  <2>1. l = 1 \/ l \in Waits(body, i, j)
    BY DEF Demands
  <2>2. CASE l \in Waits(body, i, j)
    <3>1. PICK c \in DOMAIN body[i].writes : l = body[i].writes[c].ready
      BY <2>2 DEF Waits
    <3>2. body[i].writes \in Seq(WrittenKey)
      BY BodyTyped DEF Node
    <3>3. body[i].writes[c] \in WrittenKey
      BY <3>2
    <3> QED
      BY <3>1, <3>3 DEF WrittenKey
  <2> QED
    BY <2>1, <2>2
<1>3. ASSUME NEW s, NEW t, s = <<>> \/ t = <<>>
      PROVE  Shared(s, t) = {}
  BY <1>3 DEF Shared
<1>4. \/ Shared(body[i].writes, body[j].reads) # {}
      \/ Shared(body[i].writes, body[j].writes) # {}
      \/ Shared(body[i].reads, body[j].writes) # {}
  BY <1>1 DEF Demands, Counts
<1>5. ~(body[i].pipe = "none" /\ body[i].unit = "none")
  <2>1. SUFFICES ASSUME body[i].pipe = "none" /\ body[i].unit = "none" PROVE FALSE
    OBVIOUS
  <2>2. body[i].reads = <<>> /\ body[i].writes = <<>>
    BY <2>1, BodyTyped
  <2> QED
    BY <2>2, <1>3, <1>4
<1>6. ~(body[j].pipe = "none" /\ body[j].unit = "none")
  <2>1. SUFFICES ASSUME body[j].pipe = "none" /\ body[j].unit = "none" PROVE FALSE
    OBVIOUS
  <2>2. body[j].reads = <<>> /\ body[j].writes = <<>>
    BY <2>1, BodyTyped
  <2> QED
    BY <2>2, <1>3, <1>4
<1> QED
  BY <1>1, <1>2, <1>5, <1>6

LEMMA LaneTyped ==
  ASSUME loop \in Loops, NEW i \in Nodes, Lane(i) # "none"
  PROVE  Lane(i) \in Lanes
<1>1. loop[i] \in Node
  BY BodyTyped DEF Nodes
<1> QED
  BY <1>1 DEF Lane, Lanes, Node, Pipes, Units

(* The cycles a node holds lie in the table. *)
LEMMA CellsTyped ==
  ASSUME ii \in Nat \ {0}, loop \in Loops, NEW i \in Nodes, NEW s \in Nat
  PROVE  Cells(i, s) \subseteq 0 .. ii - 1
<1>1. loop[i].duration \in Nat \ {0}
  BY BodyTyped DEF Nodes, Node
<1>2. Min({loop[i].duration, ii}) \in Nat
  BY <1>1 DEF Min
<1>3. ASSUME NEW k \in 0 .. Min({loop[i].duration, ii}) - 1
      PROVE  (s + k) % ii \in 0 .. ii - 1
  BY <1>2, <1>3
<1> QED
  BY <1>3 DEF Cells

(* The larger of two or three numbers is a number. *)
LEMMA MaxTyped ==
  ASSUME NEW a \in Nat, NEW b \in Nat, NEW c \in Nat
  PROVE  Max({a, b}) \in Nat /\ Max({a, b, c}) \in Nat
<1>1. \E x \in {a, b} : \A y \in {a, b} : x >= y
  <2>1. a >= b \/ b >= a
    OBVIOUS
  <2> QED
    BY <2>1
<1>2. \E x \in {a, b, c} : \A y \in {a, b, c} : x >= y
  <2>1. \/ a >= b /\ a >= c
        \/ b >= a /\ b >= c
        \/ c >= a /\ c >= b
    OBVIOUS
  <2> QED
    BY <2>1
<1> QED
  BY <1>1, <1>2 DEF Max

LEMMA StageTyped ==
  ASSUME ii \in Nat \ {0}, NEW s \in Nat
  PROVE  Stage(s) \in Nat
BY DEF Stage

-----------------------------------------------------------------------------
(* The reservation table *)

LEMMA MarkedTyped ==
  ASSUME loop \in Loops, NEW i \in Nodes, Lane(i) # "none", NEW s,
         NEW held, held \in [Lanes -> [0 .. ii - 1 -> Owners]], NEW o, o \in Owners
  PROVE  Marked(held, i, s, o) \in [Lanes -> [0 .. ii - 1 -> Owners]]
BY LaneTyped DEF Marked

LEMMA MarkedAt ==
  ASSUME loop \in Loops, NEW i \in Nodes, Lane(i) # "none", NEW s,
         NEW held, held \in [Lanes -> [0 .. ii - 1 -> Owners]], NEW o, o \in Owners,
         NEW l \in Lanes, NEW c \in 0 .. ii - 1
  PROVE  Marked(held, i, s, o)[l][c] =
           IF l = Lane(i) /\ c \in Cells(i, s) THEN o ELSE held[l][c]
BY LaneTyped DEF Marked

(* A node reserved where the table is free is mirrored. *)
LEMMA ReserveMirrors ==
  ASSUME loop \in Loops, ii \in Nat \ {0}, NEW i \in Nodes, Lane(i) # "none",
         NEW at, Assigned(at), ~Placed(at, i), NEW s \in 0 .. SlotBound,
         NEW held, Mirrors(at, held), CanReserve(held, i, s)
  PROVE  Mirrors([at EXCEPT ![i] = s], Reserve(held, i, s))
<1> DEFINE now == [at EXCEPT ![i] = s]
           mark == Reserve(held, i, s)
<1>1. held \in [Lanes -> [0 .. ii - 1 -> Owners]] /\ i \in Owners
  BY DEF Mirrors, Owners
<1>2. /\ mark \in [Lanes -> [0 .. ii - 1 -> Owners]]
      /\ \A l \in Lanes, c \in 0 .. ii - 1 :
           mark[l][c] = IF l = Lane(i) /\ c \in Cells(i, s) THEN i ELSE held[l][c]
  <2>1. Marked(held, i, s, i) \in [Lanes -> [0 .. ii - 1 -> Owners]]
    BY <1>1, MarkedTyped
  <2>2. ASSUME NEW l \in Lanes, NEW c \in 0 .. ii - 1
        PROVE  Marked(held, i, s, i)[l][c] =
                 IF l = Lane(i) /\ c \in Cells(i, s) THEN i ELSE held[l][c]
    BY <1>1, LaneTyped DEF Marked
  <2>3. mark = Marked(held, i, s, i)
    BY DEF Reserve
  <2> HIDE DEF mark
  <2> QED
    BY <2>1, <2>2, <2>3
<1>3. s # Unplaced
  BY BoundAssumption DEF Unplaced
<1>4. /\ now \in [Nodes -> Slots] /\ now[i] = s /\ Placed(now, i)
      /\ \A j \in Nodes \ {i} : now[j] = at[j] /\ (Placed(now, j) <=> Placed(at, j))
  BY <1>3 DEF Assigned, Placed, Slots
<1>5. i # Free
  BY BodyTyped DEF Free, Nodes
<1>6. ASSUME NEW l \in Lanes, NEW c \in 0 .. ii - 1, NEW j \in Nodes
      PROVE  (mark[l][c] = j) <=> (Placed(now, j) /\ Lane(j) = l /\ c \in Cells(j, now[j]))
  <2>1. (held[l][c] = j) <=> (Placed(at, j) /\ Lane(j) = l /\ c \in Cells(j, at[j]))
    BY DEF Mirrors
  <2>2. CASE l = Lane(i) /\ c \in Cells(i, s)
    <3>1. mark[l][c] = i /\ held[l][c] = Free
      BY <1>2, <2>2 DEF CanReserve
    <3>2. CASE j = i
      BY <3>1, <3>2, <1>4, <2>2
    <3>3. CASE j # i
      <4>1. j # Free
        BY BodyTyped DEF Free, Nodes
      <4> QED
        BY <3>1, <3>3, <4>1, <1>4, <2>1
    <3> QED
      BY <3>2, <3>3
  <2>3. CASE ~(l = Lane(i) /\ c \in Cells(i, s))
    <3>1. mark[l][c] = held[l][c]
      BY <1>2, <2>3
    <3>2. CASE j = i
      BY <3>1, <3>2, <2>1, <2>3, <1>4
    <3>3. CASE j # i
      BY <3>1, <3>3, <2>1, <1>4
    <3> QED
      BY <3>2, <3>3
  <2> QED
    BY <2>2, <2>3
<1> QED
  BY <1>2, <1>6 DEF Mirrors

(* A node released is no longer mirrored, and the others still are. *)
LEMMA ReleaseMirrors ==
  ASSUME loop \in Loops, ii \in Nat \ {0}, NEW i \in Nodes, Lane(i) # "none",
         NEW at, Assigned(at), Placed(at, i), NEW held, Mirrors(at, held)
  PROVE  Mirrors([at EXCEPT ![i] = Unplaced], Release(held, i, at[i]))
<1> DEFINE now == [at EXCEPT ![i] = Unplaced]
           mark == Release(held, i, at[i])
<1>1. held \in [Lanes -> [0 .. ii - 1 -> Owners]] /\ Free \in Owners
  BY DEF Mirrors, Owners
<1>2. /\ mark \in [Lanes -> [0 .. ii - 1 -> Owners]]
      /\ \A l \in Lanes, c \in 0 .. ii - 1 :
           mark[l][c] = IF l = Lane(i) /\ c \in Cells(i, at[i]) THEN Free ELSE held[l][c]
  <2>1. Marked(held, i, at[i], Free) \in [Lanes -> [0 .. ii - 1 -> Owners]]
    BY <1>1, MarkedTyped
  <2>2. ASSUME NEW l \in Lanes, NEW c \in 0 .. ii - 1
        PROVE  Marked(held, i, at[i], Free)[l][c] =
                 IF l = Lane(i) /\ c \in Cells(i, at[i]) THEN Free ELSE held[l][c]
    BY <1>1, LaneTyped DEF Marked
  <2>3. mark = Marked(held, i, at[i], Free)
    BY DEF Release
  <2> HIDE DEF mark
  <2> QED
    BY <2>1, <2>2, <2>3
<1>3. /\ ~Placed(now, i)
      /\ \A j \in Nodes \ {i} : now[j] = at[j] /\ (Placed(now, j) <=> Placed(at, j))
  BY DEF Assigned, Placed
<1>4. ASSUME NEW l \in Lanes, NEW c \in 0 .. ii - 1, NEW j \in Nodes
      PROVE  (mark[l][c] = j) <=> (Placed(now, j) /\ Lane(j) = l /\ c \in Cells(j, now[j]))
  <2>1. /\ (held[l][c] = j) <=> (Placed(at, j) /\ Lane(j) = l /\ c \in Cells(j, at[j]))
        /\ (held[l][c] = i) <=> (Lane(i) = l /\ c \in Cells(i, at[i]))
    BY DEF Mirrors
  <2>2. j # Free
    BY BodyTyped DEF Free, Nodes
  <2>3. CASE l = Lane(i) /\ c \in Cells(i, at[i])
    <3>1. mark[l][c] = Free /\ held[l][c] = i
      BY <1>2, <2>1, <2>3
    <3>2. CASE j = i
      BY <3>1, <3>2, <2>2, <1>3
    <3>3. CASE j # i
      BY <3>1, <3>3, <2>1, <2>2, <1>3
    <3> QED
      BY <3>2, <3>3
  <2>4. CASE ~(l = Lane(i) /\ c \in Cells(i, at[i]))
    <3>1. mark[l][c] = held[l][c]
      BY <1>2, <2>4
    <3>2. CASE j = i
      BY <3>1, <3>2, <2>1, <2>4, <1>3
    <3>3. CASE j # i
      BY <3>1, <3>3, <2>1, <1>3
    <3> QED
      BY <3>2, <3>3
  <2> QED
    BY <2>3, <2>4
<1> QED
  BY <1>2, <1>4 DEF Mirrors

(* What a node has left is free for it to come back to. *)
LEMMA Restorable ==
  ASSUME loop \in Loops, ii \in Nat \ {0}, NEW b \in Nodes, Lane(b) # "none",
         Assigned(slot), Placed(slot, b), Mirrors(slot, table),
         NEW held, Mirrors(Without(b), held)
  PROVE  CanReserve(held, b, slot[b])
<1>1. SUFFICES ASSUME NEW c \in Cells(b, slot[b])
               PROVE  held[Lane(b)][c] = Free
  BY DEF CanReserve
<1>2. slot[b] \in Nat
  BY BoundAssumption DEF Assigned, Slots, Placed
<1>3. c \in 0 .. ii - 1 /\ Lane(b) \in Lanes
  BY <1>2, CellsTyped, LaneTyped
<1>4. held[Lane(b)][c] \in Owners /\ table[Lane(b)][c] = b
  BY <1>3 DEF Mirrors
<1>5. ASSUME NEW j \in Nodes, held[Lane(b)][c] = j
      PROVE  FALSE
  <2>1. Placed(Without(b), j) /\ Lane(j) = Lane(b) /\ c \in Cells(j, Without(b)[j])
    BY <1>3, <1>5 DEF Mirrors
  <2>2. j # b /\ Without(b)[j] = slot[j] /\ Placed(slot, j)
    BY <2>1 DEF Without, Assigned, Placed
  <2>3. table[Lane(b)][c] = j
    BY <1>3, <2>1, <2>2 DEF Mirrors
  <2> QED
    BY <1>4, <2>2, <2>3
<1> QED
  BY <1>4, <1>5 DEF Owners

-----------------------------------------------------------------------------
(* The edges *)

(* A node at a slot the checks allow keeps its edges with the placed ones. *)
LEMMA PlacingKeepsEdges ==
  ASSUME EdgesTyped, NEW at, Assigned(at), KeepsEdges(at),
         NEW i \in Nodes, NEW s \in 0 .. SlotBound, EdgeOk(at, i, s)
  PROVE  KeepsEdges([at EXCEPT ![i] = s])
<1> DEFINE now == [at EXCEPT ![i] = s]
<1>1. SUFFICES ASSUME NEW e \in edges, Placed(now, e[1]), Placed(now, e[2])
               PROVE  now[e[2]] - now[e[1]] >= Gap(e)
  BY DEF KeepsEdges
<1>2. e[1] \in Nodes /\ e[2] \in Nodes /\ e[1] # e[2]
  BY DEF EdgesTyped
<1>3. now[i] = s /\ \A j \in Nodes \ {i} : now[j] = at[j] /\ (Placed(now, j) <=> Placed(at, j))
  BY DEF Assigned, Placed
<1>4. CASE e[2] = i
  BY <1>1, <1>2, <1>3, <1>4 DEF EdgeOk
<1>5. CASE e[1] = i
  BY <1>1, <1>2, <1>3, <1>5 DEF EdgeOk
<1>6. CASE e[1] # i /\ e[2] # i
  BY <1>1, <1>2, <1>3, <1>6 DEF KeepsEdges
<1> QED
  BY <1>4, <1>5, <1>6

LEMMA RemovingKeepsEdges ==
  ASSUME EdgesTyped, Assigned(slot), KeepsEdges(slot), NEW b \in Nodes
  PROVE  KeepsEdges(Without(b))
BY DEF KeepsEdges, EdgesTyped, Without, Assigned, Placed

-----------------------------------------------------------------------------
(* The steps *)

(* Both at once, for a node put at a slot that fits. *)
LEMMA Fitting ==
  ASSUME loop \in Loops, ii \in Nat \ {0}, EdgesTyped,
         NEW at, Assigned(at), KeepsEdges(at), NEW held, Mirrors(at, held),
         NEW i \in Nodes, Lane(i) # "none", ~Placed(at, i), NEW s \in FirstFit(at, held, i)
  PROVE  /\ s \in 0 .. SlotBound
         /\ Assigned([at EXCEPT ![i] = s])
         /\ KeepsEdges([at EXCEPT ![i] = s])
         /\ Mirrors([at EXCEPT ![i] = s], Reserve(held, i, s))
<1>1. s \in 0 .. SlotBound /\ CanReserve(held, i, s) /\ EdgeOk(at, i, s)
  BY DEF FirstFit, Fits, Window
<1>2. Assigned([at EXCEPT ![i] = s])
  BY <1>1 DEF Assigned, Slots
<1>3. KeepsEdges([at EXCEPT ![i] = s])
  BY <1>1, PlacingKeepsEdges
<1>4. Mirrors([at EXCEPT ![i] = s], Reserve(held, i, s))
  BY <1>1, ReserveMirrors
<1> QED
  BY <1>1, <1>2, <1>3, <1>4

(* With the asked node taken out, everything holds of what is left. *)
LEMMA Removed ==
  ASSUME loop \in Loops, ii \in Nat \ {0}, EdgesTyped,
         Assigned(slot), KeepsEdges(slot), Mirrors(slot, table),
         NEW b \in Nodes, Placed(slot, b), Lane(b) # "none"
  PROVE  /\ Assigned(Without(b)) /\ ~Placed(Without(b), b)
         /\ KeepsEdges(Without(b))
         /\ Mirrors(Without(b), Release(table, b, slot[b]))
<1>1. Assigned(Without(b)) /\ ~Placed(Without(b), b)
  BY DEF Without, Assigned, Slots, Placed
<1>2. KeepsEdges(Without(b))
  BY RemovingKeepsEdges
<1>3. Mirrors([slot EXCEPT ![b] = Unplaced], Release(table, b, slot[b]))
  BY ReleaseMirrors
<1> QED
  BY <1>1, <1>2, <1>3 DEF Without

(* Put back where it was, the node leaves the assignment as it was. *)
LEMMA PutBack ==
  ASSUME loop \in Loops, ii \in Nat \ {0}, NEW b \in Nodes, Lane(b) # "none",
         Assigned(slot), Placed(slot, b), Mirrors(slot, table),
         NEW held, Mirrors(Without(b), held)
  PROVE  Mirrors(slot, Reserve(held, b, slot[b]))
<1>1. CanReserve(held, b, slot[b])
  BY Restorable
<1>2. slot[b] \in 0 .. SlotBound
  BY DEF Assigned, Slots, Placed
<1>3. Assigned(Without(b)) /\ ~Placed(Without(b), b)
  BY DEF Without, Assigned, Slots, Placed
<1>4. Mirrors([Without(b) EXCEPT ![b] = slot[b]], Reserve(held, b, slot[b]))
  BY <1>1, <1>2, <1>3, ReserveMirrors
<1>5. [Without(b) EXCEPT ![b] = slot[b]] = slot
  BY DEF Without, Assigned
<1> QED
  BY <1>4, <1>5

LEMMA InitInv == Init => Inv
<1>1. SUFFICES ASSUME Init PROVE Inv
  OBVIOUS
<1>2. loop \in Loops /\ edges = Edges(loop, FALSE) /\ ii = first /\ first \in Nat \ {0}
  BY <1>1, BoundAssumption DEF Init
<1>3. slot = [i \in Nodes |-> Unplaced] /\ table = EmptyTable(ii)
  BY <1>1 DEF Init, Nodes
<1>4. EdgesTyped
  <2>1. SUFFICES ASSUME NEW e \in edges
                 PROVE  /\ e[1] \in Nodes /\ e[2] \in Nodes /\ e[1] # e[2]
                        /\ e[3] \in Nat
                        /\ Lane(e[1]) # "none" /\ Lane(e[2]) # "none"
    BY DEF EdgesTyped
  <2>2. PICK i \in Nodes, j \in Nodes : \E l \in Demands(loop, FALSE, i, j) : e = <<i, j, l>>
    <3>1. PICK i \in Nodes : e \in From(loop, FALSE, i)
      BY <1>2, <2>1 DEF Edges, Nodes
    <3>2. PICK j \in Nodes : e \in Between(loop, FALSE, i, j)
      BY <3>1 DEF From, Nodes
    <3> QED
      BY <3>2 DEF Between
  <2>3. PICK l \in Demands(loop, FALSE, i, j) : e = <<i, j, l>>
    BY <2>2
  <2>4. /\ i # j /\ l \in Nat
        /\ ~(loop[i].pipe = "none" /\ loop[i].unit = "none")
        /\ ~(loop[j].pipe = "none" /\ loop[j].unit = "none")
    BY <1>2, DemandsTyped DEF Nodes
  <2> QED
    BY <2>3, <2>4 DEF Lane
<1>5. TypeOK
  <2>1. slot \in [Nodes -> {Unplaced} \cup 0 .. SlotBound]
    BY <1>3
  <2>2. table \in [Lanes -> [0 .. ii - 1 -> {Free} \cup Nodes]]
    BY <1>3 DEF EmptyTable
  <2>3. /\ visited = {} /\ asked = {} /\ spent = 0 /\ maxStage = 0 /\ phase = "place"
    BY <1>1 DEF Init
  <2> QED
    BY <1>2, <2>1, <2>2, <2>3 DEF TypeOK
<1>6. KeepsEdges(slot)
  BY <1>3, <1>4 DEF KeepsEdges, EdgesTyped, Placed
<1>7. Mirrors(slot, table)
  <2>1. table \in [Lanes -> [0 .. ii - 1 -> Owners]]
    BY <1>5 DEF TypeOK, Owners
  <2>2. ASSUME NEW l \in Lanes, NEW c \in 0 .. ii - 1, NEW i \in Nodes
        PROVE  table[l][c] # i /\ ~Placed(slot, i)
    <3>1. i # Free
      BY <1>2, BodyTyped DEF Free, Nodes
    <3> QED
      BY <1>3, <3>1 DEF EmptyTable, Placed
  <2> QED
    BY <2>1, <2>2 DEF Mirrors
<1>8. Unvisited
  BY <1>3 DEF Unvisited, Placed
<1> QED
  BY <1>4, <1>5, <1>6, <1>7, <1>8 DEF Inv

(* A step within one interval keeps the invariant when it keeps the two      *)
(* halves of it about the slots.                                             *)
LEMMA Carried ==
  ASSUME Inv, UNCHANGED <<loop, edges, first, ii>>,
         Assigned(slot'), KeepsEdges(slot'), Mirrors(slot', table'),
         visited' \subseteq Nodes, asked' \subseteq Nodes,
         spent' \in Nat, maxStage' \in Nat,
         phase' \in {"place", "evict", "done", "failed"},
         phase' = "place" => \A i \in Nodes \ visited' : ~Placed(slot', i)
  PROVE  Inv'
<1>1. Nodes' = Nodes /\ \A i : Lane(i)' = Lane(i) /\ \A s : Cells(i, s)' = Cells(i, s)
  BY DEF Nodes, Lane, Cells
<1>2. \A e : Gap(e)' = Gap(e)
  BY DEF Gap
<1>3. table' \in [Lanes -> [0 .. ii - 1 -> Owners]]
  BY DEF Mirrors
<1>4. TypeOK'
  BY <1>1, <1>3 DEF Inv, TypeOK, Assigned, Slots, Owners
<1>5. EdgesTyped'
  BY <1>1 DEF Inv, EdgesTyped
<1>6. KeepsEdges(slot)'
  BY <1>2 DEF KeepsEdges, Placed
<1>7. Mirrors(slot, table)'
  BY <1>1, <1>3 DEF Mirrors, Placed, Owners
<1>8. Unvisited'
  BY <1>1 DEF Unvisited, Placed
<1> QED
  BY <1>4, <1>5, <1>6, <1>7, <1>8 DEF Inv

(* What a step starts from. *)
LEMMA Given ==
  ASSUME Inv
  PROVE  /\ loop \in Loops /\ ii \in Nat \ {0} /\ EdgesTyped
         /\ Assigned(slot) /\ KeepsEdges(slot) /\ Mirrors(slot, table)
         /\ visited \subseteq Nodes /\ asked \subseteq Nodes
         /\ spent \in Nat /\ maxStage \in Nat
BY DEF Inv, TypeOK, Assigned, Slots

(* The first pass. *)
LEMMA PassInv ==
  ASSUME Inv, NEW i \in Nodes, PlaceNop(i) \/ PlaceNode(i) \/ LeaveNode(i)
  PROVE  Inv'
<1>1. /\ Visit(i)
      /\ UNCHANGED <<loop, edges, first, ii, asked, spent, phase>>
  BY DEF PlaceNop, PlaceNode, LeaveNode
<1>2. /\ phase = "place" /\ i \notin visited /\ visited' = visited \cup {i}
      /\ \A j \in Nodes \ visited : ~Placed(slot, j)
  BY <1>1 DEF Visit, Foremost, Inv, Unvisited
<1>3. ASSUME Assigned(slot'), KeepsEdges(slot'), Mirrors(slot', table'), maxStage' \in Nat,
             \A j \in Nodes \ {i} : slot'[j] = slot[j]
      PROVE  Inv'
  BY <1>1, <1>2, <1>3, Given, Carried DEF Placed
<1>4. CASE PlaceNop(i)
  <2> DEFINE s == priority.asap[i]
  <2>1. /\ Lane(i) = "none" /\ s \in 0 .. SlotBound
        /\ slot' = [slot EXCEPT ![i] = s] /\ table' = table
        /\ maxStage' = Higher(maxStage, s)
    BY <1>4 DEF PlaceNop
  <2> HIDE DEF s
  <2>2. Assigned(slot') /\ slot'[i] = s /\ \A j \in Nodes \ {i} : slot'[j] = slot[j]
    BY <2>1, Given DEF Assigned, Slots
  <2>3. KeepsEdges(slot')
    BY <2>1, <2>2, Given DEF KeepsEdges, EdgesTyped, Placed
  <2>4. Mirrors(slot', table')
    <3>1. table' \in [Lanes -> [0 .. ii - 1 -> Owners]]
      BY <2>1, Given DEF Mirrors
    <3>2. ASSUME NEW l \in Lanes, NEW c \in 0 .. ii - 1, NEW j \in Nodes
          PROVE  (table'[l][c] = j) <=> (Placed(slot', j) /\ Lane(j) = l /\ c \in Cells(j, slot'[j]))
      <4>1. (table[l][c] = j) <=> (Placed(slot, j) /\ Lane(j) = l /\ c \in Cells(j, slot[j]))
        BY Given DEF Mirrors
      <4>2. Lane(i) # l
        BY <2>1 DEF Lanes
      <4> QED
        BY <2>1, <2>2, <4>1, <4>2 DEF Placed
    <3> QED
      BY <3>1, <3>2 DEF Mirrors
  <2>5. maxStage' \in Nat
    BY <2>1, Given, StageTyped, MaxTyped DEF Higher
  <2> QED
    BY <1>3, <2>2, <2>3, <2>4, <2>5
<1>5. CASE PlaceNode(i)
  <2>1. PICK s \in FirstFit(slot, table, i) :
          /\ slot' = [slot EXCEPT ![i] = s]
          /\ table' = Reserve(table, i, s)
          /\ maxStage' = Higher(maxStage, s)
    BY <1>5 DEF PlaceNode
  <2>2. Lane(i) # "none" /\ ~Placed(slot, i)
    BY <1>2, <1>5 DEF PlaceNode
  <2>3. /\ s \in 0 .. SlotBound
        /\ Assigned([slot EXCEPT ![i] = s])
        /\ KeepsEdges([slot EXCEPT ![i] = s])
        /\ Mirrors([slot EXCEPT ![i] = s], Reserve(table, i, s))
    BY <2>2, Given, Fitting
  <2>4. \A j \in Nodes \ {i} : slot'[j] = slot[j]
    BY <2>1, Given DEF Assigned
  <2>5. maxStage' \in Nat
    BY <2>1, <2>3, Given, StageTyped, MaxTyped DEF Higher
  <2> QED
    BY <1>3, <2>1, <2>3, <2>4, <2>5
<1>6. CASE LeaveNode(i)
  BY <1>3, <1>6, Given DEF LeaveNode
<1> QED
  BY <1>4, <1>5, <1>6

(* The backtracking: f is unplaced, b is asked to move. *)
LEMMA AskInv ==
  ASSUME Inv, NEW f \in Nodes, NEW b \in Nodes, Unhelpful(f, b) \/ Exchange(f, b) \/ Revert(f, b)
  PROVE  Inv'
<1> DEFINE free == Release(table, b, slot[b])
<1>1. Ask(f, b) /\ UNCHANGED <<loop, edges, first, ii, phase>>
  BY DEF Unhelpful, Exchange, Revert
<1>2. /\ phase = "evict" /\ spent' = spent + 1
      /\ ~Placed(slot, f) /\ Lane(f) # "none"
      /\ b # f /\ Placed(slot, b) /\ Lane(b) = Lane(f)
  BY <1>1 DEF Ask, Seeking, Foremost, Rivals
<1>3. ASSUME Assigned(slot'), KeepsEdges(slot'), Mirrors(slot', table'), maxStage' \in Nat,
             visited' \subseteq Nodes, asked' \subseteq Nodes
      PROVE  Inv'
  BY <1>1, <1>2, <1>3, Given, Carried
<1>4. /\ Assigned(Without(b)) /\ ~Placed(Without(b), b) /\ ~Placed(Without(b), f)
      /\ KeepsEdges(Without(b))
      /\ Mirrors(Without(b), free)
  <2>1. ~Placed(Without(b), f)
    BY <1>2, Given DEF Without, Assigned, Placed
  <2> QED
    BY <1>2, <2>1, Given, Removed
<1>5. ASSUME NEW s \in Openings(f, b)
      PROVE  /\ s \in 0 .. SlotBound
             /\ Assigned(WithTaken(f, b, s))
             /\ ~Placed(WithTaken(f, b, s), b) /\ Placed(WithTaken(f, b, s), f)
             /\ WithTaken(f, b, s)[f] = s
             /\ KeepsEdges(WithTaken(f, b, s))
             /\ Mirrors(WithTaken(f, b, s), TableTaken(f, b, s))
  <2>1. /\ s \in 0 .. SlotBound
        /\ Assigned([Without(b) EXCEPT ![f] = s])
        /\ KeepsEdges([Without(b) EXCEPT ![f] = s])
        /\ Mirrors([Without(b) EXCEPT ![f] = s], Reserve(free, f, s))
    BY <1>2, <1>4, <1>5, Given, Fitting DEF Openings
  <2>2. /\ ~Placed(WithTaken(f, b, s), b) /\ Placed(WithTaken(f, b, s), f)
        /\ WithTaken(f, b, s)[f] = s
    BY <1>2, <1>4, <2>1, BoundAssumption DEF WithTaken, Assigned, Placed, Unplaced
  <2> QED
    BY <2>1, <2>2 DEF WithTaken, TableTaken
<1>6. CASE Exchange(f, b)
  <2>1. PICK s \in Openings(f, b) :
          \E r \in FirstFit(WithTaken(f, b, s), TableTaken(f, b, s), b) :
            /\ slot' = [slot EXCEPT ![f] = s, ![b] = r]
            /\ table' = Reserve(TableTaken(f, b, s), b, r)
            /\ maxStage' = Max({maxStage, Stage(s), Stage(r)})
    BY <1>6 DEF Exchange
  <2>2. PICK r \in FirstFit(WithTaken(f, b, s), TableTaken(f, b, s), b) :
            /\ slot' = [slot EXCEPT ![f] = s, ![b] = r]
            /\ table' = Reserve(TableTaken(f, b, s), b, r)
            /\ maxStage' = Max({maxStage, Stage(s), Stage(r)})
    BY <2>1
  <2>3. /\ r \in 0 .. SlotBound
        /\ Assigned([WithTaken(f, b, s) EXCEPT ![b] = r])
        /\ KeepsEdges([WithTaken(f, b, s) EXCEPT ![b] = r])
        /\ Mirrors([WithTaken(f, b, s) EXCEPT ![b] = r], Reserve(TableTaken(f, b, s), b, r))
    BY <1>2, <1>5, Given, Fitting
  <2>4. slot' = [WithTaken(f, b, s) EXCEPT ![b] = r]
    BY <1>2, <2>2, Given DEF WithTaken, Without, Assigned
  <2>5. maxStage' \in Nat
    <3>1. s \in Nat /\ r \in Nat /\ maxStage \in Nat
      BY <1>5, <2>3, Given
    <3>2. Stage(s) \in Nat /\ Stage(r) \in Nat
      BY <3>1, Given, StageTyped
    <3>3. Max({maxStage, Stage(s), Stage(r)}) \in Nat
      BY <3>1, <3>2, MaxTyped
    <3> QED
      BY <2>2, <3>3
  <2>6. visited' \subseteq Nodes /\ asked' \subseteq Nodes
    BY <1>6, Given DEF Exchange
  <2> QED
    BY <1>3, <2>2, <2>3, <2>4, <2>5, <2>6
<1>7. CASE Unhelpful(f, b)
  <2>1. /\ table' = Reserve(free, b, slot[b])
        /\ asked' = asked \cup {b} /\ UNCHANGED <<slot, visited, maxStage>>
    BY <1>7 DEF Unhelpful
  <2>2. Mirrors(slot, Reserve(free, b, slot[b]))
    BY <1>2, <1>4, Given, PutBack
  <2> QED
    BY <1>3, <2>1, <2>2, Given
<1>8. CASE Revert(f, b)
  <2>1. PICK s \in Openings(f, b) :
          table' = Reserve(Release(TableTaken(f, b, s), f, s), b, slot[b])
    BY <1>8 DEF Revert
  <2>2. asked' = asked \cup {b} /\ UNCHANGED <<slot, visited, maxStage>>
    BY <1>8 DEF Revert
  <2> DEFINE at == WithTaken(f, b, s)
             back == Release(TableTaken(f, b, s), f, s)
  <2>3. Mirrors([at EXCEPT ![f] = Unplaced], back)
    <3>1. at[f] = s /\ Assigned(at) /\ Placed(at, f) /\ Mirrors(at, TableTaken(f, b, s))
      BY <1>5
    <3> HIDE DEF at
    <3> QED
      BY <1>2, <3>1, Given, ReleaseMirrors
  <2>4. [at EXCEPT ![f] = Unplaced] = Without(b)
    BY <1>2, <1>4 DEF WithTaken, Assigned, Placed
  <2>5. Mirrors(slot, Reserve(back, b, slot[b]))
    <3> HIDE DEF back
    <3> QED
      BY <1>2, <2>3, <2>4, Given, PutBack
  <2> QED
    BY <1>3, <2>1, <2>2, <2>5, Given
<1> QED
  BY <1>6, <1>7, <1>8

(* A wider interval starts from nothing. *)
LEMMA BumpInv ==
  ASSUME Inv, Bump
  PROVE  Inv'
<1>1. /\ UNCHANGED <<loop, edges, first>>
      /\ ii' = ii + 1 /\ slot' = [i \in Nodes |-> Unplaced] /\ table' = EmptyTable(ii')
      /\ visited' = {} /\ asked' = {} /\ spent' = 0 /\ maxStage' = 0 /\ phase' = "place"
  BY DEF Bump
<1>2. Nodes' = Nodes /\ \A i : Lane(i)' = Lane(i)
  BY <1>1 DEF Nodes, Lane
<1>3. ii' \in Nat \ {0} /\ loop \in Loops
  BY <1>1 DEF Inv, TypeOK
<1>4. table' \in [Lanes -> [0 .. ii' - 1 -> {Free} \cup Nodes]]
  BY <1>1 DEF EmptyTable
<1>5. TypeOK'
  BY <1>1, <1>2, <1>3, <1>4 DEF Inv, TypeOK
<1>6. Unvisited'
  BY <1>1, <1>2 DEF Unvisited, Placed
<1>7. EdgesTyped'
  BY <1>1, <1>2 DEF Inv, EdgesTyped
<1>8. \A i \in Nodes : ~Placed(slot', i)
  BY <1>1 DEF Placed
<1>9. KeepsEdges(slot)'
  BY <1>2, <1>7, <1>8 DEF KeepsEdges, EdgesTyped, Placed
<1>10. Mirrors(slot, table)'
  <2>1. table' \in [Lanes -> [0 .. ii' - 1 -> Owners']]
    BY <1>2, <1>4 DEF Owners
  <2>2. ASSUME NEW l \in Lanes, NEW c \in 0 .. ii' - 1, NEW i \in Nodes
        PROVE  table'[l][c] # i
    <3>1. i # Free
      BY <1>3, BodyTyped DEF Free, Nodes
    <3> QED
      BY <1>1, <3>1 DEF EmptyTable
  <2> QED
    BY <1>2, <1>8, <2>1, <2>2 DEF Mirrors, Placed
<1> QED
  BY <1>5, <1>6, <1>7, <1>9, <1>10 DEF Inv

LEMMA NextInv == Inv /\ [Next]_vars => Inv'
<1> SUFFICES ASSUME Inv, [Next]_vars PROVE Inv'
  OBVIOUS
<1>1. ASSUME UNCHANGED <<loop, edges, first, ii, slot, table>>,
             UNCHANGED <<maxStage, spent>>,
             visited' \subseteq Nodes, asked' \subseteq Nodes,
             phase' \in {"place", "evict", "done", "failed"},
             phase' = "place" => UNCHANGED <<visited, phase>>
      PROVE  Inv'
  <2>1. phase' = "place" => \A i \in Nodes \ visited' : ~Placed(slot', i)
    BY <1>1 DEF Inv, Unvisited
  <2> QED
    BY <1>1, <2>1, Given, Carried
<1>2. CASE \E i \in Nodes : PlaceNop(i) \/ PlaceNode(i) \/ LeaveNode(i)
  BY <1>2, PassInv
<1>3. CASE EndPass
  BY <1>1, <1>3, Given DEF EndPass
<1>4. CASE \E f, b \in Nodes : Unhelpful(f, b) \/ Exchange(f, b) \/ Revert(f, b)
  BY <1>4, AskInv
<1>5. ASSUME NEW f \in Nodes, GiveUp(f)
      PROVE  Inv'
  BY <1>1, <1>5, Given DEF GiveUp, Seeking
<1>6. CASE Recovered
  BY <1>1, <1>6, Given DEF Recovered
<1>7. CASE Bump
  BY <1>7, BumpInv
<1>8. CASE Fail
  BY <1>1, <1>8, Given DEF Fail
<1>9. CASE Terminated \/ UNCHANGED vars
  BY <1>1, <1>9, Given DEF Terminated, vars, Inv, TypeOK
<1> QED
  BY <1>2, <1>3, <1>4, <1>5, <1>6, <1>7, <1>8, <1>9 DEF Next

THEOREM InvAlways == Spec => []Inv
<1>1. Inv /\ [Next]_vars => Inv'
  BY NextInv
<1>2. Init => Inv
  BY InitInv
<1> QED
  BY <1>1, <1>2, PTL DEF Spec

(* The slots, the table and the counters keep their types: a slot the        *)
(* backtracking gives or puts back lies within the window.                   *)
THEOREM PlacementTyped == Spec => []TypeOK
<1>1. Inv => TypeOK
  BY DEF Inv
<1> QED
  BY <1>1, InvAlways, PTL

(* Any two placed nodes are as far apart as their edge asks: after every     *)
(* placement, exchange and restoration, for every loop.                      *)
THEOREM EdgesAlwaysHold == Spec => []EdgesHold
<1>1. Inv => EdgesHold
  BY DEF Inv, KeepsEdges, EdgesHold
<1> QED
  BY <1>1, InvAlways, PTL

(* The reservation table says who holds which cycle, no more and no less:    *)
(* for every loop and every course of the backtracking.                      *)
THEOREM TableAlwaysTrue == Spec => []TableTrue
<1>1. Inv => TableTrue
  BY DEF Inv, Mirrors, TableTrue
<1> QED
  BY <1>1, InvAlways, PTL

-----------------------------------------------------------------------------
(* No stage is above the count. *)
StagesCounted == \A i \in Nodes : Placed(slot, i) => Stage(slot[i]) <= maxStage

LayoutInv ==
  /\ Inv
  /\ edges = Edges(loop, FALSE)
  /\ StagesCounted
  /\ phase = "done" => AllPlaced

(* The nodes that are in the plan. *)
Issued == {i \in Nodes : Lane(i) # "none"}

Laid ==
  /\ loop \in Loops
  /\ ii \in Nat \ {0}
  /\ maxStage \in Nat
  /\ slot \in [Nodes -> Nat]
  /\ edges = Edges(loop, FALSE)
  /\ KeepsEdges(slot)
  /\ \A i \in Nodes : StageOf(i) <= maxStage
  /\ \A i, j \in Issued : Lane(i) = Lane(j) /\ ModSlot(i) = ModSlot(j) => i = j

-----------------------------------------------------------------------------
(* The invariant of the placer *)

(* A maximum is above both. *)
LEMMA MaxAbove ==
  ASSUME NEW a \in Nat, NEW b \in Nat, NEW c \in Nat
  PROVE  /\ Max({a, b}) \in Nat /\ a <= Max({a, b}) /\ b <= Max({a, b})
         /\ Max({a, b, c}) \in Nat
         /\ a <= Max({a, b, c}) /\ b <= Max({a, b, c}) /\ c <= Max({a, b, c})
<1>1. \E x \in {a, b} : \A y \in {a, b} : x >= y
  <2>1. a >= b \/ b >= a
    OBVIOUS
  <2> QED
    BY <2>1
<1>2. \E x \in {a, b, c} : \A y \in {a, b, c} : x >= y
  <2>1. \/ a >= b /\ a >= c
        \/ b >= a /\ b >= c
        \/ c >= a /\ c >= b
    OBVIOUS
  <2> QED
    BY <2>1
<1> QED
  BY <1>1, <1>2 DEF Max

(* Init: no node is placed. *)
LEMMA LayoutInit == Init => LayoutInv
<1> SUFFICES ASSUME Init PROVE LayoutInv
  OBVIOUS
<1>1. Inv
  BY InitInv
<1>2. edges = Edges(loop, FALSE) /\ phase = "place"
  BY DEF Init
<1>3. \A i \in Nodes : ~Placed(slot, i)
  BY DEF Init, Nodes, Placed
<1> QED
  BY <1>1, <1>2, <1>3 DEF LayoutInv, StagesCounted

(* A step that keeps the interval, and places nodes only at slots whose       *)
(* stage the new count covers.                                                *)
LEMMA StagesCarried ==
  ASSUME LayoutInv, loop' = loop, ii' = ii, maxStage' \in Nat, maxStage <= maxStage',
         \A i \in Nodes : \/ slot'[i] = slot[i]
                          \/ Stage(slot'[i]) <= maxStage'
  PROVE  StagesCounted'
<1>1. Nodes' = Nodes
  BY DEF Nodes
<1>2. SUFFICES ASSUME NEW i \in Nodes, Placed(slot', i)
               PROVE  slot'[i] \div ii <= maxStage'
  BY <1>1 DEF StagesCounted, Stage, Placed
<1>3. CASE Stage(slot'[i]) <= maxStage'
  BY <1>3 DEF Stage
<1>4. CASE slot'[i] = slot[i]
  <2>1. Placed(slot, i) /\ slot[i] \in Nat
    BY <1>2, <1>4, BoundAssumption DEF Placed, LayoutInv, Inv, TypeOK
  <2>2. Stage(slot[i]) <= maxStage /\ Stage(slot[i]) \in Nat /\ maxStage \in Nat
    BY <2>1, StageTyped DEF LayoutInv, StagesCounted, Inv, TypeOK
  <2> QED
    BY <1>4, <2>2 DEF Stage
<1> QED
  BY <1>2, <1>3, <1>4

(* A node placed at s, or nowhere. *)
LEMMA PassStages ==
  ASSUME LayoutInv, NEW i \in Nodes, PlaceNop(i) \/ PlaceNode(i) \/ LeaveNode(i)
  PROVE  StagesCounted'
<1>1. /\ loop \in Loops /\ ii \in Nat \ {0} /\ maxStage \in Nat
      /\ slot \in [Nodes -> Slots]
  BY Given DEF LayoutInv, Assigned
<1>2. loop' = loop /\ ii' = ii
  BY DEF PlaceNop, PlaceNode, LeaveNode
<1>3. ASSUME NEW s \in 0 .. SlotBound, slot' = [slot EXCEPT ![i] = s],
             maxStage' = Higher(maxStage, s)
      PROVE  StagesCounted'
  <2>1. s \in Nat
    BY <1>3, BoundAssumption
  <2>2. Stage(s) \in Nat
    BY <1>1, <2>1, StageTyped
  <2>3. maxStage' \in Nat /\ maxStage <= maxStage' /\ Stage(s) <= maxStage'
    BY <1>1, <1>3, <2>2, MaxAbove DEF Higher
  <2>4. \A j \in Nodes : slot'[j] = slot[j] \/ slot'[j] = s
    BY <1>1, <1>3
  <2> QED
    BY <1>2, <2>3, <2>4, StagesCarried
<1>4. CASE PlaceNop(i)
  BY <1>3, <1>4 DEF PlaceNop
<1>5. CASE PlaceNode(i)
  <2>1. PICK s \in FirstFit(slot, table, i) :
          slot' = [slot EXCEPT ![i] = s] /\ maxStage' = Higher(maxStage, s)
    BY <1>5 DEF PlaceNode
  <2>2. s \in 0 .. SlotBound
    BY DEF FirstFit, Fits, Window
  <2> QED
    BY <1>3, <2>1, <2>2
<1>6. CASE LeaveNode(i)
  <2>1. slot' = slot /\ maxStage' = maxStage
    BY <1>6 DEF LeaveNode
  <2>2. maxStage' \in Nat /\ maxStage <= maxStage'
    BY <1>1, <2>1
  <2> QED
    BY <1>2, <2>1, <2>2, StagesCarried
<1> QED
  BY <1>4, <1>5, <1>6

(* Both slots of an exchange are counted; what is reverted changes none. *)
LEMMA AskStages ==
  ASSUME LayoutInv, NEW f \in Nodes, NEW b \in Nodes,
         Unhelpful(f, b) \/ Exchange(f, b) \/ Revert(f, b)
  PROVE  StagesCounted'
<1>1. /\ loop \in Loops /\ ii \in Nat \ {0} /\ maxStage \in Nat
      /\ slot \in [Nodes -> Slots]
  BY Given DEF LayoutInv, Assigned
<1>2. loop' = loop /\ ii' = ii
  BY DEF Unhelpful, Exchange, Revert
<1>3. CASE Exchange(f, b)
  <2>1. PICK s \in Openings(f, b) :
          \E r \in FirstFit(WithTaken(f, b, s), TableTaken(f, b, s), b) :
            /\ slot' = [slot EXCEPT ![f] = s, ![b] = r]
            /\ maxStage' = Max({maxStage, Stage(s), Stage(r)})
    BY <1>3 DEF Exchange
  <2>2. PICK r \in FirstFit(WithTaken(f, b, s), TableTaken(f, b, s), b) :
          /\ slot' = [slot EXCEPT ![f] = s, ![b] = r]
          /\ maxStage' = Max({maxStage, Stage(s), Stage(r)})
    BY <2>1
  <2>3. s \in 0 .. SlotBound /\ r \in 0 .. SlotBound
    BY DEF Openings, FirstFit, Fits, Window
  <2>4. Stage(s) \in Nat /\ Stage(r) \in Nat
    BY <1>1, <2>3, StageTyped, BoundAssumption
  <2>5. /\ maxStage' \in Nat /\ maxStage <= maxStage'
        /\ Stage(s) <= maxStage' /\ Stage(r) <= maxStage'
    BY <1>1, <2>2, <2>4, MaxAbove
  <2>6. \A j \in Nodes : slot'[j] = slot[j] \/ slot'[j] = s \/ slot'[j] = r
    BY <1>1, <2>2
  <2> QED
    BY <1>2, <2>5, <2>6, StagesCarried
<1>4. CASE Unhelpful(f, b) \/ Revert(f, b)
  <2>1. slot' = slot /\ maxStage' = maxStage
    BY <1>4 DEF Unhelpful, Revert
  <2>2. maxStage' \in Nat /\ maxStage <= maxStage'
    BY <1>1, <2>1
  <2> QED
    BY <1>2, <2>1, <2>2, StagesCarried
<1> QED
  BY <1>3, <1>4

(* Every step. *)
LEMMA LayoutNext == LayoutInv /\ [Next]_vars => LayoutInv'
<1> SUFFICES ASSUME LayoutInv, [Next]_vars PROVE LayoutInv'
  OBVIOUS
<1>1. Inv'
  BY NextInv DEF LayoutInv
<1>2. loop' = loop /\ edges' = edges
  BY DEF Next, vars, PlaceNop, PlaceNode, LeaveNode, EndPass, Unhelpful, Exchange, Revert,
         GiveUp, Recovered, Bump, Fail, Terminated
<1>3. edges' = Edges(loop', FALSE)
  BY <1>2 DEF LayoutInv
<1>4. maxStage \in Nat
  BY Given DEF LayoutInv
<1>5. ASSUME slot' = slot, ii' = ii, maxStage' = maxStage
      PROVE  StagesCounted'
  <2>1. maxStage' \in Nat /\ maxStage <= maxStage'
    BY <1>4, <1>5
  <2> QED
    BY <1>2, <1>5, <2>1, StagesCarried
<1>6. ASSUME StagesCounted', phase' = "done" => AllPlaced'
      PROVE  LayoutInv'
  BY <1>1, <1>3, <1>6 DEF LayoutInv
<1>7. ASSUME NEW i \in Nodes, PlaceNop(i) \/ PlaceNode(i) \/ LeaveNode(i)
      PROVE  LayoutInv'
  <2>1. phase' = "place"
    BY <1>7 DEF PlaceNop, PlaceNode, LeaveNode, Visit
  <2> QED
    BY <1>6, <1>7, <2>1, PassStages
<1>8. ASSUME NEW f \in Nodes, NEW b \in Nodes, Unhelpful(f, b) \/ Exchange(f, b) \/ Revert(f, b)
      PROVE  LayoutInv'
  <2>1. phase' = "evict"
    BY <1>8 DEF Unhelpful, Exchange, Revert, Ask, Seeking
  <2> QED
    BY <1>6, <1>8, <2>1, AskStages
<1>9. ASSUME NEW f \in Nodes, GiveUp(f)
      PROVE  LayoutInv'
  <2>1. phase' = "evict" /\ slot' = slot /\ ii' = ii /\ maxStage' = maxStage
    BY <1>9 DEF GiveUp, Seeking
  <2> QED
    BY <1>5, <1>6, <2>1
<1>10. CASE EndPass
  <2>1. /\ slot' = slot /\ ii' = ii /\ maxStage' = maxStage
        /\ phase' = "done" => AllPlaced
    BY <1>10 DEF EndPass
  <2>2. AllPlaced' <=> AllPlaced
    BY <1>2, <2>1 DEF AllPlaced, Nodes, Placed
  <2> QED
    BY <1>5, <1>6, <2>1, <2>2
<1>11. CASE Recovered
  <2>1. slot' = slot /\ ii' = ii /\ maxStage' = maxStage /\ AllPlaced
    BY <1>11 DEF Recovered
  <2>2. AllPlaced' <=> AllPlaced
    BY <1>2, <2>1 DEF AllPlaced, Nodes, Placed
  <2> QED
    BY <1>5, <1>6, <2>1, <2>2
<1>12. CASE Bump
  <2>1. phase' = "place" /\ slot' = [i \in Nodes |-> Unplaced]
    BY <1>12 DEF Bump
  <2>2. StagesCounted'
    BY <1>2, <2>1 DEF StagesCounted, Placed, Nodes
  <2> QED
    BY <1>6, <2>1, <2>2
<1>13. CASE Fail
  <2>1. phase' = "failed" /\ slot' = slot /\ ii' = ii /\ maxStage' = maxStage
    BY <1>13 DEF Fail
  <2> QED
    BY <1>5, <1>6, <2>1
<1>14. CASE UNCHANGED vars
  <2>1. slot' = slot /\ ii' = ii /\ maxStage' = maxStage /\ phase' = phase
    BY <1>14 DEF vars
  <2>2. AllPlaced' <=> AllPlaced
    BY <1>2, <2>1 DEF AllPlaced, Nodes, Placed
  <2> QED
    BY <1>5, <1>6, <2>1, <2>2 DEF LayoutInv
<1> QED
  BY <1>7, <1>8, <1>9, <1>10, <1>11, <1>12, <1>13, <1>14 DEF Next, Terminated

(* What a finished search leaves behind. *)
LEMMA LayoutLaid ==
  ASSUME LayoutInv, phase = "done"
  PROVE  Laid
<1>1. /\ loop \in Loops /\ ii \in Nat \ {0} /\ maxStage \in Nat
      /\ slot \in [Nodes -> Slots] /\ KeepsEdges(slot) /\ Mirrors(slot, table)
  BY Given DEF LayoutInv, Assigned
<1>2. \A i \in Nodes : Placed(slot, i)
  BY DEF LayoutInv, AllPlaced
<1>3. \A i \in Nodes : slot[i] \in Nat
  BY <1>1, <1>2, BoundAssumption DEF Placed, Slots
<1>4. slot \in [Nodes -> Nat]
  BY <1>1, <1>3
<1>5. \A i \in Nodes : StageOf(i) <= maxStage
  BY <1>2 DEF LayoutInv, StagesCounted, StageOf
<1>6. ASSUME NEW i \in Issued, NEW j \in Issued, Lane(i) = Lane(j), ModSlot(i) = ModSlot(j)
      PROVE  i = j
  <2>1. \A k \in Issued : k \in Nodes /\ Lane(k) \in Lanes
    BY <1>1, LaneTyped DEF Issued
  <2>2. ASSUME NEW k \in Issued
        PROVE  ModSlot(k) \in Cells(k, slot[k]) /\ ModSlot(k) \in 0 .. ii - 1
    <3>1. loop[k].duration \in Nat \ {0} /\ slot[k] \in Nat
      BY <1>1, <1>3, <2>1, BodyTyped DEF Nodes, Node
    <3>2. Min({loop[k].duration, ii}) \in Nat \ {0}
      BY <1>1, <3>1 DEF Min
    <3>3. 0 \in 0 .. Min({loop[k].duration, ii}) - 1 /\ (slot[k] + 0) % ii = slot[k] % ii
      BY <3>1, <3>2
    <3>4. ModSlot(k) \in Cells(k, slot[k])
      BY <3>3 DEF Cells, ModSlot
    <3> QED
      BY <1>1, <2>1, <3>1, <3>4, CellsTyped
  <2>3. table[Lane(i)][ModSlot(i)] = i
    BY <1>1, <1>2, <2>1, <2>2 DEF Mirrors
  <2>4. table[Lane(j)][ModSlot(j)] = j
    BY <1>1, <1>2, <2>1, <2>2 DEF Mirrors
  <2> QED
    BY <1>6, <2>3, <2>4
<1> QED
  BY <1>1, <1>4, <1>5, <1>6 DEF Laid, LayoutInv

-----------------------------------------------------------------------------
(* Where a node of a turn is issued *)

(* A slot is a stage and a cycle of the kernel. *)
LEMMA SlotSplit ==
  ASSUME NEW n \in Nat \ {0}, NEW a \in Nat
  PROVE  /\ a \div n \in Nat /\ a % n \in Nat /\ a % n < n
         /\ a = n * (a \div n) + (a % n)
OBVIOUS

(* Slots less than a turn apart lie in one stage or in two that follow. *)
LEMMA NearSlots ==
  ASSUME NEW n \in Nat \ {0}, NEW a \in Nat, NEW b \in Nat, b - a >= 1, a - b >= 1 - n
  PROVE  \/ b \div n = a \div n /\ a % n < b % n
         \/ b \div n = a \div n + 1 /\ b % n < a % n
<1> DEFINE d == b \div n - a \div n
<1>1. /\ a \div n \in Nat /\ a % n \in Nat /\ a % n < n
      /\ b \div n \in Nat /\ b % n \in Nat /\ b % n < n
      /\ a = n * (a \div n) + (a % n)
      /\ b = n * (b \div n) + (b % n)
  BY SlotSplit
<1>2. d \in Int
  BY <1>1
<1>3. n * d = n * (b \div n) - n * (a \div n)
  BY <1>1
<1>4. n * d = (b - a) - ((b % n) - (a % n))
  BY <1>1, <1>3
<1>5. n * d > -n /\ n * d < 2 * n
  BY <1>1, <1>4
<1>6. ~(d >= 2)
  <2>1. ASSUME d >= 2 PROVE n * d >= n * 2
    BY <1>2, <2>1
  <2> QED
    BY <1>5, <2>1
<1>7. ~(d <= -1)
  <2>1. ASSUME d <= -1 PROVE n * d <= n * (-1)
    BY <1>2, <2>1
  <2> QED
    BY <1>5, <2>1
<1>8. d = 0 \/ d = 1
  BY <1>2, <1>6, <1>7
<1>9. CASE d = 0
  <2>1. n * d = 0 /\ b \div n = a \div n
    BY <1>1, <1>9
  <2> QED
    BY <1>1, <1>4, <2>1
<1>10. CASE d = 1
  <2>1. n * d = n /\ b \div n = a \div n + 1
    BY <1>1, <1>10
  <2> QED
    BY <1>1, <1>4, <2>1
<1> QED
  BY <1>8, <1>9, <1>10

(* The place of a node in the row. *)
LaneNo(i) == CHOOSE n \in DOMAIN LaneOrder : LaneOrder[n] = Lane(i)

(* Node i of turn t in a plan. *)
At(i, t) == [copy |-> StageOf(i) + t, cycle |-> ModSlot(i), lane |-> LaneNo(i), node |-> i]

(* The stages at work in copy p of a plan that runs the kernel k times. *)
Working(k, p) == {i \in Nodes : StageOf(i) <= p - 1 /\ p - Turns(k) <= StageOf(i)}

(* Both are numbers, the cycle one of the kernel's. *)
LEMMA LaidTyped ==
  ASSUME Laid, NEW i \in Nodes
  PROVE  /\ StageOf(i) \in Nat /\ ModSlot(i) \in 0 .. ii - 1
         /\ StageOf(i) <= maxStage
<1>1. slot[i] \in Nat /\ ii \in Nat \ {0} /\ StageOf(i) <= maxStage
  BY DEF Laid
<1> QED
  BY <1>1, SlotSplit DEF StageOf, Stage, ModSlot

(* A lane has one place in the row. *)
LEMMA LaneNumbered ==
  ASSUME Laid, NEW i \in Issued
  PROVE  /\ LaneNo(i) \in DOMAIN LaneOrder
         /\ \A n \in DOMAIN LaneOrder : LaneOrder[n] = Lane(i) <=> n = LaneNo(i)
<1>1. Lane(i) \in {"upper", "lower", "fdiv", "efu"}
  BY LaneTyped DEF Laid, Issued, Lanes
<1>2. /\ DOMAIN LaneOrder = 1 .. 4
      /\ LaneOrder[1] = "upper" /\ LaneOrder[2] = "lower"
      /\ LaneOrder[3] = "fdiv" /\ LaneOrder[4] = "efu"
  BY DEF LaneOrder
<1>3. \E n \in DOMAIN LaneOrder : LaneOrder[n] = Lane(i)
  BY <1>1, <1>2
<1>4. LaneNo(i) \in DOMAIN LaneOrder /\ LaneOrder[LaneNo(i)] = Lane(i)
  BY <1>3 DEF LaneNo
<1>5. \A m, n \in 1 .. 4 : LaneOrder[m] = LaneOrder[n] => m = n
  BY <1>2
<1> QED
  BY <1>2, <1>4, <1>5

(* No two nodes share a cell: each is in it alone. *)
LEMMA CellHolds ==
  ASSUME Laid, NEW nodes \in SUBSET Nodes, NEW c \in 0 .. ii - 1, NEW n \in DOMAIN LaneOrder
  PROVE  Copy(nodes)[c][LaneOrder[n]] =
           {i \in nodes : i \in Issued /\ ModSlot(i) = c /\ LaneNo(i) = n}
<1>1. /\ DOMAIN LaneOrder = 1 .. 4
      /\ LaneOrder[1] = "upper" /\ LaneOrder[2] = "lower"
      /\ LaneOrder[3] = "fdiv" /\ LaneOrder[4] = "efu"
  BY DEF LaneOrder
<1>2. LaneOrder[n] \in Range(LaneOrder) /\ LaneOrder[n] # "none"
  BY <1>1 DEF Range
<1>3. Copy(nodes)[c][LaneOrder[n]] = Cell(nodes, c, LaneOrder[n])
  BY <1>2 DEF Copy, Row
<1>4. Sharing(nodes, c, LaneOrder[n]) =
        {i \in nodes : i \in Issued /\ ModSlot(i) = c /\ LaneNo(i) = n}
  <2>1. \A i \in nodes : Lane(i) = LaneOrder[n] <=> i \in Issued /\ LaneNo(i) = n
    BY <1>2, LaneNumbered DEF Issued
  <2> QED
    BY <2>1 DEF Sharing
<1>5. \A i, j \in Sharing(nodes, c, LaneOrder[n]) : i = j
  <2>1. \A i \in Sharing(nodes, c, LaneOrder[n]) :
          i \in Issued /\ Lane(i) = LaneOrder[n] /\ ModSlot(i) = c
    BY <1>4 DEF Sharing
  <2> QED
    BY <2>1 DEF Laid
<1>6. Cell(nodes, c, LaneOrder[n]) = Sharing(nodes, c, LaneOrder[n])
  BY <1>5 DEF Cell
<1> QED
  BY <1>3, <1>4, <1>6

(* Copy p of a plan, whether it leads in, repeats or leads out, is at work on *)
(* the stages whose turn is one of the loop's.                                *)
LEMMA PlanCopies ==
  ASSUME Laid, NEW k \in Nat
  PROVE  /\ DOMAIN Planned(k) = 1 .. 2 * maxStage + k
         /\ \A p \in 1 .. 2 * maxStage + k : Planned(k)[p] = Copy(Working(k, p))
<1> DEFINE Copies == {Copy(nodes) : nodes \in SUBSET Nodes}
           Mains == [m \in 1 .. k |-> Main]
<1>1. maxStage \in Nat /\ StageCount - 1 = maxStage /\ Turns(k) = maxStage + k
  BY DEF Laid, StageCount, Turns
<1>2. \A nodes \in SUBSET Nodes : Copy(nodes) \in Copies
  OBVIOUS
<1>3. /\ Prolog \in Seq(Copies) /\ Len(Prolog) = maxStage
      /\ \A p \in 1 .. maxStage : Prolog[p] = Copy({i \in Nodes : StageOf(i) <= p - 1})
  <2>1. Prolog = [p \in 1 .. maxStage |-> Copy({i \in Nodes : StageOf(i) <= p - 1})]
    BY <1>1 DEF Prolog
  <2>2. \A p \in 1 .. maxStage : {i \in Nodes : StageOf(i) <= p - 1} \in SUBSET Nodes
    OBVIOUS
  <2> HIDE DEF Copies
  <2> QED
    BY <1>1, <1>2, <2>1, <2>2
<1>4. Mains \in Seq(Copies) /\ Len(Mains) = k /\ \A p \in 1 .. k : Mains[p] = Copy(Nodes)
  <2>1. Copy(Nodes) \in Copies
    BY <1>2
  <2> HIDE DEF Copies
  <2> QED
    BY <2>1 DEF Main
<1>5. /\ Drain \in Seq(Copies) /\ Len(Drain) = maxStage
      /\ \A q \in 1 .. maxStage : Drain[q] = Copy({i \in Nodes : StageOf(i) >= q})
  <2>1. Drain = [q \in 1 .. maxStage |-> Copy({i \in Nodes : StageOf(i) >= q})]
    BY <1>1 DEF Drain
  <2>2. \A q \in 1 .. maxStage : {i \in Nodes : StageOf(i) >= q} \in SUBSET Nodes
    OBVIOUS
  <2> HIDE DEF Copies
  <2> QED
    BY <1>1, <1>2, <2>1, <2>2
<1> HIDE DEF Copies, Mains
<1>6. /\ Prolog \o Mains \in Seq(Copies)
      /\ Len(Prolog \o Mains) = maxStage + k
      /\ \A p \in 1 .. maxStage + k :
           (Prolog \o Mains)[p] = IF p <= maxStage THEN Prolog[p] ELSE Mains[p - maxStage]
  BY <1>3, <1>4, ConcatProperties
<1>7. Planned(k) = (Prolog \o Mains) \o Drain
  BY DEF Planned, Mains
<1>8. /\ Planned(k) \in Seq(Copies)
      /\ Len(Planned(k)) = (maxStage + k) + maxStage
      /\ \A p \in 1 .. (maxStage + k) + maxStage :
           Planned(k)[p] = IF p <= maxStage + k THEN (Prolog \o Mains)[p]
                           ELSE Drain[p - (maxStage + k)]
  <2> DEFINE lead == Prolog \o Mains
  <2>1. lead \in Seq(Copies) /\ Len(lead) = maxStage + k
    BY <1>6
  <2> HIDE DEF lead
  <2>2. /\ lead \o Drain \in Seq(Copies)
        /\ Len(lead \o Drain) = Len(lead) + Len(Drain)
        /\ \A p \in 1 .. Len(lead) + Len(Drain) :
             (lead \o Drain)[p] = IF p <= Len(lead) THEN lead[p] ELSE Drain[p - Len(lead)]
    BY <1>5, <2>1, ConcatProperties
  <2>3. /\ lead \o Drain \in Seq(Copies)
        /\ Len(lead \o Drain) = (maxStage + k) + maxStage
        /\ \A p \in 1 .. (maxStage + k) + maxStage :
             (lead \o Drain)[p] = IF p <= maxStage + k THEN lead[p] ELSE Drain[p - (maxStage + k)]
    BY <1>5, <2>1, <2>2, Zenon
  <2> QED
    BY <1>7, <2>3 DEF lead
<1>9. (maxStage + k) + maxStage = 2 * maxStage + k
  BY <1>1
<1>10. DOMAIN Planned(k) = 1 .. 2 * maxStage + k
  BY <1>8, <1>9
<1>11. ASSUME NEW p \in 1 .. 2 * maxStage + k
       PROVE  Planned(k)[p] = Copy(Working(k, p))
  <2>1. \A i \in Nodes : StageOf(i) \in 0 .. maxStage
    BY <1>1, LaidTyped
  <2>2. CASE p <= maxStage
    <3>1. Planned(k)[p] = Copy({i \in Nodes : StageOf(i) <= p - 1})
      <4>1. p \in 1 .. (maxStage + k) + maxStage /\ p <= maxStage + k /\ p \in 1 .. maxStage + k
        BY <1>1, <2>2
      <4>2. Planned(k)[p] = (Prolog \o Mains)[p]
        BY <1>8, <4>1, Zenon
      <4>3. (Prolog \o Mains)[p] = Prolog[p] /\ p \in 1 .. maxStage
        BY <1>1, <1>6, <2>2, <4>1
      <4> QED
        BY <1>3, <4>2, <4>3
    <3>2. {i \in Nodes : StageOf(i) <= p - 1} = Working(k, p)
      BY <1>1, <2>1, <2>2 DEF Working
    <3> QED
      BY <3>1, <3>2
  <2>3. CASE p > maxStage /\ p <= maxStage + k
    <3>1. p - maxStage \in 1 .. k
      BY <1>1, <2>3
    <3>2. Planned(k)[p] = (Prolog \o Mains)[p]
      <4>1. p \in 1 .. (maxStage + k) + maxStage /\ p <= maxStage + k
        BY <1>1, <2>3
      <4> QED
        BY <1>8, <4>1, Zenon
    <3>3. (Prolog \o Mains)[p] = Mains[p - maxStage]
      BY <1>1, <1>6, <2>3
    <3>4. Planned(k)[p] = Copy(Nodes)
      BY <1>4, <3>1, <3>2, <3>3
    <3>5. Nodes = Working(k, p)
      BY <1>1, <2>1, <2>3 DEF Working
    <3> QED
      BY <3>4, <3>5
  <2>4. CASE p > maxStage + k
    <3>1. p - (maxStage + k) \in 1 .. maxStage
      BY <1>1, <2>4
    <3>2. Planned(k)[p] = Drain[p - (maxStage + k)]
      <4>1. p \in 1 .. (maxStage + k) + maxStage /\ ~(p <= maxStage + k)
        BY <1>1, <2>4
      <4> QED
        BY <1>8, <4>1, Zenon
    <3>3. Planned(k)[p] = Copy({i \in Nodes : StageOf(i) >= p - (maxStage + k)})
      BY <1>5, <3>1, <3>2, Zenon
    <3>4. {i \in Nodes : StageOf(i) >= p - (maxStage + k)} = Working(k, p)
      BY <1>1, <2>1, <2>4 DEF Working
    <3> QED
      BY <3>3, <3>4
  <2> QED
    BY <1>1, <2>2, <2>3, <2>4
<1> QED
  BY <1>10, <1>11

(* A plan issues every node once a turn, in the copy that many stages after   *)
(* the one its turn begins with.                                              *)
LEMMA IssuesExactly ==
  ASSUME Laid, NEW k \in Nat
  PROVE  Issues(Planned(k)) = {At(i, t) : i \in Issued, t \in 1 .. Turns(k)}
<1> DEFINE Places == [copy : 1 .. 2 * maxStage + k, cycle : 0 .. ii - 1,
                   lane : DOMAIN LaneOrder, node : Nodes]
<1>1. maxStage \in Nat /\ Turns(k) = maxStage + k /\ Turns(k) \in Nat
  BY DEF Laid, StageCount, Turns
<1>2. \A x : x \in Issues(Planned(k)) <=>
        /\ x \in Places
        /\ x.node \in Planned(k)[x.copy][x.cycle][LaneOrder[x.lane]]
  BY PlanCopies DEF Issues
<1>3. ASSUME NEW x \in Places
      PROVE  x.node \in Planned(k)[x.copy][x.cycle][LaneOrder[x.lane]] <=>
               /\ x.node \in Issued /\ ModSlot(x.node) = x.cycle /\ LaneNo(x.node) = x.lane
               /\ StageOf(x.node) <= x.copy - 1 /\ x.copy - Turns(k) <= StageOf(x.node)
  <2>1. Planned(k)[x.copy] = Copy(Working(k, x.copy))
    BY PlanCopies
  <2>2. /\ Working(k, x.copy) \in SUBSET Nodes
        /\ x.cycle \in 0 .. ii - 1 /\ x.lane \in DOMAIN LaneOrder
    BY DEF Working
  <2>3. Copy(Working(k, x.copy))[x.cycle][LaneOrder[x.lane]] =
          {i \in Working(k, x.copy) : i \in Issued /\ ModSlot(i) = x.cycle /\ LaneNo(i) = x.lane}
    BY <2>2, CellHolds
  <2> QED
    BY <2>1, <2>3 DEF Working, Issued
<1>4. ASSUME NEW x \in Issues(Planned(k))
      PROVE  x \in {At(i, t) : i \in Issued, t \in 1 .. Turns(k)}
  <2> DEFINE t == x.copy - StageOf(x.node)
  <2>1. /\ x \in Places /\ x.node \in Issued /\ ModSlot(x.node) = x.cycle /\ LaneNo(x.node) = x.lane
        /\ StageOf(x.node) <= x.copy - 1 /\ x.copy - Turns(k) <= StageOf(x.node)
    BY <1>2, <1>3
  <2>2. StageOf(x.node) \in Nat /\ x.copy \in Int
    BY <1>1, <2>1, LaidTyped DEF Issued
  <2>3. t \in 1 .. Turns(k) /\ x.copy = StageOf(x.node) + t
    BY <1>1, <2>1, <2>2
  <2>4. x = [copy |-> x.copy, cycle |-> x.cycle, lane |-> x.lane, node |-> x.node]
    BY <2>1
  <2>5. x = At(x.node, t)
    BY <2>1, <2>3, <2>4 DEF At
  <2> QED
    BY <2>1, <2>3, <2>5
<1>5. ASSUME NEW i \in Issued, NEW t \in 1 .. Turns(k)
      PROVE  At(i, t) \in Issues(Planned(k))
  <2>1. /\ StageOf(i) \in Nat /\ StageOf(i) <= maxStage /\ ModSlot(i) \in 0 .. ii - 1
        /\ LaneNo(i) \in DOMAIN LaneOrder /\ i \in Nodes
    BY LaidTyped, LaneNumbered DEF Issued
  <2>2. /\ StageOf(i) + t \in 1 .. 2 * maxStage + k
        /\ StageOf(i) <= (StageOf(i) + t) - 1 /\ (StageOf(i) + t) - Turns(k) <= StageOf(i)
    BY <1>1, <2>1
  <2>3. /\ At(i, t) \in Places
        /\ At(i, t).node = i /\ At(i, t).cycle = ModSlot(i)
        /\ At(i, t).lane = LaneNo(i) /\ At(i, t).copy = StageOf(i) + t
    BY <2>1, <2>2 DEF At
  <2> HIDE DEF Places
  <2>4. At(i, t).node \in Planned(k)[At(i, t).copy][At(i, t).cycle][LaneOrder[At(i, t).lane]]
    BY <1>3, <2>2, <2>3
  <2> QED
    BY <1>2, <2>3, <2>4
<1> QED
  BY <1>4, <1>5

-----------------------------------------------------------------------------
(* The order of a plan and the order of the loop *)

(* i in turn t comes before j in turn u of the loop. *)
Sooner(i, t, j, u) == t < u \/ (t = u /\ i < j)

(* One of two nodes writes key, and the other touches it. *)
Contend(i, j, key) ==
  \/ WritesKey(i, key) /\ (key \in Keys(loop[j].reads) \/ WritesKey(j, key))
  \/ WritesKey(j, key) /\ key \in Keys(loop[i].reads)

(* A key of both is a base of both. *)
LEMMA KeyShared ==
  ASSUME NEW s, NEW t, NEW key \in Keys(s), key \in Keys(t)
  PROVE  Shared(s, t) # {}
<1>1. PICK a \in DOMAIN s : key = [base |-> s[a].base, field |-> s[a].field]
  BY DEF Keys
<1>2. PICK b \in DOMAIN t : key = [base |-> t[b].base, field |-> t[b].field]
  BY DEF Keys
<1>3. key.base = s[a].base /\ key.base = t[b].base
  BY <1>1, <1>2
<1> QED
  BY <1>3 DEF Shared

(* Such nodes wait for each other, within a turn and into the next. *)
LEMMA ContendersWait ==
  ASSUME Laid, NEW i \in Nodes, NEW j \in Nodes, i # j, NEW key, Contend(i, j, key)
  PROVE  <<i, j, 1>> \in edges
<1>1. \/ Shared(loop[i].writes, loop[j].reads) # {}
      \/ Shared(loop[i].writes, loop[j].writes) # {}
      \/ Shared(loop[i].reads, loop[j].writes) # {}
  BY KeyShared DEF Contend, WritesKey
<1>2. \/ Counts(loop, FALSE, i, j, loop[i].writes, loop[j].reads)
      \/ Counts(loop, FALSE, i, j, loop[i].writes, loop[j].writes)
      \/ Counts(loop, FALSE, i, j, loop[i].reads, loop[j].writes)
  BY <1>1 DEF Counts
<1>3. 1 \in Demands(loop, FALSE, i, j)
  BY <1>2 DEF Demands
<1>4. <<i, j, 1>> \in Edges(loop, FALSE)
  <2>1. <<i, j, 1>> \in Between(loop, FALSE, i, j)
    BY <1>3 DEF Between
  <2>2. <<i, j, 1>> \in From(loop, FALSE, i)
    BY <2>1 DEF From, Nodes
  <2> QED
    BY <2>2 DEF Edges, Nodes
<1> QED
  BY <1>4 DEF Laid

(* So they are less than a turn apart, in the order of the body. *)
LEMMA ContendersNear ==
  ASSUME Laid, NEW i \in Nodes, NEW j \in Nodes, i < j, NEW key, Contend(i, j, key)
  PROVE  \/ StageOf(j) = StageOf(i) /\ ModSlot(i) < ModSlot(j)
         \/ StageOf(j) = StageOf(i) + 1 /\ ModSlot(j) < ModSlot(i)
<1>1. /\ ii \in Nat \ {0} /\ slot[i] \in Nat /\ slot[j] \in Nat
      /\ i \in Int /\ j \in Int
  BY BodyTyped DEF Laid, Nodes
<1>2. Contend(j, i, key) /\ i # j
  BY <1>1 DEF Contend
<1>3. <<i, j, 1>> \in edges /\ <<j, i, 1>> \in edges
  BY <1>2, ContendersWait
<1>4. Placed(slot, i) /\ Placed(slot, j)
  BY <1>1 DEF Placed, Unplaced
<1>5. slot[j] - slot[i] >= Gap(<<i, j, 1>>) /\ slot[i] - slot[j] >= Gap(<<j, i, 1>>)
  BY <1>3, <1>4 DEF Laid, KeepsEdges
<1>6. Gap(<<i, j, 1>>) = 1 /\ Gap(<<j, i, 1>>) = 1 - ii
  <2>1. Distance(i, j) = 0 /\ Distance(j, i) = 1
    BY <1>1 DEF Distance
  <2> QED
    BY <1>1, <2>1 DEF Gap
<1> QED
  BY <1>1, <1>5, <1>6, NearSlots DEF StageOf, Stage, ModSlot

(* A plan issues them in the order of the loop, and a node in the order of    *)
(* its turns.                                                                 *)
LEMMA OrderKept ==
  ASSUME Laid, NEW i \in Issued, NEW j \in Issued, NEW t \in Nat, NEW u \in Nat, NEW key,
         i = j \/ Contend(i, j, key)
  PROVE  Ahead(At(i, t), At(j, u)) <=> Sooner(i, t, j, u)
<1>1. /\ StageOf(i) \in Nat /\ ModSlot(i) \in Nat /\ LaneNo(i) \in Nat
      /\ StageOf(j) \in Nat /\ ModSlot(j) \in Nat /\ LaneNo(j) \in Nat
      /\ i \in Nodes /\ j \in Nodes /\ i \in Nat /\ j \in Nat
  <2>1. ii \in Nat \ {0} /\ loop \in Loops
    BY DEF Laid
  <2>2. \A n \in Nodes : n \in Nat
    BY <2>1, BodyTyped DEF Nodes
  <2>3. DOMAIN LaneOrder \subseteq Nat
    BY DEF LaneOrder
  <2> QED
    BY <2>1, <2>2, <2>3, LaidTyped, LaneNumbered DEF Issued
<1>2. Ahead(At(i, t), At(j, u)) <=>
        \/ StageOf(i) + t < StageOf(j) + u
        \/ StageOf(i) + t = StageOf(j) + u /\ ModSlot(i) < ModSlot(j)
        \/ StageOf(i) + t = StageOf(j) + u /\ ModSlot(i) = ModSlot(j) /\ LaneNo(i) < LaneNo(j)
  BY DEF Ahead, At
<1>3. CASE i = j
  BY <1>1, <1>2, <1>3 DEF Sooner
<1>4. CASE i < j /\ Contend(i, j, key)
  <2>1. \/ StageOf(j) = StageOf(i) /\ ModSlot(i) < ModSlot(j)
        \/ StageOf(j) = StageOf(i) + 1 /\ ModSlot(j) < ModSlot(i)
    BY <1>1, <1>4, ContendersNear
  <2> QED
    BY <1>1, <1>2, <1>4, <2>1 DEF Sooner
<1>5. CASE j < i /\ Contend(i, j, key)
  <2>1. Contend(j, i, key)
    BY <1>5 DEF Contend
  <2>2. \/ StageOf(i) = StageOf(j) /\ ModSlot(j) < ModSlot(i)
        \/ StageOf(i) = StageOf(j) + 1 /\ ModSlot(i) < ModSlot(j)
    BY <1>1, <1>5, <2>1, ContendersNear
  <2> QED
    BY <1>1, <1>2, <1>5, <2>2 DEF Sooner
<1> QED
  BY <1>1, <1>3, <1>4, <1>5

(* A node is issued once a turn, and the count of its turns tells which.      *)
LEMMA TurnsCounted ==
  ASSUME Laid, NEW k \in Nat, NEW i \in Issued
  PROVE  /\ Cardinality({x \in Issues(Planned(k)) : x.node = i}) = Turns(k)
         /\ \A t \in 1 .. Turns(k) : TurnOf(Issues(Planned(k)), At(i, t)) = t
<1> DEFINE issues == Issues(Planned(k))
<1>1. Turns(k) \in Nat /\ StageOf(i) \in Nat
  BY LaidTyped DEF Laid, StageCount, Turns, Issued
<1>2. ASSUME NEW n \in Nat
      PROVE  Cardinality({At(i, u) : u \in 1 .. n}) = n
  <2> DEFINE f == [u \in 1 .. n |-> At(i, u)]
             S == {At(i, u) : u \in 1 .. n}
  <2>1. \A u, v \in 1 .. n : At(i, u) = At(i, v) => u = v
    <3>1. \A u \in 1 .. n : At(i, u).copy = StageOf(i) + u
      BY DEF At
    <3> QED
      BY <1>1, <3>1
  <2>2. f \in [1 .. n -> S]
    OBVIOUS
  <2>3. \A u, v \in 1 .. n : f[u] = f[v] => u = v
    BY <2>1
  <2>4. \A x \in S : \E u \in 1 .. n : f[u] = x
    OBVIOUS
  <2> HIDE DEF f, S
  <2>5. f \in Bijection(1 .. n, S)
    BY <2>2, <2>3, <2>4 DEF Bijection, Injection, Surjection, IsInjective
  <2>6. ExistsBijection(1 .. n, S)
    BY <2>5 DEF ExistsBijection
  <2>7. IsFiniteSet(1 .. n) /\ Cardinality(1 .. n) = n
    <3>1. Cardinality(1 .. n) = IF 1 > n THEN 0 ELSE n - 1 + 1
      BY FS_Interval
    <3> QED
      BY <3>1, FS_Interval
  <2>8. Cardinality(S) = n
    BY <2>6, <2>7, FS_Bijection
  <2> QED
    BY <2>8 DEF S
<1>3. issues = {At(j, t) : j \in Issued, t \in 1 .. Turns(k)}
  BY IssuesExactly
<1>4. \A j, t : At(j, t).node = j
  BY DEF At
<1> HIDE DEF issues
<1>5. {x \in issues : x.node = i} = {At(i, t) : t \in 1 .. Turns(k)}
  BY <1>3, <1>4
<1>6. ASSUME NEW t \in 1 .. Turns(k)
      PROVE  TurnOf(issues, At(i, t)) = t
  <2>1. \A u \in 1 .. Turns(k) : Ahead(At(i, t), At(i, u)) <=> t < u
    <3>1. \A u \in 1 .. Turns(k) : Ahead(At(i, t), At(i, u)) <=> Sooner(i, t, i, u)
      BY <1>1, OrderKept
    <3>2. i \in Nat
      BY BodyTyped DEF Laid, Issued, Nodes
    <3> QED
      BY <1>1, <3>1, <3>2 DEF Sooner
  <2>2. {y \in issues : y.node = At(i, t).node /\ ~Ahead(At(i, t), y)} = {At(i, u) : u \in 1 .. t}
    <3>1. \A y : y \in issues /\ y.node = i <=> y \in {At(i, u) : u \in 1 .. Turns(k)}
      BY <1>5
    <3>2. \A u : u \in 1 .. t <=> u \in 1 .. Turns(k) /\ ~(t < u)
      BY <1>1
    <3>3. ASSUME NEW y
          PROVE  y \in issues /\ y.node = i /\ ~Ahead(At(i, t), y) <=> y \in {At(i, u) : u \in 1 .. t}
      BY <2>1, <3>1, <3>2
    <3> QED
      BY <1>4, <3>3
  <2> QED
    BY <1>1, <1>2, <2>2 DEF TurnOf
<1> QED
  BY <1>1, <1>2, <1>5, <1>6 DEF issues

(* If given are the writers of key in front of node j of turn u of the loop,  *)
(* the last of them in the plan is the last of them in the loop.              *)
LEMMA LatestMatches ==
  ASSUME Laid, NEW k \in Nat, NEW j \in Nat \ {0}, NEW u \in 1 .. Turns(k), NEW key,
         j <= Len(loop) + 1,
         NEW given, given \subseteq Issues(Planned(k)),
         \A i \in Issued, t \in 1 .. Turns(k) :
           WritesKey(i, key) => (At(i, t) \in given <=> Sooner(i, t, j, u))
  PROVE  Latest(Issues(Planned(k)), given, key) = Source(j, u, key)
<1> DEFINE issues == Issues(Planned(k))
           T == Turns(k)
           writers == {y \in given : WritesKey(y.node, key)}
           above == {i \in 1 .. j - 1 : WritesKey(i, key)}
           below == {i \in j .. Len(loop) : WritesKey(i, key)}
<1>1. T \in Nat /\ Len(loop) \in Nat /\ Nodes = 1 .. Len(loop)
  <2>1. loop \in Seq(Node) /\ maxStage \in Nat
    BY BodyTyped DEF Laid
  <2> QED
    BY <2>1 DEF Turns, StageCount, Nodes
<1>2. \A i \in Nodes : WritesKey(i, key) => i \in Issued
  <2>1. SUFFICES ASSUME NEW i \in Nodes, WritesKey(i, key), Lane(i) = "none"
                 PROVE  FALSE
    BY DEF Issued
  <2>2. loop[i] \in Node /\ loop[i].unit = "none" /\ loop[i].pipe = "none"
    BY <2>1, BodyTyped DEF Laid, Nodes, Lane
  <2>3. loop[i].writes = <<>>
    BY <2>2, BodyTyped DEF Laid, Nodes
  <2> QED
    BY <2>1, <2>3 DEF WritesKey, Keys
<1>3. \A i, t : At(i, t).node = i
  BY DEF At
<1>4. issues = {At(i, t) : i \in Issued, t \in 1 .. T}
  BY IssuesExactly
<1>5. \A y \in writers : \E i \in Nodes : \E t \in 1 .. T :
        y = At(i, t) /\ WritesKey(i, key) /\ Sooner(i, t, j, u)
  BY <1>3, <1>4 DEF Issued
<1>6. \A i \in Nodes : \A t \in 1 .. T :
        WritesKey(i, key) /\ Sooner(i, t, j, u) => At(i, t) \in writers
  BY <1>2, <1>3
<1>7. \A h, i \in Nodes : \A s, t \in 1 .. T :
        WritesKey(h, key) /\ WritesKey(i, key)
          => (Ahead(At(h, s), At(i, t)) <=> Sooner(h, s, i, t))
  <2>1. ASSUME NEW h \in Nodes, NEW i \in Nodes, NEW s \in 1 .. T, NEW t \in 1 .. T,
               WritesKey(h, key), WritesKey(i, key)
        PROVE  Ahead(At(h, s), At(i, t)) <=> Sooner(h, s, i, t)
    <3>1. Contend(h, i, key)
      BY <2>1 DEF Contend
    <3>2. h \in Issued /\ i \in Issued /\ s \in Nat /\ t \in Nat
      BY <1>1, <1>2, <2>1
    <3> QED
      BY <3>1, <3>2, OrderKept
  <2> QED
    BY <2>1
<1>8. \A i \in Nodes : \A t \in 1 .. T : WritesKey(i, key) => TurnOf(issues, At(i, t)) = t
  BY <1>2, TurnsCounted
<1> DEFINE Final(i, t) ==
             /\ WritesKey(i, key) /\ Sooner(i, t, j, u)
             /\ \A h \in Nodes : \A s \in 1 .. T :
                  WritesKey(h, key) /\ Sooner(h, s, j, u) => ~Sooner(i, t, h, s)
<1> HIDE DEF writers, issues
<1>9. \A i \in Nodes : \A t \in 1 .. T : WritesKey(i, key) /\ Sooner(i, t, j, u) =>
        ((\A z \in writers : ~Ahead(At(i, t), z)) <=> Final(i, t))
  BY <1>5, <1>6, <1>7
<1>10. Latest(issues, given, key) =
         {<<y.node, TurnOf(issues, y)>> : y \in {y \in writers : \A z \in writers : ~Ahead(y, z)}}
  BY DEF Latest, writers
<1>11. \A p : p \in Latest(issues, given, key) <=>
         \E i \in Nodes : \E t \in 1 .. T : p = <<i, t>> /\ Final(i, t)
  <2>1. ASSUME NEW p \in Latest(issues, given, key)
        PROVE  \E i \in Nodes : \E t \in 1 .. T : p = <<i, t>> /\ Final(i, t)
    <3>1. PICK y \in writers : p = <<y.node, TurnOf(issues, y)>> /\ \A z \in writers : ~Ahead(y, z)
      BY <1>10
    <3>2. PICK i \in Nodes : \E t \in 1 .. T : y = At(i, t) /\ WritesKey(i, key) /\ Sooner(i, t, j, u)
      BY <1>5
    <3>3. PICK t \in 1 .. T : y = At(i, t) /\ WritesKey(i, key) /\ Sooner(i, t, j, u)
      BY <3>2
    <3>4. Final(i, t)
      BY <1>9, <3>1, <3>3
    <3>5. p = <<i, t>>
      BY <1>3, <1>8, <3>1, <3>3
    <3> QED
      BY <3>4, <3>5
  <2>2. ASSUME NEW i \in Nodes, NEW t \in 1 .. T, Final(i, t)
        PROVE  <<i, t>> \in Latest(issues, given, key)
    <3>1. At(i, t) \in writers /\ \A z \in writers : ~Ahead(At(i, t), z)
      BY <1>6, <1>9, <2>2
    <3>2. At(i, t).node = i /\ TurnOf(issues, At(i, t)) = t
      BY <1>3, <1>8, <2>2
    <3> QED
      BY <1>10, <3>1, <3>2
  <2> QED
    BY <2>1, <2>2
<1>12. j \in Nat /\ u \in 1 .. T /\ above \subseteq Nodes /\ below \subseteq Nodes
  BY <1>1
<1>13. \A i \in Nodes : WritesKey(i, key) => i \in above \/ i \in below
  BY <1>1
<1>14. (\A i \in above : i < j /\ WritesKey(i, key)) /\ (\A i \in below : j <= i /\ WritesKey(i, key))
  BY <1>1
<1>15. Source(j, u, key) =
         IF above # {} THEN {<<i, u>> : i \in LastOf(above)}
         ELSE IF u > 1 THEN {<<i, u - 1>> : i \in LastOf(below)}
         ELSE {}
  BY DEF Source
<1> HIDE DEF above, below, T
<1>16. CASE above # {}
  <2>1. ASSUME NEW i \in Nodes, NEW t \in 1 .. T, Final(i, t)
        PROVE  t = u /\ i \in LastOf(above)
    <3>1. WritesKey(i, key) /\ (t < u \/ (t = u /\ i < j))
      BY <2>1 DEF Sooner
    <3>2. \A a \in above : ~(t < u) /\ (t = u => ~(i < a))
      <4>1. \A a \in above : a \in Nodes /\ WritesKey(a, key) /\ Sooner(a, u, j, u)
        BY <1>12, <1>14 DEF Sooner
      <4>2. \A a \in above : ~Sooner(i, t, a, u)
        BY <1>12, <2>1, <4>1
      <4> QED
        BY <4>2 DEF Sooner
    <3>3. t = u /\ i < j
      BY <1>16, <3>1, <3>2
    <3>4. i \in above
      BY <1>1, <1>12, <1>13, <1>14, <3>1, <3>3
    <3>5. \A a \in above : a <= i
      BY <1>1, <1>12, <3>2, <3>3
    <3> QED
      BY <3>3, <3>4, <3>5 DEF LastOf
  <2>2. ASSUME NEW i \in LastOf(above)
        PROVE  i \in Nodes /\ u \in 1 .. T /\ Final(i, u)
    <3>1. i \in above /\ i \in Nodes /\ \A a \in above : a <= i
      BY <1>12 DEF LastOf
    <3>2. WritesKey(i, key) /\ Sooner(i, u, j, u)
      BY <1>14, <3>1 DEF Sooner
    <3>3. ASSUME NEW h \in Nodes, NEW s \in 1 .. T, WritesKey(h, key), Sooner(h, s, j, u)
          PROVE  ~Sooner(i, u, h, s)
      <4>1. s < u \/ (s = u /\ h < j)
        BY <3>3 DEF Sooner
      <4>2. s = u => h <= i
        BY <1>1, <1>12, <1>13, <1>14, <3>1, <3>3, <4>1
      <4>3. s \in Nat /\ u \in Nat /\ h \in Nat /\ i \in Nat
        BY <1>1, <1>12, <3>1
      <4> QED
        BY <4>1, <4>2, <4>3 DEF Sooner
    <3> QED
      BY <1>12, <3>1, <3>2, <3>3
  <2>3. Source(j, u, key) = {<<i, u>> : i \in LastOf(above)}
    BY <1>15, <1>16
  <2>4. \A p : p \in Latest(issues, given, key) <=> p \in Source(j, u, key)
    BY <1>11, <2>1, <2>2, <2>3
  <2>5. Latest(issues, given, key) = Source(j, u, key)
    BY <2>4
  <2> QED
    BY <2>5 DEF issues
<1>17. CASE above = {} /\ u > 1
  <2>1. \A i \in Nodes : WritesKey(i, key) => i \in below /\ ~(i < j)
    BY <1>1, <1>12, <1>13, <1>14, <1>17
  <2>2. ASSUME NEW i \in Nodes, NEW t \in 1 .. T, Final(i, t)
        PROVE  t = u - 1 /\ i \in LastOf(below)
    <3>1. i \in below /\ t < u
      BY <2>1, <2>2 DEF Sooner
    <3>2. \A a \in below : a \in Nodes /\ WritesKey(a, key) /\ Sooner(a, u - 1, j, u)
      BY <1>1, <1>12, <1>14 DEF Sooner
    <3>3. u - 1 \in 1 .. T
      BY <1>1, <1>12, <1>17
    <3>4. \A a \in below : ~Sooner(i, t, a, u - 1)
      BY <2>2, <3>2, <3>3
    <3>5. t = u - 1
      BY <1>1, <1>12, <3>1, <3>4 DEF Sooner
    <3>6. \A a \in below : a <= i
      BY <1>1, <1>12, <3>4, <3>5 DEF Sooner
    <3> QED
      BY <3>1, <3>5, <3>6 DEF LastOf
  <2>3. ASSUME NEW i \in LastOf(below)
        PROVE  i \in Nodes /\ u - 1 \in 1 .. T /\ Final(i, u - 1)
    <3>1. i \in below /\ i \in Nodes /\ \A a \in below : a <= i
      BY <1>12 DEF LastOf
    <3>2. WritesKey(i, key) /\ Sooner(i, u - 1, j, u) /\ u - 1 \in 1 .. T
      BY <1>1, <1>12, <1>14, <1>17, <3>1 DEF Sooner
    <3>3. ASSUME NEW h \in Nodes, NEW s \in 1 .. T, WritesKey(h, key), Sooner(h, s, j, u)
          PROVE  ~Sooner(i, u - 1, h, s)
      <4>1. h \in below /\ s < u
        BY <2>1, <3>3 DEF Sooner
      <4>2. h <= i
        BY <3>1, <4>1
      <4>3. s \in Nat /\ u \in Nat /\ h \in Nat /\ i \in Nat
        BY <1>1, <1>12, <3>1
      <4> QED
        BY <4>1, <4>2, <4>3 DEF Sooner
    <3> QED
      BY <3>1, <3>2, <3>3
  <2>4. Source(j, u, key) = {<<i, u - 1>> : i \in LastOf(below)}
    BY <1>15, <1>17
  <2>5. \A p : p \in Latest(issues, given, key) <=> p \in Source(j, u, key)
    BY <1>11, <2>2, <2>3, <2>4
  <2>6. Latest(issues, given, key) = Source(j, u, key)
    BY <2>5
  <2> QED
    BY <2>6 DEF issues
<1>18. CASE above = {} /\ u = 1
  <2>1. \A i \in Nodes : WritesKey(i, key) => ~(i < j)
    BY <1>1, <1>12, <1>13, <1>14, <1>18
  <2>2. \A i \in Nodes : \A t \in 1 .. T : ~Final(i, t)
    BY <1>1, <1>18, <2>1 DEF Sooner
  <2>3. Source(j, u, key) = {}
    BY <1>15, <1>18
  <2>4. \A p : p \notin Latest(issues, given, key)
    BY <1>11, <2>2
  <2>5. Latest(issues, given, key) = {}
    BY <2>4
  <2> QED
    BY <2>3, <2>5 DEF issues
<1> QED
  BY <1>1, <1>12, <1>16, <1>17, <1>18

-----------------------------------------------------------------------------
(* The plan of a finished search computes what its loop computes. *)
LEMMA LaidKeepsReads ==
  ASSUME Laid
  PROVE  PlanKeepsReads
<1>1. SUFFICES ASSUME NEW k \in 1 .. Passes
               PROVE  LET issues == Issues(Planned(k))
                          issued == {i \in Nodes : Lane(i) # "none"}
                          written == UNION {Keys(loop[i].writes) : i \in issued}
                      IN  /\ \A i \in issued : Cardinality({x \in issues : x.node = i}) = Turns(k)
                          /\ \A x \in issues : \A key \in Keys(loop[x.node].reads) :
                               Latest(issues, {y \in issues : Ahead(y, x)}, key)
                                 = Source(x.node, TurnOf(issues, x), key)
                          /\ \A key \in written :
                               Latest(issues, issues, key) = Source(Len(loop) + 1, Turns(k), key)
  BY DEF PlanKeepsReads
<1> DEFINE issues == Issues(Planned(k))
           T == Turns(k)
<1>2. k \in Nat /\ T \in Nat /\ T \in 1 .. T /\ Len(loop) \in Nat /\ Nodes = 1 .. Len(loop)
  <2>1. loop \in Seq(Node) /\ maxStage \in Nat /\ k \in Nat \ {0}
    BY BodyTyped, PassesAssumption DEF Laid
  <2> QED
    BY <2>1 DEF Turns, StageCount, Nodes
<1>3. Issued \subseteq Nodes /\ Issued = {i \in Nodes : Lane(i) # "none"}
  BY DEF Issued
<1>4. issues = {At(i, t) : i \in Issued, t \in 1 .. T}
  BY <1>2, IssuesExactly
<1>5. \A i \in Issued : Cardinality({x \in issues : x.node = i}) = T
  BY <1>2, TurnsCounted
<1>6. \A j \in Issued : \A u \in 1 .. T : TurnOf(issues, At(j, u)) = u
  BY <1>2, TurnsCounted
<1>7. ASSUME NEW j \in Issued, NEW u \in 1 .. T, NEW key \in Keys(loop[j].reads)
      PROVE  Latest(issues, {y \in issues : Ahead(y, At(j, u))}, key) = Source(j, u, key)
  <2> DEFINE given == {y \in issues : Ahead(y, At(j, u))}
  <2>1. ASSUME NEW i \in Issued, NEW t \in 1 .. T, WritesKey(i, key)
        PROVE  At(i, t) \in given <=> Sooner(i, t, j, u)
    <3>1. Contend(i, j, key)
      BY <1>7, <2>1 DEF Contend
    <3>2. At(i, t) \in issues
      BY <1>4
    <3>3. t \in Nat /\ u \in Nat
      BY <1>2
    <3>4. Ahead(At(i, t), At(j, u)) <=> Sooner(i, t, j, u)
      BY <3>1, <3>3, OrderKept
    <3> QED
      BY <3>2, <3>4
  <2>2. given \subseteq issues
    OBVIOUS
  <2>3. j \in Nat \ {0} /\ j <= Len(loop) + 1
    BY <1>2, <1>3
  <2> HIDE DEF given
  <2>4. Latest(Issues(Planned(k)), given, key) = Source(j, u, key)
    BY <1>2, <2>1, <2>2, <2>3, LatestMatches
  <2> QED
    BY <2>4 DEF given
<1>8. ASSUME NEW x \in issues, NEW key \in Keys(loop[x.node].reads)
      PROVE  Latest(issues, {y \in issues : Ahead(y, x)}, key)
               = Source(x.node, TurnOf(issues, x), key)
  <2>1. PICK j \in Issued, u \in 1 .. T : x = At(j, u)
    BY <1>4
  <2>2. x.node = j
    BY <2>1 DEF At
  <2>3. TurnOf(issues, x) = u
    BY <1>6, <2>1
  <2>4. key \in Keys(loop[j].reads)
    BY <1>8, <2>2
  <2>5. Latest(issues, {y \in issues : Ahead(y, At(j, u))}, key) = Source(j, u, key)
    BY <1>7, <2>4
  <2> HIDE DEF issues
  <2> QED
    BY <2>1, <2>2, <2>3, <2>5
<1>9. ASSUME NEW key
      PROVE  Latest(issues, issues, key) = Source(Len(loop) + 1, T, key)
  <2>1. ASSUME NEW i \in Issued, NEW t \in 1 .. T, WritesKey(i, key)
        PROVE  At(i, t) \in issues <=> Sooner(i, t, Len(loop) + 1, T)
    <3>1. At(i, t) \in issues
      BY <1>4
    <3>2. i < Len(loop) + 1 /\ (t < T \/ t = T)
      BY <1>2, <1>3
    <3> QED
      BY <3>1, <3>2 DEF Sooner
  <2>2. Len(loop) + 1 \in Nat \ {0} /\ Len(loop) + 1 <= Len(loop) + 1
    BY <1>2
  <2> QED
    BY <1>2, <2>1, <2>2, LatestMatches
<1> HIDE DEF issues, T
<1>10. /\ \A i \in Issued : Cardinality({x \in issues : x.node = i}) = T
       /\ \A x \in issues : \A key \in Keys(loop[x.node].reads) :
            Latest(issues, {y \in issues : Ahead(y, x)}, key)
              = Source(x.node, TurnOf(issues, x), key)
       /\ \A key : Latest(issues, issues, key) = Source(Len(loop) + 1, T, key)
  BY <1>5, <1>8, <1>9
<1> QED
  BY <1>3, <1>10 DEF issues, T

-----------------------------------------------------------------------------
(* The stages the layout counts and the edges it was made under stay true     *)
(* through the search, whatever is evicted, put back or begun again.          *)
THEOREM LayoutInvAlways == Spec => []LayoutInv
<1>1. Init => LayoutInv
  BY LayoutInit
<1>2. LayoutInv /\ [Next]_vars => LayoutInv'
  BY LayoutNext
<1> QED
  BY <1>1, <1>2, PTL DEF Spec

(* For every loop and every number of passes the plan of the pipeline works   *)
(* on every node once a turn, every read finds the value the loop would give  *)
(* it, and the values left behind are the loop's (buildVuKernelEnvelope,      *)
(* VuKernelLayout.cpp:50; runVuKernelPlacerAndScaffolding,                    *)
(* VuSchedulerAnalysis.cpp:7402).                                             *)
THEOREM PlanKeepsReadsCorrect == Spec => []PlanKeepsReads
<1>1. LayoutInv => PlanKeepsReads
  <2>1. ASSUME LayoutInv, phase = "done"
        PROVE  PlanKeepsReads
    BY <2>1, LayoutLaid, LaidKeepsReads
  <2>2. ASSUME phase # "done"
        PROVE  PlanKeepsReads
    BY <2>2 DEF PlanKeepsReads
  <2> QED
    BY <2>1, <2>2
<1> QED
  BY <1>1, LayoutInvAlways, PTL
=============================================================================
