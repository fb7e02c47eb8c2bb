-------------------------- MODULE VuReadyOrderProofs --------------------------
(* Proofs of the properties of VuReadyOrder, for every set of registers and   *)
(* blocks.  The inductive invariant is IInv: the types, and that the emitted  *)
(* rows respect the graph.  Everything a reader sees follows from it and from *)
(* the edges the graph contains.                                              *)
EXTENDS VuReadyOrder, WellFoundedInduction, TLAPS

(* A non-empty set of naturals has a least element, and a greatest one when   *)
(* it is bounded.                                                             *)
LEMMA LeastElement ==
  ASSUME NEW S \in SUBSET Nat, S # {}
  PROVE  \E m \in S : \A k \in S : m <= k
<1>1. PICK m \in S : \A k \in S : <<k, m>> \notin OpToRel(<, Nat)
  BY NatLessThanWellFounded, WFMin
<1>2. \A k \in S : ~(k < m)
  BY <1>1, Zenon DEF OpToRel
<1> QED
  BY <1>2

LEMMA GreatestElement ==
  ASSUME NEW S \in SUBSET Nat, S # {}, NEW n \in Nat, \A k \in S : k <= n
  PROVE  \E m \in S : \A k \in S : k <= m
<1> DEFINE T == {n - k : k \in S}
<1>1. T \in SUBSET Nat /\ T # {}
  <2>1. \A k \in S : n - k \in Nat
    OBVIOUS
  <2>2. PICK k \in S : TRUE
    OBVIOUS
  <2>3. n - k \in T
    OBVIOUS
  <2> QED
    BY <2>1, <2>3
<1>2. PICK t \in T : \A u \in T : t <= u
  BY <1>1, LeastElement
<1>3. PICK m \in S : t = n - m
  OBVIOUS
<1>4. ASSUME NEW k \in S PROVE k <= m
  <2>1. n - k \in T
    OBVIOUS
  <2>2. n - m <= n - k
    BY <2>1, <1>2, <1>3
  <2> QED
    BY <2>2
<1> QED
  BY <1>4

-----------------------------------------------------------------------------
(* The domain of a block is an interval of positions, and the masks hold only *)
(* resources whose writers are ordered by the flag passes.                    *)
LEMMA BlockFacts ==
  ASSUME TypeOK
  PROVE  /\ Len(block) \in Nat
         /\ Position = 1 .. Len(block)
         /\ \A i \in Position : block[i] \in TokenType
         /\ ignored \subseteq {"MAC", "CLIP", "STATUS"}
BY IgnoredAssumption DEF TypeOK, Position, BlockType

(* The state keeps its type. *)
THEOREM TypeCorrect == Spec => []TypeOK
<1>1. Init => TypeOK
  <2> SUFFICES ASSUME Init PROVE TypeOK
    OBVIOUS
  <2> QED
    BY BlocksAssumption DEF Init, TypeOK, Position
<1>2. TypeOK /\ [Next]_vars => TypeOK'
  <2> SUFFICES ASSUME TypeOK, [Next]_vars PROVE TypeOK'
    OBVIOUS
  <2>1. CASE \E i, j \in Position : EmitRow(i, j)
    BY <2>1 DEF TypeOK, EmitRow, Position
  <2>2. CASE UNCHANGED vars
    BY <2>2 DEF TypeOK, vars, Position
  <2> QED
    BY <2>1, <2>2 DEF Next, Done
<1> QED
  BY <1>1, <1>2, PTL DEF Spec

IInv == TypeOK /\ GraphRespected

LEMMA InitIInv == Init => IInv
<1> SUFFICES ASSUME Init PROVE IInv
  OBVIOUS
<1>1. TypeOK
  BY BlocksAssumption DEF Init, TypeOK, Position
<1>2. GraphRespected
  BY DEF Init, GraphRespected, Position, Emitted
<1> QED
  BY <1>1, <1>2 DEF IInv

(* Emitting a row of ready tokens respects the graph: the predecessors of the *)
(* two are in earlier rows, and no token already emitted depends on them.     *)
LEMMA EmitRowIInv ==
  ASSUME IInv, NEW i \in Position, NEW j \in Position, EmitRow(i, j)
  PROVE  IInv'
<1> USE DEF IInv
<1>1. TypeOK'
  BY DEF TypeOK, EmitRow, Position
<1>2. \A k \in Position : row'[k] = IF k \in {i, j} THEN rows + 1 ELSE row[k]
  BY DEF EmitRow, TypeOK
<1>3. /\ Position' = Position
      /\ \A p, q \in Position : Edge(block, ignored, p, q)' = Edge(block, ignored, p, q)
  BY DEF EmitRow, Position
<1>4. /\ rows \in Nat
      /\ \A k \in Position : row[k] \in 0 .. rows
  BY DEF TypeOK
<1>5. ASSUME NEW p \in Position, NEW q \in Position,
             Edge(block, ignored, p, q), Emitted(q)'
      PROVE  Emitted(p)' /\ row'[p] < row'[q]
  <2>1. CASE q \in {i, j}
    <3>1. Emitted(p)
      BY <1>5, <2>1 DEF EmitRow, Ready
    <3>2. p \notin {i, j}
      BY <3>1 DEF EmitRow, Ready
    <3>3. row'[p] = row[p] /\ row'[q] = rows + 1
      BY <1>2, <2>1, <3>2
    <3> QED
      BY <1>4, <3>1, <3>3 DEF Emitted
  <2>2. CASE q \notin {i, j}
    <3>1. row'[q] = row[q] /\ Emitted(q)
      BY <1>2, <1>5, <2>2 DEF Emitted
    <3>2. Emitted(p) /\ row[p] < row[q]
      BY <1>5, <3>1 DEF GraphRespected
    <3>3. p \notin {i, j}
      BY <3>2 DEF EmitRow, Ready
    <3> QED
      BY <1>2, <3>1, <3>2, <3>3 DEF Emitted
  <2> QED
    BY <2>1, <2>2
<1>6. GraphRespected'
  BY <1>3, <1>5 DEF GraphRespected
<1> QED
  BY <1>1, <1>6

THEOREM IInvCorrect == Spec => []IInv
<1>1. IInv /\ [Next]_vars => IInv'
  <2> SUFFICES ASSUME IInv, [Next]_vars PROVE IInv'
    OBVIOUS
  <2>1. CASE \E i, j \in Position : EmitRow(i, j)
    BY <2>1, EmitRowIInv
  <2>2. CASE UNCHANGED vars
    BY <2>2 DEF IInv, TypeOK, GraphRespected, Emitted, vars, Position
  <2> QED
    BY <2>1, <2>2 DEF Next, Done
<1> QED
  BY <1>1, InitIInv, PTL DEF Spec

(* No dependency of the graph is ever broken. *)
THEOREM GraphRespectedCorrect == Spec => []GraphRespected
<1>1. IInv => GraphRespected
  BY DEF IInv
<1> QED
  BY <1>1, IInvCorrect, PTL

-----------------------------------------------------------------------------
(* Reads.  An edge from every writer before the reader to the last of them,   *)
(* from the last to the reader, and from the reader to every later writer is  *)
(* all a read needs.                                                          *)
LEMMA ReadPreservedFromEdges ==
  ASSUME IInv,
         NEW W \in SUBSET Position, NEW j \in Position, Emitted(j),
         \A w \in W : LastInSource(W, w, j) => Edge(block, ignored, w, j),
         \A w \in W, k \in W : LastInSource(W, w, j) /\ k < w => Edge(block, ignored, k, w),
         \A k \in W : j < k => Edge(block, ignored, j, k)
  PROVE  ReadPreserved(W, j, row[j])
<1>1. /\ Position \subseteq Nat
      /\ \A k \in Position : row[k] \in Nat
  BY BlockFacts DEF IInv, TypeOK
<1>2. \A p, q \in Position : Edge(block, ignored, p, q) /\ Emitted(q) => Emitted(p) /\ row[p] < row[q]
  BY DEF IInv, GraphRespected
<1>3. ASSUME NEW k \in W, Emitted(k), k >= j
      PROVE  row[k] >= row[j]
  <2>1. CASE k = j
    BY <1>1, <2>1
  <2>2. CASE j < k
    BY <1>1, <1>2, <1>3, <2>2
  <2> QED
    BY <1>1, <1>3, <2>1, <2>2
<1>4. ASSUME NEW w \in W, LastInSource(W, w, j)
      PROVE  LastInRows(W, w, row[j])
  <2>1. Emitted(w) /\ row[w] < row[j]
    BY <1>2, <1>4
  <2>2. ASSUME NEW k \in W \ {w}, Emitted(k) PROVE row[k] < row[w] \/ row[k] >= row[j]
    <3>1. CASE k < w
      BY <1>2, <1>4, <2>1, <3>1
    <3>2. CASE k >= j
      BY <1>3, <2>2, <3>2
    <3> QED
      BY <1>1, <1>4, <2>2, <3>1, <3>2 DEF LastInSource
  <2> QED
    BY <2>1, <2>2 DEF LastInRows
<1> QED
  BY <1>3, <1>4 DEF ReadPreserved

(* Every register read finds the value it finds in source order: the writers  *)
(* of a register are ordered among themselves and against its readers.        *)
LEMMA RegisterReadsFromGraph == IInv => RegisterReadsPreserved
<1>1. ASSUME IInv, NEW j \in Position, Emitted(j), NEW r \in block[j].registerReads
      PROVE  ReadPreserved(RegisterWriters(r), j, row[j])
  <2> DEFINE W == RegisterWriters(r)
  <2>1. W \in SUBSET Position /\ \A w \in W : r \in block[w].registerWrites
    BY DEF RegisterWriters
  <2>2. \A w \in W : LastInSource(W, w, j) => Edge(block, ignored, w, j)
    BY <1>1, <2>1 DEF LastInSource, Edge, RegisterConflict, RegisterRaw
  <2>3. \A w \in W, k \in W : k < w => Edge(block, ignored, k, w)
    BY <2>1 DEF Edge, RegisterConflict, RegisterWaw
  <2>4. \A k \in W : j < k => Edge(block, ignored, j, k)
    BY <1>1, <2>1 DEF Edge, RegisterConflict, RegisterWar
  <2> HIDE DEF W
  <2>5. ReadPreserved(W, j, row[j])
    BY <1>1, <2>1, <2>2, <2>3, <2>4, ReadPreservedFromEdges
  <2> QED
    BY <2>5 DEF W
<1> QED
  BY <1>1 DEF RegisterReadsPreserved

(* So every register read is as in the source, in every reachable state.      *)
THEOREM RegisterReadsCorrect == Spec => []RegisterReadsPreserved
<1> QED
  BY RegisterReadsFromGraph, IInvCorrect, PTL

(* Every ACC, MAC, I, Q, P and R read finds the write it finds in source      *)
(* order.  For ACC and MAC only the last writer before a reader is ordered    *)
(* against the others, and no reader retires a writer.                        *)
LEMMA ResourceReadsFromGraph == IInv => ResourceReadsPreserved
<1>1. ASSUME IInv, NEW j \in Position, Emitted(j),
             NEW res \in block[j].implicitReads \ {"CLIP", "STATUS"}
      PROVE  ReadPreserved(ResourceWriters(res), j, row[j])
  <2> DEFINE W == ResourceWriters(res)
  <2>1. /\ W \in SUBSET Position
        /\ \A w \in Position : w \in W <=> Writes(block, w, res)
        /\ Reads(block, j, res)
    BY DEF ResourceWriters, Writes, Reads
  <2>2. res \in Resource
    BY <1>1, BlockFacts DEF IInv, TokenType, TokenRecord
  <2>3. \A k \in W : j < k => Edge(block, ignored, j, k)
    BY <1>1, <2>1 DEF Edge, PairwiseConflict, Writes
  <2>4. CASE res \in {"ACC", "MAC"}
    <3>1. \A w \in W : LastInSource(W, w, j) => LastWriterBefore(block, w, j, res)
      BY <2>1 DEF LastInSource, LastWriterBefore, Position
    <3>2. \A w \in W : LastInSource(W, w, j) => Edge(block, ignored, w, j)
      BY <2>1, <2>4, <3>1 DEF LastInSource, Edge, RegisterFlagEdge
    <3>3. \A w \in W : LastInSource(W, w, j) => IsFinalWriter(block, w, res, ignored)
      BY <2>1, <3>1 DEF IsFinalWriter, Position
    <3>4. \A w \in W, k \in W : LastInSource(W, w, j) /\ k < w => Edge(block, ignored, k, w)
      BY <2>1, <2>4, <3>3 DEF Edge, RegisterFlagEdge
    <3> HIDE DEF W
    <3>5. ReadPreserved(W, j, row[j])
      BY <1>1, <2>1, <2>3, <3>2, <3>4, ReadPreservedFromEdges
    <3> QED
      BY <3>5 DEF W
  <2>5. CASE res \notin {"ACC", "MAC"}
    <3>1. res \in PairwiseResource /\ res \notin ignored
      BY <1>1, <2>2, <2>5, BlockFacts DEF IInv, PairwiseResource, PreciseResource, Resource
    <3>2. \A w \in W : LastInSource(W, w, j) => Edge(block, ignored, w, j)
      BY <1>1, <2>1, <3>1 DEF LastInSource, Edge, PairwiseConflict, Writes
    <3>3. \A w \in W, k \in W : k < w => Edge(block, ignored, k, w)
      BY <2>1, <3>1 DEF Edge, PairwiseConflict, Writes
    <3> HIDE DEF W
    <3>4. ReadPreserved(W, j, row[j])
      BY <1>1, <2>1, <2>3, <3>2, <3>3, ReadPreservedFromEdges
    <3> QED
      BY <3>4 DEF W
  <2> QED
    BY <2>4, <2>5
<1> QED
  BY <1>1 DEF ResourceReadsPreserved

(* So is every read of ACC, MAC, I, Q, P and R.                               *)
THEOREM ResourceReadsCorrect == Spec => []ResourceReadsPreserved
<1> QED
  BY ResourceReadsFromGraph, IInvCorrect, PTL

(* An access below a store keeps its place unless base and offset show it is  *)
(* elsewhere, and any pair keeps its order when its base is written between.  *)
LEMMA MemoryOrderFromGraph == IInv => MemoryOrderPreserved
<1> DEFINE SameAddress(a, b) ==
             /\ a.memoryKind = "STORE"
             /\ a.hasMemoryOffset /\ b.hasMemoryOffset => a.memoryOffset = b.memoryOffset
           BaseWritten(i, j) == \E k \in RegisterWriters(block[i].memoryBase) : i < k /\ k < j
<1>1. ASSUME IInv,
             NEW i \in Position, NEW j \in Position, i < j, Emitted(j),
             IsPlainAccess(block[i]), IsPlainAccess(block[j]),
             block[i].memoryBase # NoRegister,
             block[i].memoryBase = block[j].memoryBase,
             SameAddress(block[i], block[j]) \/ BaseWritten(i, j)
      PROVE  Emitted(i) /\ row[i] < row[j]
  <2>1. CASE SameAddress(block[i], block[j])
    <3>1. MemoryConflict(block[i], block[j])
      BY <1>1, <2>1 DEF MemoryConflict, MayExchange, MemoryDistinct, IsPlainAccess
    <3> QED
      BY <1>1, <3>1 DEF IInv, GraphRespected, Edge
  <2>2. CASE BaseWritten(i, j)
    <3>1. PICK k \in RegisterWriters(block[i].memoryBase) : i < k /\ k < j
      BY <2>2
    <3>2. k \in Position /\ block[i].memoryBase \in block[k].registerWrites
      BY <3>1 DEF RegisterWriters
    <3>3. /\ block[i].memoryBase \in block[i].registerReads
          /\ block[i].memoryBase \in block[j].registerReads
      BY <1>1, BlockFacts DEF IInv, TokenType
    <3>4. Edge(block, ignored, i, k) /\ Edge(block, ignored, k, j)
      BY <3>1, <3>2, <3>3 DEF Edge, RegisterConflict, RegisterWar, RegisterRaw
    <3>5. Emitted(k) /\ row[k] < row[j]
      BY <1>1, <3>2, <3>4 DEF IInv, GraphRespected
    <3>6. Emitted(i) /\ row[i] < row[k]
      BY <1>1, <3>2, <3>4, <3>5 DEF IInv, GraphRespected
    <3>7. row[i] \in Nat /\ row[k] \in Nat /\ row[j] \in Nat
      BY <1>1, <3>2 DEF IInv, TypeOK
    <3> QED
      BY <3>5, <3>6, <3>7
  <2> QED
    BY <1>1, <2>1, <2>2
<1> QED
  BY <1>1 DEF MemoryOrderPreserved

(* So are the ordered pairs of memory accesses.                               *)
THEOREM MemoryOrderCorrect == Spec => []MemoryOrderPreserved
<1> QED
  BY MemoryOrderFromGraph, IInvCorrect, PTL

(* A token is always ready while one is left: the first of those left in      *)
(* source order, since edges only go forward.                                 *)
THEOREM NeverStuckCorrect == Spec => []NeverStuck
<1>1. ASSUME IInv, \E i \in Position : ~Emitted(i) PROVE \E i \in Position : Ready(i)
  <2> DEFINE Left == {i \in Position : ~Emitted(i)}
  <2>1. Left \in SUBSET Nat /\ Left # {}
    BY <1>1, BlockFacts DEF IInv
  <2>2. PICK i \in Left : \A k \in Left : i <= k
    BY <2>1, LeastElement
  <2>3. \A p \in Position : Edge(block, ignored, p, i) => Emitted(p)
    BY <2>1, <2>2 DEF Edge
  <2> QED
    BY <2>2, <2>3 DEF Ready
<1>2. IInv => NeverStuck
  BY <1>1 DEF NeverStuck
<1> QED
  BY <1>2, IInvCorrect, PTL

-----------------------------------------------------------------------------
(* CLIP.  Consecutive writers are chained, so all writers up to one a reader  *)
(* follows are in source order: by induction over the writers, stated as a    *)
(* least counterexample.                                                      *)
ClipWriters == ResourceWriters("CLIP")

LEMMA ClipChain ==
  ASSUME IInv, NEW a \in ClipWriters, NEW b \in ClipWriters, a < b, Emitted(b),
         ReadAfter(block, b, "CLIP") \/ "CLIP" \notin ignored
  PROVE  Emitted(a) /\ row[a] < row[b]
<1> DEFINE Chained(x) == Emitted(x) /\ (ReadAfter(block, x, "CLIP") \/ "CLIP" \notin ignored)
           Bad == {x \in ClipWriters : a < x /\ Chained(x) /\ ~(Emitted(a) /\ row[a] < row[x])}
<1>1. /\ ClipWriters \subseteq Position
      /\ Position = 1 .. Len(block)
      /\ Len(block) \in Nat
      /\ \A k \in Position : row[k] \in Nat
      /\ \A k \in Position : k \in ClipWriters <=> Writes(block, k, "CLIP")
  BY BlockFacts DEF IInv, TypeOK, ClipWriters, ResourceWriters, Writes
<1> SUFFICES ASSUME Bad # {} PROVE FALSE
  OBVIOUS
<1>nat. \A w \in ClipWriters : w \in Nat
  BY <1>1
<1>2. Bad \in SUBSET Nat
  BY <1>nat
<1>3. PICK m \in Bad : \A x \in Bad : m <= x
  BY <1>2, LeastElement
<1>4. PICK c \in {w \in ClipWriters : w < m} : \A w \in {w \in ClipWriters : w < m} : w <= c
  <2>1. {w \in ClipWriters : w < m} \in SUBSET Nat /\ a \in {w \in ClipWriters : w < m}
    BY <1>nat, <1>3
  <2>2. m \in Nat /\ \A k \in {w \in ClipWriters : w < m} : k <= m
    BY <1>1, <1>3
  <2> QED
    BY <2>1, <2>2, GreatestElement
<1>5. LastWriterBefore(block, c, m, "CLIP")
  BY <1>1, <1>3, <1>4 DEF LastWriterBefore, Position
<1>6. Edge(block, ignored, c, m)
  <2>1. WindowFlagEdge(block, c, m, "CLIP", ignored)
    BY <1>1, <1>3, <1>5 DEF WindowFlagEdge
  <2> QED
    BY <1>5, <2>1 DEF Edge, LastWriterBefore
<1>7. Emitted(c) /\ row[c] < row[m]
  BY <1>1, <1>3, <1>4, <1>6 DEF IInv, GraphRespected
<1>8. CASE c = a
  BY <1>3, <1>7, <1>8
<1>9. CASE c # a
  <2>1. a < c
    BY <1>1, <1>3, <1>4, <1>9
  <2>2. ReadAfter(block, m, "CLIP") => ReadAfter(block, c, "CLIP")
    BY <1>1, <1>3, <1>4 DEF ReadAfter, Position
  <2>3. c \notin Bad
    BY <1>1, <1>3, <1>4
  <2>4. Emitted(a) /\ row[a] < row[c]
    BY <1>3, <1>4, <1>7, <2>1, <2>2, <2>3
  <2> QED
    BY <1>1, <1>3, <1>4, <1>7, <2>4
<1> QED
  BY <1>8, <1>9

(* The window below row r is the one of source position j when the same       *)
(* writers are below both and they are in source order.                       *)
LEMMA WindowFromOrder ==
  ASSUME IInv, NEW j \in Nat, NEW r \in Nat,
         \A w \in ClipWriters : (Emitted(w) /\ row[w] < r) <=> w < j,
         \A a \in ClipWriters, b \in ClipWriters : a < b /\ b < j => row[a] < row[b]
  PROVE  WindowPreserved(ClipWriters, j, r)
<1>1. ClipWriters \subseteq Nat /\ \A k \in ClipWriters : row[k] \in Nat
  BY BlockFacts DEF IInv, TypeOK, ClipWriters, ResourceWriters
<1>2. ASSUME NEW w \in ClipWriters, w < j, NEW k \in ClipWriters
      PROVE  (row[w] < row[k] /\ row[k] < r) <=> (w < k /\ k < j)
  <2>1. ASSUME row[w] < row[k], row[k] < r PROVE w < k /\ k < j
    <3>1. Emitted(k)
      BY <1>1, <2>1 DEF Emitted
    <3>2. k < j
      BY <2>1, <3>1
    <3> QED
      BY <1>1, <1>2, <2>1, <3>2
  <2>2. ASSUME w < k, k < j PROVE row[w] < row[k] /\ row[k] < r
    BY <2>2
  <2> QED
    BY <2>1, <2>2
<1> QED
  BY <1>2 DEF WindowPreserved

(* A CLIP reader finds every judgement in the window entry it has in source   *)
(* order.                                                                     *)
LEMMA ClipReadsFromGraph == IInv => ClipReadsPreserved
<1>1. ASSUME IInv, NEW j \in Position, Emitted(j), Reads(block, j, "CLIP")
      PROVE  WindowPreserved(ClipWriters, j, row[j])
  <2>1. /\ ClipWriters \subseteq Position
        /\ Position = 1 .. Len(block)
        /\ Len(block) \in Nat
        /\ \A k \in Position : row[k] \in Nat
        /\ \A k \in Position : k \in ClipWriters <=> Writes(block, k, "CLIP")
    BY <1>1, BlockFacts DEF IInv, TypeOK, ClipWriters, ResourceWriters, Writes
  <2>2. \A p, q \in Position : Edge(block, ignored, p, q) /\ Emitted(q) => Emitted(p) /\ row[p] < row[q]
    BY <1>1 DEF IInv, GraphRespected
  <2>3. \A w \in ClipWriters : w < j => ReadAfter(block, w, "CLIP")
    BY <1>1 DEF ReadAfter, Position
  <2>4. ASSUME NEW w \in ClipWriters, w < j PROVE Emitted(w) /\ row[w] < row[j]
    <3> DEFINE Before == {k \in ClipWriters : k < j}
    <3>nat. \A k \in ClipWriters : k \in Nat
      BY <2>1
    <3>1. Before \in SUBSET Nat /\ Before # {}
      BY <2>4, <3>nat
    <3>2. j \in Nat /\ \A k \in Before : k <= j
      BY <1>1, <2>1
    <3>3. PICK l \in Before : \A k \in Before : k <= l
      <4> HIDE DEF Before
      <4> QED
        BY <3>1, <3>2, GreatestElement
    <3>4. LastWriterBefore(block, l, j, "CLIP")
      BY <2>1, <3>3 DEF LastWriterBefore, Position
    <3>5. Edge(block, ignored, l, j)
      BY <1>1, <3>3, <3>4 DEF Edge, WindowFlagEdge
    <3>6. Emitted(l) /\ row[l] < row[j]
      BY <1>1, <2>1, <2>2, <3>3, <3>5
    <3>7. CASE w = l
      BY <3>6, <3>7
    <3>8. CASE w < l
      <4>1. Emitted(w) /\ row[w] < row[l]
        BY <1>1, <2>3, <3>3, <3>6, <3>8, ClipChain
      <4> QED
        BY <1>1, <2>1, <3>3, <3>6, <4>1
    <3> QED
      BY <2>1, <2>4, <3>3, <3>7, <3>8
  <2>5. ASSUME NEW w \in ClipWriters, Emitted(w), row[w] < row[j] PROVE w < j
    <3>1. j < w => Edge(block, ignored, j, w)
      BY <1>1, <2>1 DEF Edge, PairwiseConflict, Reads, Writes
    <3> QED
      BY <1>1, <2>1, <2>2, <2>5, <3>1
  <2>6. \A a \in ClipWriters, b \in ClipWriters : a < b /\ b < j => row[a] < row[b]
    BY <1>1, <2>3, <2>4, ClipChain
  <2>7. j \in Nat /\ row[j] \in Nat
    BY <1>1, <2>1
  <2> QED
    BY <1>1, <2>4, <2>5, <2>6, <2>7, WindowFromOrder
<1> QED
  BY <1>1 DEF ClipReadsPreserved, ClipWriters

(* So is every entry of the window a CLIP reader looks at.                    *)
THEOREM ClipReadsCorrect == Spec => []ClipReadsPreserved
<1> QED
  BY ClipReadsFromGraph, IInvCorrect, PTL

-----------------------------------------------------------------------------
(* STATUS.  A contributor is before every later clear that is emitted, and    *)
(* after every earlier one.                                                   *)
LEMMA ClearOrdersContributors ==
  ASSUME IInv, NEW k \in Position, NEW c \in Position,
         Clears(block, k, "STATUS"), Contributes(block, c, "STATUS")
  PROVE  /\ k < c /\ Emitted(c) => Emitted(k) /\ row[k] < row[c]
         /\ c < k /\ Emitted(k) => Emitted(c) /\ row[c] < row[k]
<1>1. /\ Position = 1 .. Len(block)
      /\ Len(block) \in Nat
      /\ \A p \in Position : row[p] \in Nat
  BY BlockFacts DEF IInv, TypeOK
<1>2. \A p, q \in Position : Edge(block, ignored, p, q) /\ Emitted(q) => Emitted(p) /\ row[p] < row[q]
  BY DEF IInv, GraphRespected
<1>3. ASSUME k < c, Emitted(c) PROVE Emitted(k) /\ row[k] < row[c]
  <2>1. Edge(block, ignored, k, c)
    BY <1>3 DEF Edge, PairwiseConflict, Clears, Contributes, Reads, Writes
  <2> QED
    BY <1>2, <1>3, <2>1
<1>4. ASSUME c < k, Emitted(k) PROVE Emitted(c) /\ row[c] < row[k]
  <2> DEFINE After == {x \in Position : c < x /\ Clears(block, x, "STATUS")}
  <2>1. After \in SUBSET Nat /\ After # {}
    BY <1>1, <1>4
  <2>2. PICK f \in After : \A x \in After : f <= x
    BY <2>1, LeastElement
  <2>3. ContributorAt(block, c, f, "STATUS")
    BY <1>1, <2>2 DEF ContributorAt, Position
  <2>4. Edge(block, ignored, c, f)
    BY <2>2, <2>3 DEF Edge, AccumulatingFlagEdge, Clears
  <2>5. Emitted(f) /\ row[f] <= row[k]
    <3>1. CASE f = k
      BY <1>1, <1>4, <3>1
    <3>2. CASE f < k
      <4>1. Edge(block, ignored, f, k)
        BY <2>2, <3>2 DEF Edge, PairwiseConflict, Clears, Reads, Writes
      <4> QED
        BY <1>1, <1>2, <1>4, <2>2, <4>1
    <3> QED
      BY <1>1, <1>4, <2>2, <3>1, <3>2
  <2>6. Emitted(c) /\ row[c] < row[f]
    BY <1>2, <2>2, <2>4, <2>5
  <2> QED
    BY <1>1, <2>2, <2>5, <2>6
<1> QED
  BY <1>3, <1>4

(* A status reader sees the bits of exactly the contributors since the last   *)
(* FSSET, and the last of them last when its mask needs that, provided a      *)
(* contributor stands between the FSSET and the reader.                       *)
LEMMA StatusReadsFromGraph == IInv => StatusReadsPreserved
<1>1. ASSUME IInv, NEW j \in Position, Emitted(j), Reads(block, j, "STATUS"),
             SourceContributors(j) # {} \/ \A k \in Position : k < j => ~Clears(block, k, "STATUS")
      PROVE  /\ RowContributors(row[j]) = SourceContributors(j)
             /\ \A c \in SourceContributors(j) :
                  block[j].needsLast /\ ~Clears(block, j, "STATUS") /\ LastContributorAt(block, c, j, "STATUS")
                    => \A k \in SourceContributors(j) \ {c} : row[k] < row[c]
  <2>1. /\ Position = 1 .. Len(block)
        /\ Len(block) \in Nat
        /\ \A p \in Position : row[p] \in Nat
    BY <1>1, BlockFacts DEF IInv, TypeOK
  <2>2. \A p, q \in Position : Edge(block, ignored, p, q) /\ Emitted(q) => Emitted(p) /\ row[p] < row[q]
    BY <1>1 DEF IInv, GraphRespected
  <2>3. \A w \in Position : j < w /\ Writes(block, w, "STATUS") => Edge(block, ignored, j, w)
    BY <1>1 DEF Edge, PairwiseConflict, Reads, Writes
  <2>4. ASSUME NEW c \in SourceContributors(j)
        PROVE  c \in Position /\ Emitted(c) /\ row[c] < row[j]
    <3>1. c \in Position /\ ContributorAt(block, c, j, "STATUS")
      BY DEF SourceContributors
    <3>2. Edge(block, ignored, c, j)
      BY <1>1, <3>1 DEF Edge, AccumulatingFlagEdge, ContributorAt
    <3> QED
      BY <1>1, <2>2, <3>1, <3>2
  <2>5. ASSUME NEW c \in SourceContributors(j) PROVE c \in RowContributors(row[j])
    <3>1. c \in Position /\ ContributorAt(block, c, j, "STATUS")
      BY DEF SourceContributors
    <3>2. ASSUME NEW k \in Position, Clears(block, k, "STATUS"), Emitted(k)
          PROVE  row[k] < row[c] \/ row[k] >= row[j]
      <4>1. CASE k < c
        BY <1>1, <2>4, <3>1, <3>2, <4>1, ClearOrdersContributors DEF ContributorAt
      <4>2. CASE k = j
        BY <2>1, <4>2
      <4>3. CASE j < k
        BY <1>1, <2>1, <2>2, <2>3, <3>2, <4>3 DEF Clears
      <4>4. k < c \/ k = j \/ j < k
        BY <2>1, <3>1, <3>2 DEF ContributorAt, Position, Contributes, Clears
      <4> QED
        BY <4>1, <4>2, <4>3, <4>4
    <3> QED
      BY <2>4, <3>1, <3>2 DEF RowContributors, ContributorAt
  <2>6. ASSUME NEW c \in RowContributors(row[j]) PROVE c \in SourceContributors(j)
    <3>1. c \in Position /\ Contributes(block, c, "STATUS") /\ Emitted(c) /\ row[c] < row[j]
      BY DEF RowContributors
    <3>2. c < j
      BY <1>1, <2>1, <2>2, <2>3, <3>1 DEF Contributes
    <3>3. ASSUME NEW k \in Position, Clears(block, k, "STATUS"), c < k, k < j PROVE FALSE
      <4>1. PICK d \in SourceContributors(j) : TRUE
        BY <1>1, <3>3
      <4>2. d \in Position /\ ContributorAt(block, d, j, "STATUS")
        BY DEF SourceContributors
      <4>3. k < d
        BY <2>1, <3>3, <4>2 DEF ContributorAt, Position, Contributes, Clears
      <4>4. Emitted(k) /\ row[k] < row[d]
        BY <1>1, <2>4, <3>3, <4>2, <4>3, ClearOrdersContributors DEF ContributorAt
      <4>5. row[c] < row[k]
        BY <1>1, <3>1, <3>3, <4>4, ClearOrdersContributors
      <4>6. row[k] < row[c] \/ row[k] >= row[j]
        BY <3>3, <4>4 DEF RowContributors
      <4> QED
        BY <2>1, <2>4, <3>1, <4>2, <4>4, <4>5, <4>6
    <3> QED
      BY <3>1, <3>2, <3>3 DEF SourceContributors, ContributorAt, Position
  <2>7. ASSUME NEW c \in SourceContributors(j), block[j].needsLast, ~Clears(block, j, "STATUS"),
               LastContributorAt(block, c, j, "STATUS"), NEW k \in SourceContributors(j) \ {c}
        PROVE  row[k] < row[c]
    <3>1. /\ c \in Position /\ ContributorAt(block, c, j, "STATUS")
          /\ k \in Position /\ ContributorAt(block, k, j, "STATUS")
      BY DEF SourceContributors
    <3>2. k < c
      BY <2>1, <2>7, <3>1 DEF LastContributorAt, ContributorAt, Position
    <3>3. AccumulatingFlagEdge(block, k, c, "STATUS")
      BY <1>1, <2>7, <3>1 DEF AccumulatingFlagEdge, Position
    <3>4. Edge(block, ignored, k, c)
      BY <3>2, <3>3 DEF Edge
    <3> QED
      BY <2>2, <2>4, <3>1, <3>4
  <2> QED
    BY <2>5, <2>6, <2>7
<1> QED
  BY <1>1 DEF StatusReadsPreserved

(* So are the bits a status reader sees.                                      *)
THEOREM StatusReadsCorrect == Spec => []StatusReadsPreserved
<1> QED
  BY StatusReadsFromGraph, IInvCorrect, PTL

-----------------------------------------------------------------------------
(* Reads of the resources no register names, whatever kind they are of: the   *)
(* scheduler may take any order the graph allows, and each of them finds what *)
(* it finds in the source.                                                    *)
THEOREM ImplicitReadsCorrect == Spec => []ImplicitReadsPreserved
<1>1. ResourceReadsPreserved /\ ClipReadsPreserved /\ StatusReadsPreserved => ImplicitReadsPreserved
  BY DEF ImplicitReadsPreserved
<1> QED
  BY <1>1, ResourceReadsCorrect, ClipReadsCorrect, StatusReadsCorrect, PTL

-----------------------------------------------------------------------------
(* What leaves the block: with every token emitted, the last writer of each   *)
(* register and of each live resource is the last in source order, CLIP keeps *)
(* its window, and the status register the contributors since the last clear. *)
LEMMA LiveOutFromGraph == IInv => LiveOutPreserved
<1> DEFINE end == Len(block) + 1
           last == rows + 1
<1>1. ASSUME IInv, \A i \in Position : Emitted(i)
      PROVE  /\ Position = 1 .. Len(block)
             /\ Len(block) \in Nat
             /\ rows \in Nat
             /\ \A p \in Position : row[p] \in Nat /\ row[p] < last
             /\ \A p, q \in Position : Edge(block, ignored, p, q) => row[p] < row[q]
  BY <1>1, BlockFacts DEF IInv, TypeOK, GraphRespected
<1>2. ASSUME IInv, \A i \in Position : Emitted(i), NEW W \in SUBSET Position,
             \A w \in W, k \in W : LastInSource(W, w, end) /\ k < w => Edge(block, ignored, k, w)
      PROVE  ReadPreserved(W, end, last)
  <2>1. ASSUME NEW w \in W, LastInSource(W, w, end) PROVE LastInRows(W, w, last)
    <3>1. \A k \in W \ {w} : k < w
      BY <1>1, <1>2, <2>1 DEF LastInSource
    <3>2. \A k \in W \ {w} : row[k] < row[w]
      BY <1>1, <1>2, <2>1, <3>1
    <3> QED
      BY <1>1, <1>2, <3>2 DEF LastInRows
  <2>2. (\A w \in W : w >= end) => W = {}
    BY <1>1, <1>2
  <2> QED
    BY <2>1, <2>2 DEF ReadPreserved
<1>3. ASSUME IInv, \A i \in Position : Emitted(i), NEW r \in Register
      PROVE  ReadPreserved(RegisterWriters(r), end, last)
  <2>1. \A w \in RegisterWriters(r), k \in RegisterWriters(r) : k < w => Edge(block, ignored, k, w)
    BY DEF RegisterWriters, Edge, RegisterConflict, RegisterWaw
  <2>2. RegisterWriters(r) \in SUBSET Position
    BY DEF RegisterWriters
  <2> QED
    BY <1>2, <1>3, <2>1, <2>2
<1>4. ASSUME IInv, \A i \in Position : Emitted(i), NEW res \in Resource \ (ignored \cup {"CLIP", "STATUS"})
      PROVE  ReadPreserved(ResourceWriters(res), end, last)
  <2>1. /\ ResourceWriters(res) \in SUBSET Position
        /\ \A k \in Position : k \in ResourceWriters(res) <=> Writes(block, k, res)
    BY DEF ResourceWriters, Writes
  <2>2. ASSUME NEW w \in ResourceWriters(res), NEW k \in ResourceWriters(res),
               LastInSource(ResourceWriters(res), w, end), k < w
        PROVE  Edge(block, ignored, k, w)
    <3>1. CASE res \in {"ACC", "MAC"}
      <4>1. LastWriterBefore(block, w, end, res)
        BY <1>1, <1>4, <2>1, <2>2 DEF LastInSource, LastWriterBefore, Position
      <4>2. IsFinalWriter(block, w, res, ignored)
        BY <1>4, <4>1 DEF IsFinalWriter
      <4> QED
        BY <2>1, <2>2, <3>1, <4>2 DEF Edge, RegisterFlagEdge
    <3>2. CASE res \notin {"ACC", "MAC"}
      <4>1. res \in PairwiseResource /\ res \notin ignored
        BY <1>4, <3>2 DEF PairwiseResource, PreciseResource
      <4> QED
        BY <2>1, <2>2, <4>1 DEF Edge, PairwiseConflict, Writes
    <3> QED
      BY <3>1, <3>2
  <2> QED
    BY <1>2, <1>4, <2>1, <2>2
<1>5. ASSUME IInv, \A i \in Position : Emitted(i), "CLIP" \notin ignored
      PROVE  WindowPreserved(ClipWriters, end, last)
  <2>1. ClipWriters \subseteq Position
    BY DEF ClipWriters, ResourceWriters
  <2>2. \A w \in ClipWriters : (Emitted(w) /\ row[w] < last) <=> w < end
    BY <1>1, <1>5, <2>1
  <2>3. \A a \in ClipWriters, b \in ClipWriters : a < b /\ b < end => row[a] < row[b]
    BY <1>5, <2>1, ClipChain
  <2>4. end \in Nat /\ last \in Nat
    BY <1>1, <1>5
  <2> QED
    BY <1>5, <2>2, <2>3, <2>4, WindowFromOrder
<1>6. ASSUME IInv, \A i \in Position : Emitted(i)
      PROVE  RowContributors(last) = SourceContributors(end)
  <2>1. ASSUME NEW c \in Position, NEW k \in Position,
               Contributes(block, c, "STATUS"), Clears(block, k, "STATUS")
        PROVE  /\ c < k => row[c] < row[k]
               /\ k < c => row[k] < row[c]
               /\ c # k
    BY <1>6, <2>1, ClearOrdersContributors DEF Contributes, Clears
  <2>2. ASSUME NEW c \in Position, Contributes(block, c, "STATUS")
        PROVE  c \in RowContributors(last) <=> c \in SourceContributors(end)
    <3>1. c \in RowContributors(last)
            <=> \A k \in Position : Clears(block, k, "STATUS") => row[k] < row[c]
      BY <1>1, <1>6, <2>2 DEF RowContributors
    <3>2. c \in SourceContributors(end)
            <=> \A k \in Position : Clears(block, k, "STATUS") => ~(c < k)
      BY <1>1, <1>6, <2>2 DEF SourceContributors, ContributorAt, Position
    <3> QED
      BY <1>1, <1>6, <2>1, <2>2, <3>1, <3>2
  <2> QED
    BY <2>2 DEF RowContributors, SourceContributors, ContributorAt
<1> QED
  BY <1>3, <1>4, <1>5, <1>6 DEF LiveOutPreserved, ClipWriters

(* So is what the block leaves behind.                                        *)
THEOREM LiveOutCorrect == Spec => []LiveOutPreserved
<1> QED
  BY LiveOutFromGraph, IInvCorrect, PTL
=============================================================================
