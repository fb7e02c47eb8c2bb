-------------------------- MODULE VuDependencyGraph --------------------------
(***************************************************************************)
(* The dependency graph of one basic block, as buildVuDependencyGraph      *)
(* (VuSchedulerAnalysis.cpp) builds it.  A token is what                   *)
(* buildVuTokenResourceAccess extracts from an instruction: the register   *)
(* keys and the implicit resources it reads and writes, its memory access, *)
(* and whether a status read names one of the non-sticky bits.  A block is *)
(* a sequence of tokens; an edge <<i, j>> makes token i issue before j.    *)
(* The graph is stated as a relation on positions: the lists the code      *)
(* accumulates while it scans the block are the sets of positions they     *)
(* hold when the scan reaches a reader or the end of the block.            *)
(***************************************************************************)
EXTENDS Integers, Sequences

CONSTANTS
  Register,   \* register keys: a VI name, or a VF name with one field
  NoRegister  \* the base of a token that has no indirect argument

ASSUME NoRegisterAssumption == NoRegister \notin Register

(***************************************************************************)
(* enum VuResourceFlags, and the subset the pairwise tests of the builder  *)
(* leave to the flag passes (preciseImplicitResources).                    *)
(***************************************************************************)
Resource         == {"ACC", "I", "Q", "P", "R", "MAC", "CLIP", "STATUS"}
PreciseResource  == {"ACC", "MAC", "CLIP", "STATUS"}
PairwiseResource == Resource \ PreciseResource
AccumulatingResource == {"STATUS"}   \* VU_RESOURCE_ACCUMULATING

TokenRecord ==
  [ registerReads  : SUBSET Register,
    registerWrites : SUBSET Register,
    implicitReads  : SUBSET Resource,
    implicitWrites : SUBSET Resource,
    memoryKind     : {"NONE", "LOAD", "STORE", "XGKICK"},
    memoryBase     : Register \cup {NoRegister},
    hasMemoryOffset : BOOLEAN,
    memoryOffset   : Int,
    needsLast      : BOOLEAN ]

(* An indirect argument is a register the instruction reads. *)
TokenType == {t \in TokenRecord : t.memoryBase # NoRegister => t.memoryBase \in t.registerReads}

BlockType == Seq(TokenType)

-----------------------------------------------------------------------------
(* Register and pairwise implicit conflicts between a token and a later one *)

RegisterRaw(a, b) == a.registerWrites \cap b.registerReads # {}
(* Mutant: the sides of the intersection exchanged, so that a reader is free *)
(* to sink below the next write of its register.                             *)
RegisterWarSwapped(a, b) == a.registerWrites \cap b.registerReads # {}
RegisterWar(a, b) == a.registerReads \cap b.registerWrites # {}
RegisterWaw(a, b) == a.registerWrites \cap b.registerWrites # {}

RegisterConflict(a, b) == RegisterRaw(a, b) \/ RegisterWar(a, b) \/ RegisterWaw(a, b)

PairwiseConflict(a, b, ignored) ==
  \/ a.implicitWrites \cap b.implicitReads \cap PairwiseResource # {}
  \/ a.implicitReads \cap b.implicitWrites # {}
  \/ (a.implicitWrites \cap b.implicitWrites \cap PairwiseResource) \ ignored # {}

-----------------------------------------------------------------------------
(* Memory: the accesses that may not be exchanged *)

IsPlainAccess(t) == t.memoryKind \in {"LOAD", "STORE"}

(* Mutant: two known addresses, not compared. *)
MemoryDistinctByPresence(a, b) == a.memoryBase # NoRegister /\ b.memoryBase # NoRegister

(* plainMemoryAccessesAreDistinct: a different base register is taken as a  *)
(* different address, the same base is compared by offset when both offsets *)
(* evaluate to a constant.                                                  *)
MemoryDistinct(a, b) ==
  /\ a.memoryBase # NoRegister
  /\ b.memoryBase # NoRegister
  /\ \/ a.memoryBase # b.memoryBase
     \/ a.hasMemoryOffset /\ b.hasMemoryOffset /\ a.memoryOffset # b.memoryOffset

(* The exceptions vuTokenCanMoveBefore makes to its rule that nothing moves  *)
(* across a side effect, for two memory accesses.  The last one is           *)
(* plainStoreCanMoveBeforeComputation: a plain load has no side effect, so   *)
(* it counts as a computation and its address is not compared.               *)
MayExchange(moved, crossed) ==
  \/ moved.memoryKind = "LOAD"  /\ crossed.memoryKind = "STORE" /\ MemoryDistinct(moved, crossed)
  \/ moved.memoryKind = "STORE" /\ IsPlainAccess(crossed) /\ MemoryDistinct(moved, crossed)
  \/ moved.memoryKind = "STORE" /\ crossed.memoryKind = "LOAD"

(* memoryOrderRequiresDependency over vuTokenCanMoveBefore, for the accesses *)
(* a block can hold: plain loads and stores and a closing xgkick.            *)
MemoryConflict(a, b) ==
  /\ a.memoryKind # "NONE" /\ b.memoryKind # "NONE"
  /\ a.memoryKind # "LOAD" \/ b.memoryKind # "LOAD"
  /\ \/ ~ MayExchange(b, a)
     \/ b.implicitWrites \cap a.implicitReads # {}
     \/ a.implicitWrites \cap b.implicitReads # {}
     \/ (a.implicitWrites \cap b.implicitWrites) \ AccumulatingResource # {}
     \/ RegisterRaw(a, b) \/ RegisterRaw(b, a) \/ RegisterWaw(a, b)

-----------------------------------------------------------------------------
(* Positions that write and read an implicit resource *)

Writes(block, i, res) == res \in block[i].implicitWrites
Reads(block, i, res)  == res \in block[i].implicitReads

(* Mutant: a reader empties the list of pending writers, so that the next    *)
(* reader of the same value is ordered behind nothing.                       *)
LastWriterSinceReader(block, w, j, res) ==
  /\ w < j
  /\ Writes(block, w, res)
  /\ \A k \in DOMAIN block : w < k /\ k < j => ~Writes(block, k, res) /\ ~Reads(block, k, res)

(* pendingWriters.back() when the scan reaches position j: the last write  *)
(* of res before j, since no reader retires a writer.                      *)
LastWriterBefore(block, w, j, res) ==
  /\ w < j
  /\ Writes(block, w, res)
  /\ \A k \in DOMAIN block : w < k /\ k < j => ~Writes(block, k, res)

ReadAfter(block, w, res) == \E r \in DOMAIN block : w < r /\ Reads(block, r, res)

(* Mutant: the trailing group is left unordered even when it is live out. *)
IsFinalWriterOfReader(block, f, res, ignored) ==
  \E r \in DOMAIN block : Reads(block, r, res) /\ LastWriterBefore(block, f, r, res)

(* addPreciseImplicitFlagDependencies for a plain register (ACC, MAC): the  *)
(* last writer of each group goes before the reader, and every other writer *)
(* goes before the last writer of a group.  The trailing group has no       *)
(* reader and is ordered only when the resource leaves the block.           *)
IsFinalWriter(block, f, res, ignored) ==
  \/ \E r \in DOMAIN block : Reads(block, r, res) /\ LastWriterBefore(block, f, r, res)
  \/ /\ res \notin ignored
     /\ LastWriterBefore(block, f, Len(block) + 1, res)

RegisterFlagEdge(block, i, j, res, ignored) ==
  \/ Reads(block, j, res) /\ LastWriterBefore(block, i, j, res)
  \/ Writes(block, i, res) /\ Writes(block, j, res) /\ IsFinalWriter(block, j, res, ignored)

(* The same pass for CLIP, a window of the last four judgements: writers    *)
(* are chained instead (chainWriters), the trailing ones only if live out.  *)
WindowFlagEdge(block, i, j, res, ignored) ==
  /\ LastWriterBefore(block, i, j, res)
  /\ \/ Reads(block, j, res)
     \/ Writes(block, j, res) /\ (ReadAfter(block, j, res) \/ res \notin ignored)

(* addAccumulatingImplicitFlagDependencies for STATUS.  FSSET, which both   *)
(* reads and writes it, clears the list of contributors.                    *)
Clears(block, i, res)      == Reads(block, i, res) /\ Writes(block, i, res)
Contributes(block, i, res) == Writes(block, i, res) /\ ~Reads(block, i, res)

ContributorAt(block, c, j, res) ==
  /\ c < j
  /\ Contributes(block, c, res)
  /\ \A k \in DOMAIN block : c < k /\ k < j => ~Clears(block, k, res)

LastContributorAt(block, c, j, res) ==
  /\ ContributorAt(block, c, j, res)
  /\ \A k \in DOMAIN block : c < k /\ k < j => ~Contributes(block, k, res)

LastClearBefore(block, c, j, res) ==
  /\ c < j
  /\ Clears(block, c, res)
  /\ \A k \in DOMAIN block : c < k /\ k < j => ~Clears(block, k, res)

AccumulatingFlagEdge(block, i, j, res) ==
  \/ Reads(block, j, res) /\ ContributorAt(block, i, j, res)
  \/ Contributes(block, j, res) /\ LastClearBefore(block, i, j, res)
  \/ \E r \in DOMAIN block :
       /\ Reads(block, r, res)
       /\ ~Clears(block, r, res)
       /\ block[r].needsLast
       /\ ContributorAt(block, i, r, res)
       /\ LastContributorAt(block, j, r, res)

-----------------------------------------------------------------------------
(* Mutant: both directions, as if "after" ranged over the whole block. *)
EdgeBothWays(block, ignored, i, j) ==
  /\ i # j
  /\ RegisterConflict(block[i], block[j]) \/ PairwiseConflict(block[i], block[j], ignored)

(* buildVuDependencyGraph: position i must issue before position j.         *)
Edge(block, ignored, i, j) ==
  /\ i < j
  /\ \/ RegisterConflict(block[i], block[j])
     \/ PairwiseConflict(block[i], block[j], ignored)
     \/ MemoryConflict(block[i], block[j])
     \/ \E res \in {"ACC", "MAC"} : RegisterFlagEdge(block, i, j, res, ignored)
     \/ WindowFlagEdge(block, i, j, "CLIP", ignored)
     \/ AccumulatingFlagEdge(block, i, j, "STATUS")
=============================================================================
