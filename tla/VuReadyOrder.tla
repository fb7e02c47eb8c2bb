----------------------------- MODULE VuReadyOrder -----------------------------
(***************************************************************************)
(* What the list scheduler promises of one segment, whatever heuristic     *)
(* picks among the ready tokens: scheduleReadySegmentIssueSlots            *)
(* (VuSchedulerAnalysis.cpp) builds the dependency graph, keeps per token  *)
(* the number of predecessors that have not been emitted, and at each      *)
(* round emits one token with none, or two of them side by side.  The row  *)
(* a token is emitted in is its issue order: the two tokens of one row     *)
(* read before either of them writes.                                      *)
(*                                                                         *)
(* The properties compare what each token reads in that order with what    *)
(* it reads when the block runs in source order.                           *)
(***************************************************************************)
EXTENDS VuDependencyGraph

CONSTANTS
  Blocks,     \* the segments the scheduler may be given
  IgnoredSets \* the masks ignoredFlagWawMaskForIndex may hand it

ASSUME BlocksAssumption == Blocks \subseteq BlockType
ASSUME IgnoredAssumption == IgnoredSets \subseteq SUBSET {"MAC", "CLIP", "STATUS"}

VARIABLES
  block,   \* the segment being scheduled
  ignored, \* ignoredImplicitWawResources
  row,     \* the row each token was emitted in, 0 while it was not
  rows     \* number of rows emitted

vars == <<block, ignored, row, rows>>

Position == DOMAIN block

Emitted(i) == row[i] # 0

(* Mutant: one emitted predecessor makes a token ready. *)
ReadyAfterFirst(i) ==
  /\ ~Emitted(i)
  /\ \/ \A p \in Position : ~Edge(block, ignored, p, i)
     \/ \E p \in Position : Edge(block, ignored, p, i) /\ Emitted(p)

(* incoming[i] = 0: every predecessor has been emitted. *)
Ready(i) ==
  /\ ~Emitted(i)
  /\ \A p \in Position : Edge(block, ignored, p, i) => Emitted(p)

Init ==
  /\ block \in Blocks
  /\ ignored \in IgnoredSets
  /\ row = [i \in DOMAIN block |-> 0]
  /\ rows = 0

(* Mutant: the row is counted before the tokens are stamped. *)
EmitRowLate(i, j) ==
  /\ Ready(i) /\ Ready(j)
  /\ row' = [k \in Position |-> IF k \in {i, j} THEN rows + 2 ELSE row[k]]
  /\ rows' = rows + 1
  /\ UNCHANGED <<block, ignored>>

(* One round: a ready token alone (i = j) or with a ready partner.  The      *)
(* partner is chosen before either is marked, so neither freed the other.    *)
EmitRow(i, j) ==
  /\ Ready(i)
  /\ Ready(j)
  /\ row' = [k \in Position |-> IF k \in {i, j} THEN rows + 1 ELSE row[k]]
  /\ rows' = rows + 1
  /\ UNCHANGED <<block, ignored>>

Done ==
  /\ \A i \in Position : Emitted(i)
  /\ UNCHANGED vars

Next == (\E i, j \in Position : EmitRow(i, j)) \/ Done

Spec == Init /\ [][Next]_vars

-----------------------------------------------------------------------------
(* What a reader sees *)

TypeOK ==
  /\ block \in BlockType
  /\ ignored \in IgnoredSets
  /\ rows \in Nat
  /\ row \in [Position -> 0 .. rows]

RegisterWriters(r)   == {i \in Position : r \in block[i].registerWrites}
ResourceWriters(res) == {i \in Position : res \in block[i].implicitWrites}

(* w is the writer a read at position j finds in source order. *)
LastInSource(W, w, j) ==
  /\ w \in W /\ w < j
  /\ \A k \in W : ~(w < k /\ k < j)

(* w is the writer a read in row r finds in the emitted order. *)
LastInRows(W, w, r) ==
  /\ w \in W /\ Emitted(w) /\ row[w] < r
  /\ \A k \in W \ {w} : ~Emitted(k) \/ row[k] < row[w] \/ row[k] >= r

(* A read at position j, done in row r, gets the value it gets in the source *)
(* order: from the same writer, or from before the block.                    *)
ReadPreserved(W, j, r) ==
  /\ \A w \in W : LastInSource(W, w, j) => LastInRows(W, w, r)
  /\ (\A w \in W : w >= j) => \A w \in W : ~Emitted(w) \/ row[w] >= r

(* The judgements pushed on the CLIP window before a read in row r are those *)
(* pushed before it in the source, each with the same pushes on top of it.   *)
WindowPreserved(W, j, r) ==
  \A w \in W :
    /\ (Emitted(w) /\ row[w] < r) <=> w < j
    /\ w < j => {k \in W : row[w] < row[k] /\ row[k] < r} = {k \in W : w < k /\ k < j}

-----------------------------------------------------------------------------
(* Safety *)

(* Every dependency edge is honoured: a token is never emitted before a token *)
(* it depends on, nor beside it.  This is what the incoming counters are for. *)
GraphRespected ==
  \A i, j \in Position :
    Edge(block, ignored, i, j) /\ Emitted(j) => Emitted(i) /\ row[i] < row[j]

(* Every register an emitted token reads holds the value it holds there in   *)
(* the source order.                                                         *)
RegisterReadsPreserved ==
  \A j \in Position : Emitted(j) =>
    \A r \in block[j].registerReads : ReadPreserved(RegisterWriters(r), j, row[j])

(* Every ACC, MAC, I, Q, P and R read gets the write it gets in the source:  *)
(* a second reader does not lose the writers the first one consumed.         *)
ResourceReadsPreserved ==
  \A j \in Position : Emitted(j) =>
    \A res \in block[j].implicitReads \ {"CLIP", "STATUS"} :
      ReadPreserved(ResourceWriters(res), j, row[j])

(* A CLIP reader finds the judgements of the source in the same window       *)
(* entries, so a positional mask selects what it names.                      *)
ClipReadsPreserved ==
  \A j \in Position : Emitted(j) /\ Reads(block, j, "CLIP") =>
    WindowPreserved(ResourceWriters("CLIP"), j, row[j])

(* The contributors whose bits are in the status register, in the source     *)
(* before position j and in the emitted order before row r.                  *)
SourceContributors(j) == {c \in Position : ContributorAt(block, c, j, "STATUS")}

RowContributors(r) ==
  {c \in Position :
     /\ Contributes(block, c, "STATUS") /\ Emitted(c) /\ row[c] < r
     /\ \A k \in Position : Clears(block, k, "STATUS") /\ Emitted(k)
                              => row[k] < row[c] \/ row[k] >= r}

(* A status reader sees the bits of exactly the contributors since the last  *)
(* FSSET, when there is one, and the last of them is still the last when the  *)
(* reader's mask names a non-sticky bit.                                     *)
StatusReadsPreserved ==
  \A j \in Position :
    /\ Emitted(j)
    /\ Reads(block, j, "STATUS")
    /\ SourceContributors(j) # {} \/ \A k \in Position : k < j => ~Clears(block, k, "STATUS")
    => /\ RowContributors(row[j]) = SourceContributors(j)
       /\ \A c \in SourceContributors(j) :
            block[j].needsLast /\ ~Clears(block, j, "STATUS") /\ LastContributorAt(block, c, j, "STATUS")
              => \A k \in SourceContributors(j) \ {c} : row[k] < row[c]

(* Each read of a resource no register names finds what it finds in the       *)
(* source, whether the resource is overwritten, shifted or accumulated.       *)
ImplicitReadsPreserved == ResourceReadsPreserved /\ ClipReadsPreserved /\ StatusReadsPreserved

(* A load or a store below a store keeps its place unless the two have        *)
(* different offsets from one value of one base.  The graph compares names    *)
(* and offsets only: that a base written in between keeps the pair ordered    *)
(* (a load above a store too) follows from the register edges.                *)
MemoryOrderPreserved ==
  \A i, j \in Position :
    /\ i < j /\ Emitted(j)
    /\ IsPlainAccess(block[i]) /\ IsPlainAccess(block[j])
    /\ "STORE" \in {block[i].memoryKind, block[j].memoryKind}
    /\ block[i].memoryBase # NoRegister
    /\ block[i].memoryBase = block[j].memoryBase
    /\ \/ /\ block[i].memoryKind = "STORE"
          /\ block[i].hasMemoryOffset /\ block[j].hasMemoryOffset
               => block[i].memoryOffset = block[j].memoryOffset
       \/ \E k \in RegisterWriters(block[i].memoryBase) : i < k /\ k < j
    => Emitted(i) /\ row[i] < row[j]

(* What the block leaves behind: the registers, and each resource some later *)
(* reader may find, are as the source order leaves them.                     *)
LiveOutPreserved ==
  (\A i \in Position : Emitted(i)) =>
    /\ \A r \in Register : ReadPreserved(RegisterWriters(r), Len(block) + 1, rows + 1)
    /\ \A res \in Resource \ (ignored \cup {"CLIP", "STATUS"}) :
         ReadPreserved(ResourceWriters(res), Len(block) + 1, rows + 1)
    /\ "CLIP" \notin ignored =>
         WindowPreserved(ResourceWriters("CLIP"), Len(block) + 1, rows + 1)
    /\ RowContributors(rows + 1) = SourceContributors(Len(block) + 1)

(* While a token is left, one is ready: the fallback that dumps the rest of  *)
(* the segment in source order is unreachable.                               *)
NeverStuck ==
  (\E i \in Position : ~Emitted(i)) => \E i \in Position : Ready(i)
=============================================================================
