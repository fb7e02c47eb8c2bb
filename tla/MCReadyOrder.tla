---------------------------- MODULE MCReadyOrder ----------------------------
(* Instances of VuReadyOrder: the tokens are rows of the instruction table   *)
(* over two or three registers, the blocks every sequence of a few of them.  *)
EXTENDS VuReadyOrder, FiniteSets

CONSTANT MaxLength  \* longest block

Base == [ registerReads |-> {}, registerWrites |-> {}, implicitReads |-> {},
          implicitWrites |-> {}, memoryKind |-> "NONE", memoryBase |-> "none",
          hasMemoryOffset |-> TRUE, memoryOffset |-> 0, needsLast |-> FALSE ]

Op(reads, writes) == [Base EXCEPT !.registerReads = reads, !.registerWrites = writes]

Implicit(t, reads, writes) == [t EXCEPT !.implicitReads = reads, !.implicitWrites = writes]

Access(t, kind, base, offset) ==
  [t EXCEPT !.memoryKind = kind, !.memoryBase = base, !.memoryOffset = offset,
            !.registerReads = @ \cup {base}]

BlocksOver(tokens) == UNION {[1 .. n -> tokens] : n \in 0 .. MaxLength}

(* Registers and memory: moves between two VF fields, an address increment,  *)
(* loads and stores through two bases, a store at an unevaluated offset.     *)
MemoryTokens ==
  { Op({"f1"}, {"f2"}), Op({"f2"}, {"f1"}),
    Op({"i1"}, {"i1"}), Op({"i2"}, {"i1"}),
    Access(Op({}, {"f1"}), "LOAD", "i1", 0),
    Access(Op({}, {"f2"}), "LOAD", "i2", 0),
    Access(Op({"f2"}, {}), "STORE", "i1", 0),
    Access(Op({"f1"}, {}), "STORE", "i1", 1),
    [Access(Op({"f2"}, {}), "STORE", "i1", 0) EXCEPT !.hasMemoryOffset = FALSE] }

MemoryBlocks == BlocksOver(MemoryTokens)

Fmac == Implicit(Base, {}, {"MAC", "STATUS"})

(* ACC, MAC and Q: the FMACs that do and do not use the accumulator, a MAC   *)
(* flag read, a division and its reader.                                     *)
ResourceTokens ==
  { Fmac,
    Implicit(Base, {}, {"ACC", "MAC", "STATUS"}),
    Implicit(Base, {"ACC"}, {"MAC", "STATUS"}),
    Implicit(Base, {"MAC"}, {}),
    Implicit(Base, {}, {"Q", "STATUS"}),
    Implicit(Base, {"Q"}, {"MAC", "STATUS"}) }

(* CLIP and STATUS: an FMAC, CLIP and FCAND, an FSAND of sticky bits and one *)
(* that names a non-sticky bit, and FSSET.                                   *)
FlagTokens ==
  { Fmac,
    Implicit(Base, {}, {"MAC", "CLIP", "STATUS"}),
    Implicit(Base, {"CLIP"}, {}),
    Implicit(Base, {"STATUS"}, {}),
    [Implicit(Base, {"STATUS"}, {}) EXCEPT !.needsLast = TRUE],
    Implicit(Base, {"STATUS"}, {"STATUS"}) }

AllBlocks == MemoryBlocks \cup BlocksOver(ResourceTokens) \cup BlocksOver(FlagTokens)

SomeIgnored == {{}, {"MAC", "CLIP"}}
=============================================================================
