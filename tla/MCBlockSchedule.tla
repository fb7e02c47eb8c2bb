---------------------------- MODULE MCBlockSchedule ----------------------------
(* Instances of VuBlockSchedule: rows of the instruction table, with their   *)
(* latencies, over a few registers.                                          *)
EXTENDS VuBlockSchedule

CONSTANT MaxLength  \* longest block

NoAccess == [ registerReads |-> {}, registerWrites |-> {}, implicitReads |-> {},
              implicitWrites |-> {}, memoryKind |-> "NONE", memoryBase |-> "none",
              hasMemoryOffset |-> TRUE, memoryOffset |-> 0, needsLast |-> FALSE ]

Upper(reads, writes, implicitReads, implicitWrites) ==
  [ access |-> [NoAccess EXCEPT !.registerReads = reads, !.registerWrites = writes,
                                !.implicitReads = implicitReads, !.implicitWrites = implicitWrites],
    form |-> "OTHER", latency |-> 3, lower |-> FALSE, candidate |-> TRUE ]

LowerOp(reads, writes, implicitReads, implicitWrites, latency) ==
  [Upper(reads, writes, implicitReads, implicitWrites) EXCEPT !.lower = TRUE, !.latency = latency]

AsTail(t) == [t EXCEPT !.candidate = FALSE]

Memory(t, kind, base) ==
  [t EXCEPT !.access.memoryKind = kind, !.access.memoryBase = base, !.access.registerReads = @ \cup {base}]

Add(a, b)     == Upper({a}, {b}, {}, {"MAC", "STATUS"})
MulQ(a, b)    == Upper({a}, {b}, {"Q"}, {"MAC", "STATUS"})
Clip(a)       == Upper({a}, {}, {}, {"MAC", "CLIP", "STATUS"})
Ftoi(a, b)    == [Upper({a}, {b}, {}, {"MAC", "STATUS"}) EXCEPT !.form = "FTOI"]
Div(a)        == LowerOp({a}, {}, {}, {"Q", "STATUS"}, 7)
Elength(a)    == LowerOp({a}, {}, {}, {"P"}, 18)
Mfp(a)        == LowerOp({}, {a}, {"P"}, {}, 4)
Move(a, b)    == [LowerOp({a}, {b}, {}, {}, 4) EXCEPT !.form = "MOVE"]
Mtir(a, i)    == [LowerOp({a}, {i}, {}, {}, 1) EXCEPT !.form = "MTIR"]
Iaddiu(i, j)  == LowerOp({i}, {j}, {}, {}, 1)
Lq(a, i)      == Memory([LowerOp({}, {a}, {}, {}, 3) EXCEPT !.form = "LQ"], "LOAD", i)
Ilw(j, i)     == Memory([LowerOp({}, {j}, {}, {}, 4) EXCEPT !.form = "ILW"], "LOAD", i)
Sq(a, i)      == Memory(LowerOp({a}, {}, {}, {}, 4), "STORE", i)
Fmand(i)      == LowerOp({}, {i}, {"MAC"}, {}, 1)
Fcand(i)      == LowerOp({}, {i}, {"CLIP"}, {}, 1)
Fsand(i)      == LowerOp({}, {i}, {"STATUS"}, {}, 1)
FsandLast(i)  == [Fsand(i) EXCEPT !.access.needsLast = TRUE]
Xgkick(i)     == Memory(AsTail(LowerOp({}, {}, {}, {}, 1)), "XGKICK", i)
Ibne(i)       == AsTail([LowerOp({i}, {}, {}, {}, 1) EXCEPT !.form = "BRANCH"])

(* A branch or an xgkick ends its block. *)
BlocksOver(tokens) ==
  {b \in UNION {[1 .. n -> tokens] : n \in 1 .. MaxLength} :
     \A i \in DOMAIN b :
       b[i].form = "BRANCH" \/ b[i].access.memoryKind = "XGKICK" => i = Len(b)}

(* One segment: every token is a candidate (--schedule-flag-readers). *)
SegmentBlocks ==
  BlocksOver({Add("f1", "f1"), MulQ("f1", "f2"), Div("f1"), Mfp("f2"), Elength("f1"),
              Move("f2", "f1"), Ilw("i1", "i2"), Iaddiu("i1", "i2"), Sq("f2", "i2"), Fmand("i1")})

(* Segments with a tail, and FMAC chains that outlast a division: the stalls *)
(* that hold up a reader of Q or P, the integer loads a branch reads.        *)
ChainBlocks ==
  BlocksOver({Add("f1", "f1"), MulQ("f1", "f2"), Div("f1"), Ilw("i1", "i2"), Ibne("i1"), Clip("f1"),
              AsTail(Fcand("i1"))})
  \cup {<<Div("f1"), Add("f1", "f1"), Add("f1", "f1"), Add("f1", "f1"), t, MulQ("f2", "f2")>>
          : t \in {Add("f1", "f1"), Ilw("i1", "i2"), Elength("f1")}}
  \cup {<<Elength("f1"), Add("f1", "f1"), t, Mfp("f2"), Ilw("i1", "i2"), Ibne("i1")>>
          : t \in {Add("f1", "f1"), Clip("f1"), Fmand("i1")}}

StallBlocks == SegmentBlocks \cup ChainBlocks

(* Segments cut by flag readers, kicks and branches, and a reader of the     *)
(* non-sticky status bits in the segment of its contributors and behind it.  *)
FlagBlocks ==
  BlocksOver({Add("f1", "f2"), Clip("f1"), Clip("f2"), Move("f2", "f1"),
              AsTail(Fcand("i1")), AsTail(Fmand("i1")), AsTail(FsandLast("i1")), Sq("f2", "i1"),
              Xgkick("i1"), Ibne("i1")})
  \cup {<<s, Add("f1", "f1"), Add("f1", "f2"), Add("f1", "f1"), t>>
          : s \in {AsTail(Fcand("i1")), Clip("f1")}, t \in {FsandLast("i1"), AsTail(FsandLast("i1"))}}

(* Timing: divisions and their readers among FMACs, integer loads, flag      *)
(* readers, and the conversions the bypasses forward into.                   *)
TimedBlocks ==
  BlocksOver({Add("f1", "f1"), MulQ("f1", "f2"), Div("f1"), Ilw("i1", "i2"), Iaddiu("i1", "i2"),
              Ftoi("f1", "f2"), Mtir("f2", "i1"), Clip("f1"), AsTail(Fcand("i1")),
              AsTail(Fsand("i2"))})

WordBlocks == FlagBlocks \cup TimedBlocks

NoLive    == {{}}
AnyLive   == {{}, {"CLIP"}, {"MAC"}}
================================================================================
