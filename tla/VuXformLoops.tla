----------------------------- MODULE VuXformLoops -----------------------------
(* The loops that transform vertices: what their emitters look for and the    *)
(* rows they write, one definition to a label of the listing.                 *)
EXTENDS VuLoopPatterns

--------------------------------------------------------------------------------
(* vsmFastNoLights: transform, divide, scale the texture coordinates.         *)

FastNoLightsIntegers ==
    << Clause("AdcAdd", AddOf("newAdc", "newAdc", "adcImmediate"), {"newAdc"}),
       Clause("InputIncrement", AddOf("input", "input", "inputStep"), {"input"}),
       Needing(Clause("OutputIncrement", AddOf("output", "output", "outputStep"),
                      {"output"}), {"ColorStore"}),
       Needing(Clause("AdcAdd", AddOf("newAdc", "stripAdc", "adcImmediate"),
                      {"stripAdc"}), {"StripLoad"}) >>

FastNoLightsMemory ==
    << Clause("VertexLoad", Lq("xyz", "vertex", 0, "input"), {"input"}),
       Clause("TexLoad", Lq("xyz", "xformedCopy", 2, "input"), {"input"}),
       Clause("StripLoad", Ilw("stripAdc", 0, "input"), {"input"}),
       Clause("TexStore", With(Sq("xyz", "tex", 0, "output"), "texStoreOffset"), {}),
       Clause("ColorStore", Sq("any", "color", 1, "output"), {}),
       Clause("GsStore", Sq("any", "gs", 2, "output"), {}) >>

FastNoLightsArithmetic ==
    << Form(Clause("Mulax", Bc("mula", "x", "any", "ACC", "row0", "vertex"), {}), "mulaxOp"),
       Form(Clause("Madday", Bc("madda", "y", "any", "ACC", "row1", "any"), {}), "maddayOp"),
       Form(Clause("Maddaz", Bc("madda", "z", "any", "ACC", "row2", "any"), {}), "maddazOp"),
       Form(Clause("Maddw", Bc("madd", "w", "any", "xformed", "row3", "any"), {}), "maddwOp"),
       Must(Clause("Div", Fdiv("div", "any", "xformed"), {}), {"xformed"}),
       Clause("Mfir", One("mfir", "any", "gs", "newAdc"), {}),
       Clause("Ftoi", One("ftoi4", "any", "gs", "any"), {}) >>

FastNoLightsEntry == <<"entry", <<
    Lower(Lq("xyz", "vertex", 0, "input")),
    <<As("mulaxOp", "ACC", "row0", "vertex"), Ilw("stripAdc", 0, "input")>>,
    Upper(As("maddayOp", "ACC", "row1", "vertex")),
    <<As("maddazOp", "ACC", "row2", "vertex"), Sq("xyzw", "color", 1, "output")>>,
    <<As("maddwOp", "xformed", "row3", "VF00"), Add("input", "input", 3)>>, Idle,
    Lower(If("ibeq", "input", "lastInput", "epilogOne")), Lower(Fdiv("div", "w", "xformed")) >> >>

FastNoLightsProlog == <<"prolog", <<
    <<Up("max", "xyz", "gs", "xformed", "xformed"), Lq("xyz", "vertex", 0, "input")>>,
    <<As("mulaxOp", "ACC", "row0", "vertex"), Sq("xyzw", "color", 4, "output")>>,
    <<As("maddayOp", "ACC", "row1", "vertex"), Lq("xyz", "tex", -1, "input")>>,
    <<As("maddazOp", "ACC", "row2", "vertex"), Add("input", "input", 3)>>,
    <<As("maddwOp", "xformed", "row3", "VF00"), AddOf("newAdc", "stripAdc", "adcImmediate")>>,
    <<One("mulq", "xyz", "gs", "gs"), Add("output", "output", 6)>>,
    Lower(Ilw("stripAdc", -3, "input")),
    Lower(If("ibeq", "input", "lastInput", "epilogTwo")),
    <<One("mulq", "xyz", "tex", "tex"), Fdiv("div", "w", "xformed")>> >> >>

FastNoLightsMain == <<"main", <<
    <<One("ftoi4", "xyz", "gs", "gs"), Lq("xyz", "vertex", 0, "input")>>,
    Lower(One("mfir", "w", "gs", "newAdc")), Lower(Sq("xyzw", "color", 1, "output")),
    <<Up("max", "xyz", "xformedCopy", "xformed", "xformed"), Sq("xyz", "tex", -6, "output")>>,
    <<As("mulaxOp", "ACC", "row0", "vertex"), Lq("xyz", "tex", -1, "input")>>,
    <<As("maddayOp", "ACC", "row1", "vertex"), Sq("xyzw", "gs", -4, "output")>>,
    <<As("maddazOp", "ACC", "row2", "vertex"), Add("input", "input", 3)>>,
    <<As("maddwOp", "xformed", "row3", "VF00"), AddOf("newAdc", "stripAdc", "adcImmediate")>>,
    <<One("mulq", "xyz", "gs", "xformedCopy"), Add("output", "output", 3)>>,
    Lower(Ilw("stripAdc", -3, "input")), Lower(If("ibne", "input", "lastInput", "main")),
    <<One("mulq", "xyz", "tex", "tex"), Fdiv("div", "w", "xformed")>> >> >>

FastNoLightsEpilogTwo == <<"epilogTwo", <<
    Idle, Upper(One("ftoi4", "xyz", "gs", "gs")), Lower(One("mfir", "w", "gs", "newAdc")),
    Lower(Sq("xyz", "tex", -6, "output")), Lower(Lq("xyz", "tex", -1, "input")),
    <<One("mulq", "xyz", "gs", "xformed"), Sq("xyzw", "gs", -4, "output")>>,
    <<One("mulq", "xyz", "tex", "tex"), AddOf("newAdc", "stripAdc", "adcImmediate")>>,
    Lower(One("mfir", "w", "gs", "newAdc")), Upper(One("ftoi4", "xyz", "gs", "gs")),
    Lower(Sq("xyz", "tex", -3, "output")), Lower(Jump("exit")),
    Lower(Sq("xyzw", "gs", -1, "output")) >> >>

FastNoLightsEpilogOne == <<"epilogOne", <<
    Idle, Idle,
    <<Up("max", "xyz", "gs", "xformed", "xformed"), Lq("xyz", "tex", -1, "input")>>,
    <<One("mulq", "xyz", "gs", "gs"), AddOf("newAdc", "stripAdc", "adcImmediate")>>,
    <<One("mulq", "xyz", "tex", "tex"), One("mfir", "w", "gs", "newAdc")>>,
    Upper(One("ftoi4", "xyz", "gs", "gs")), Lower(Sq("xyz", "tex", 0, "output")),
    Lower(Sq("xyzw", "gs", 2, "output")) >> >>

FastNoLightsAt == [program |-> "vsmFastNoLights", label |-> "xform_loop_lid"]

FastNoLights ==
    [clauses  |-> FastNoLightsIntegers \o FastNoLightsMemory \o FastNoLightsArithmetic,
     scratch  |-> Always(Scratch(<<>>, <<>>, {})),
     exact    |-> {[inputStep |-> 3, outputStep |-> 3, texStoreOffset |-> 0]},
     listing  |-> Always(<<FastNoLightsEntry, FastNoLightsProlog, FastNoLightsMain,
                           FastNoLightsEpilogTwo, FastNoLightsEpilogOne>>)] @@ FastNoLightsAt @@ Shape

--------------------------------------------------------------------------------
(* vsmFast: the same with the colours of three directional lights.            *)

FastLitIntegers ==
    << Clause("AdcAdd", AddOf("newAdc", "newAdc", "adcImmediate"), {"newAdc"}),
       Clause("InputIncrement", AddOf("input", "input", "inputStep"), {"input"}),
       Clause("OutputIncrement", AddOf("output", "output", "outputStep"), {"output"}),
       Clause("AdcAdd", AddOf("newAdc", "stripAdc", "adcImmediate"), {"stripAdc"}) >>

FastLitMemory ==
    << Clause("VertexLoad", Lq("xyz", "vertex", 0, "input"), {"input"}),
       Clause("NormalLoad", Lq("xyz", "normal", 1, "input"), {"input"}),
       Clause("TexLoad", Lq("xyz", "texInput", 2, "input"), {"input"}),
       Clause("StripLoad", Ilw("stripAdc", 0, "input"), {"input"}),
       Clause("TexStore", Sq("xyz", "texOutput", 0, "output"), {}),
       Clause("ColorStore", Sq("any", "color", 1, "output"), {}),
       Clause("GsStore", Sq("any", "gs", 2, "output"), {}) >>

FastLitProducts ==
    << Form(Clause("TransformMulax", Bc("mula", "x", "any", "ACC", "row0", "vertex"),
                   {"vertex"}), "transformMulaxOp"),
       Form(Clause("LightDirMulax", Bc("mula", "x", "any", "ACC", "lightDir0", "normal"),
                   {"normal"}), "lightDirMulaxOp"),
       Form(Clause("LightColorMulax", Bc("mula", "x", "any", "ACC", "lightColor0",
                   "clampedCosines"), {"clampedCosines"}), "lightColorMulaxOp"),
       Form(Clause("TransformMadday", Bc("madda", "y", "any", "ACC", "row1", "vertex"),
                   {"vertex"}), "transformMaddayOp"),
       Form(Clause("LightDirMadday", Bc("madda", "y", "any", "ACC", "lightDir1", "normal"),
                   {"normal"}), "lightDirMaddayOp"),
       Form(Clause("LightColorMadday", Bc("madda", "y", "any", "ACC", "lightColor1",
                   "clampedCosines"), {"clampedCosines"}), "lightColorMaddayOp") >>

FastLitSums ==
    << Form(Clause("TransformMaddaz", Bc("madda", "z", "any", "ACC", "row2", "vertex"),
                   {"vertex"}), "transformMaddazOp"),
       Form(Clause("TransformMaddaz", Bc("madd", "z", "any", "any", "row2", "vertex"),
                   {"vertex"}), "transformMaddazOp"),
       Form(Clause("LightDirMaddz", Bc("madd", "z", "any", "cosines", "lightDir2", "normal"),
                   {"normal"}), "lightDirMaddzOp"),
       Form(Clause("LightColorMaddz", Bc("madd", "z", "any", "color", "lightColor2",
                   "clampedCosines"), {"clampedCosines"}), "lightColorMaddzOp"),
       Form(Clause("TransformMaddw", Bc("madd", "w", "any", "xformed", "row3", "any"), {}),
            "transformMaddwOp") >>

FastLitResults ==
    << Clause("CosineMax", Bc("max", "any", "xyz", "clampedCosines", "cosines", "any"),
              {"cosines"}),
       Clause("ColorAdd", Bc("add", "any", "xyz", "color", "color", "constantColor"), {"color"}),
       Clause("ColorMin", Bc("mini", "w", "xyz", "color", "color", "maxColor"), {"color"}),
       Must(Clause("Div", Fdiv("div", "any", "xformed"), {}), {"xformed"}),
       Clause("Mfir", One("mfir", "any", "gs", "newAdc"), {}),
       Clause("Ftoi", One("ftoi4", "any", "gs", "any"), {}),
       Clause("TransformMulq", One("mulq", "any", "any", "xformed"), {"xformed"}),
       Clause("TexMulq", One("mulq", "any", "texOutput", "texInput"), {"texInput"}) >>

FastLitEntry == <<"entry", <<
    Lower(Lq("xyz", "normal", 1, "input")),
    Upper(As("lightDirMulaxOp", "ACC", "lightDir0", "normal")),
    <<As("lightDirMaddayOp", "ACC", "lightDir1", "normal"), Lq("xyz", "vertex", 0, "input")>>,
    Upper(As("lightDirMaddzOp", "cosines", "lightDir2", "normal")),
    Upper(As("transformMulaxOp", "ACC", "row0", "vertex")),
    Upper(Up("max", "xyz", "clampedCosines", "cosines", "VF00")),
    Upper(As("transformMaddayOp", "ACC", "row1", "vertex")),
    <<As("transformMaddazOp", "ACC", "row2", "vertex"), Add("input", "input", 3)>>,
    Upper(As("transformMaddwOp", "xformed", "row3", "VF00")),
    <<As("lightColorMulaxOp", "ACC", "lightColor0", "clampedCosines"), If("ibeq", "input", "lastInput", "epilogOne")>>,
    <<As("lightColorMaddayOp", "ACC", "lightColor1", "clampedCosines"), Add("output", "output", 0)>> >> >>

FastLitProlog == <<"prolog", <<
    <<As("lightColorMaddzOp", "colorRaw", "lightColor2", "clampedCosines"), Lq("xyz", "normal", 1, "input")>>,
    Lower(Fdiv("div", "w", "xformed")), Lower(Lq("xyz", "vertex", 0, "input")),
    Upper(As("lightDirMulaxOp", "ACC", "lightDir0", "normal")),
    Upper(As("lightDirMaddayOp", "ACC", "lightDir1", "normal")),
    Upper(As("lightDirMaddzOp", "cosines", "lightDir2", "normal")),
    Upper(As("transformMulaxOp", "ACC", "row0", "vertex")),
    <<As("transformMaddayOp", "ACC", "row1", "vertex"), Ilw("stripAdc", -3, "input")>>,
    <<As("transformMaddazOp", "ACC", "row2", "vertex"), One("move", "xyz", "xformedCarry", "xformed")>>,
    <<Up("max", "xyz", "clampedCosines", "cosines", "VF00"), Add("output", "output", 6)>>,
    <<As("transformMaddwOp", "xformed", "row3", "VF00"), Add("input", "input", 3)>>,
    <<Up("add", "xyz", "colorAccum", "colorRaw", "constantColor"), AddOf("newAdc", "stripAdc", "adcImmediate")>>,
    <<One("mulq", "xyz", "xformedQ", "xformedCarry"), One("mfir", "w", "gs", "newAdc")>>,
    <<As("lightColorMulaxOp", "ACC", "lightColor0", "clampedCosines"), If("ibeq", "input", "lastInput", "epilogTwo")>>,
    <<As("lightColorMaddayOp", "ACC", "lightColor1", "clampedCosines"), Lq("xyz", "texInput", -4, "input")>> >> >>

FastLitMain == <<"main", <<
    <<As("lightColorMaddzOp", "colorRaw", "lightColor2", "clampedCosines"), Lq("xyz", "normal", 1, "input")>>,
    <<Bc("mini", "w", "xyz", "color", "colorAccum", "maxColor"), Add("output", "output", 3)>>,
    Upper(One("ftoi4", "xyz", "gs", "xformedQ")),
    <<One("mulq", "xyz", "texOutput", "texInput"), Lq("xyz", "vertex", 0, "input")>>,
    <<As("lightDirMulaxOp", "ACC", "lightDir0", "normal"), Fdiv("div", "w", "xformed")>>,
    <<As("lightDirMaddayOp", "ACC", "lightDir1", "normal"), Sq("xyzw", "color", -8, "output")>>,
    Upper(As("lightDirMaddzOp", "cosines", "lightDir2", "normal")),
    <<As("transformMulaxOp", "ACC", "row0", "vertex"), Ilw("stripAdc", -3, "input")>>,
    <<As("transformMaddayOp", "ACC", "row1", "vertex"), Add("input", "input", 3)>>,
    <<As("transformMaddazOp", "ACC", "row2", "vertex"), One("move", "xyz", "xformedCarry", "xformed")>>,
    <<Up("max", "xyz", "clampedCosines", "cosines", "VF00"), Sq("xyz", "texOutput", -9, "output")>>,
    <<As("transformMaddwOp", "xformed", "row3", "VF00"), AddOf("newAdc", "stripAdc", "adcImmediate")>>,
    <<Up("add", "xyz", "colorAccum", "colorRaw", "constantColor"), Sq("xyzw", "gs", -7, "output")>>,
    <<One("mulq", "xyz", "xformedQ", "xformedCarry"), One("mfir", "w", "gs", "newAdc")>>,
    <<As("lightColorMulaxOp", "ACC", "lightColor0", "clampedCosines"), If("ibne", "input", "lastInput", "main")>>,
    <<As("lightColorMaddayOp", "ACC", "lightColor1", "clampedCosines"), Lq("xyz", "texInput", -4, "input")>> >> >>

FastLitEpilogTwo == <<"epilogTwo", <<
    <<As("lightColorMaddzOp", "colorRaw", "lightColor2", "clampedCosines"), Fdiv("div", "w", "xformed")>>,
    <<Bc("mini", "w", "xyz", "color", "colorAccum", "maxColor"), Ilw("stripAdc", -3, "input")>>,
    Upper(One("ftoi4", "xyz", "gs", "xformedQ")),
    <<One("mulq", "xyz", "texOutput", "texInput"), One("move", "xyz", "xformedCarry", "xformed")>>,
    Lower(Sq("xyzw", "color", -5, "output")),
    <<Up("add", "xyz", "colorAccum", "colorRaw", "constantColor"), Sq("xyzw", "gs", -4, "output")>>,
    <<One("mulq", "xyz", "xformedQ", "xformedCarry"), Sq("xyz", "texOutput", -6, "output")>>,
    Lower(AddOf("newAdc", "stripAdc", "adcImmediate")),
    Lower(Lq("xyz", "texInput", -1, "input")),
    <<Bc("mini", "w", "xyz", "color", "colorAccum", "maxColor"), One("mfir", "w", "gs", "newAdc")>>,
    Upper(One("ftoi4", "xyz", "gs", "xformedQ")),
    Upper(One("mulq", "xyz", "texOutput", "texInput")),
    Lower(Sq("xyzw", "color", -2, "output")), Lower(Sq("xyzw", "gs", -1, "output")),
    Lower(Jump("exit")), Lower(Sq("xyz", "texOutput", -3, "output")) >> >>

FastLitEpilogOne == <<"epilogOne", <<
    Idle,
    <<As("lightColorMaddzOp", "colorRaw", "lightColor2", "clampedCosines"), Fdiv("div", "w", "xformed")>>,
    Lower(One("move", "xyz", "xformedCarry", "xformed")),
    <<Up("add", "xyz", "colorAccum", "colorRaw", "constantColor"), Lq("xyz", "texInput", -1, "input")>>,
    Lower(Ilw("stripAdc", -3, "input")),
    <<One("mulq", "xyz", "xformedQ", "xformedCarry"), Wait("waitq")>>,
    Lower(AddOf("newAdc", "stripAdc", "adcImmediate")),
    <<Bc("mini", "w", "xyz", "color", "colorAccum", "maxColor"), One("mfir", "w", "gs", "newAdc")>>,
    Upper(One("ftoi4", "xyz", "gs", "xformedQ")),
    Upper(One("mulq", "xyz", "texOutput", "texInput")),
    Lower(Sq("xyzw", "color", 1, "output")), Lower(Sq("xyzw", "gs", 2, "output")),
    Lower(Sq("xyz", "texOutput", 0, "output")) >> >>

FastLitAt == [program |-> "vsmFast", label |-> "xform_loop_lid"]

FastLit ==
    [clauses  |-> FastLitIntegers \o FastLitMemory \o FastLitProducts \o FastLitSums
                  \o FastLitResults,
     scratch  |-> Always(Scratch(<<"colorAccum", "colorRaw", "xformedCarry", "xformedQ">>, <<"VF22", "VF23", "VF24", "VF25">>, {})),
     exact    |-> {[inputStep |-> 3, outputStep |-> 3]},
     listing  |-> Always(<<FastLitEntry, FastLitProlog, FastLitMain, FastLitEpilogTwo,
                           FastLitEpilogOne>>)] @@ FastLitAt @@ Shape

--------------------------------------------------------------------------------
(* vsmSCEI: lit, and clipped against the guard band.                          *)

SceiIntegers ==
    << Clause("AdcAdd", AddOf("newAdc", "newAdc", "adcImmediate"), {"newAdc"}),
       Clause("InputIncrement", AddOf("input", "input", "inputStep"), {"input"}),
       Clause("OutputIncrement", AddOf("output", "output", "outputStep"), {"output"}) >>

SceiMemory == FastLitMemory

SceiProducts == FastLitProducts

\* A plain product of the transform's z row is not looked for.
SceiSums == SelectSeq(FastLitSums,
                      LAMBDA c : ~(c.have = "TransformMaddaz" /\ c.like.op = "madd"))

SceiClipping ==
    << Clause("ClipMul", Up("mul", "xyz", "clipped", "xformed", "clipScales"), {"xformed"}),
       Clause("GsAdd", Bc("add", "any", "xyz", "gs", "xformed", "gsOffsets"), {"xformed"}),
       Clause("Clipw", Up("clip", "any", "", "clipped", "clipScales"), {"clipped"}),
       Clause("Fcand", Flag("fcand", "any", "any", "clipImmediate"), {}),
       Clause("AdcOr", Vi("ior", "newAdc", "VI01", "stripAdc"), {"stripAdc"}),
       Clause("AdcOr", Vi("ior", "newAdc", "stripAdc", "VI01"), {"stripAdc"}) >>

SceiResults == SceiClipping \o FastLitResults

SceiEntry == <<"entry", <<
    Lower(Lq("xyz", "vertex", 0, "input")),
    Upper(As("transformMulaxOp", "ACC", "row0", "vertex")),
    <<As("transformMaddayOp", "ACC", "row1", "vertex"), Lq("xyz", "normal", 1, "input")>>,
    Upper(As("transformMaddazOp", "ACC", "row2", "vertex")),
    Upper(As("transformMaddwOp", "xformed", "row3", "VF00")),
    Upper(As("lightDirMulaxOp", "ACC", "lightDir0", "normal")),
    Upper(As("lightDirMaddayOp", "ACC", "lightDir1", "normal")),
    <<As("lightDirMaddzOp", "cosines", "lightDir2", "normal"), Fdiv("div", "w", "xformed")>>,
    <<Up("max", "xyz", "clampedCosines", "cosines", "VF00"), Add("input", "input", 3)>>,
    Idle, Lower(If("ibeq", "input", "lastInput", "epilogOne")),
    <<One("mulq", "xyz", "xformedQ", "xformed"), Add("output", "output", 0)>> >> >>

SceiProlog == <<"prolog", <<
    <<As("lightColorMulaxOp", "ACC", "lightColor0", "clampedCosines"), Lq("xyz", "vertex", 0, "input")>>,
    Upper(As("lightColorMaddayOp", "ACC", "lightColor1", "clampedCosines")),
    Upper(As("lightColorMaddzOp", "colorRaw", "lightColor2", "clampedCosines")),
    Upper(Up("mul", "xyz", "clipped", "xformedQ", "clipScales")),
    <<As("transformMulaxOp", "ACC", "row0", "vertex"), Lq("xyz", "normal", 1, "input")>>,
    Upper(As("transformMaddayOp", "ACC", "row1", "vertex")),
    Upper(As("transformMaddazOp", "ACC", "row2", "vertex")),
    Upper(As("transformMaddwOp", "xformed", "row3", "VF00")),
    Upper(As("lightDirMulaxOp", "ACC", "lightDir0", "normal")),
    Upper(As("lightDirMaddayOp", "ACC", "lightDir1", "normal")),
    <<As("lightDirMaddzOp", "cosines", "lightDir2", "normal"), Lq("xyz", "texInput", -1, "input")>>,
    <<Up("clip", "xyz", "", "clipped", "clipScales"), Fdiv("div", "w", "xformed")>>,
    <<Up("add", "xyz", "gs", "xformedQ", "gsOffsets"), Ilw("stripAdc", -3, "input")>>,
    <<Up("add", "xyz", "color", "colorRaw", "constantColor"), Add("output", "output", 6)>>,
    <<Up("max", "xyz", "clampedCosines", "cosines", "VF00"), Add("input", "input", 3)>>,
    <<One("mulq", "xyz", "texOutput", "texInput"), Flag("fcand", "VI01", "VI00", "clipImmediate")>>,
    <<One("ftoi4", "xyz", "gs", "gs"), Vi("ior", "newAdc", "VI01", "stripAdc")>>,
    <<Bc("mini", "w", "xyz", "color", "color", "maxColor"), If("ibeq", "input", "lastInput", "epilogTwo")>>,
    <<One("mulq", "xyz", "xformedQ", "xformed"), AddOf("newAdc", "newAdc", "adcImmediate")>> >> >>

SceiMain == <<"main", <<
    <<As("lightColorMulaxOp", "ACC", "lightColor0", "clampedCosines"), Lq("xyz", "vertex", 0, "input")>>,
    <<As("lightColorMaddayOp", "ACC", "lightColor1", "clampedCosines"), Lq("xyz", "normal", 1, "input")>>,
    <<As("lightColorMaddzOp", "colorRaw", "lightColor2", "clampedCosines"), Add("output", "output", 3)>>,
    <<Up("mul", "xyz", "clipped", "xformedQ", "clipScales"), Sq("xyzw", "color", -8, "output")>>,
    <<As("transformMulaxOp", "ACC", "row0", "vertex"), Sq("xyz", "texOutput", -9, "output")>>,
    <<As("transformMaddayOp", "ACC", "row1", "vertex"), One("mfir", "w", "gs", "newAdc")>>,
    Upper(As("transformMaddazOp", "ACC", "row2", "vertex")),
    Upper(As("transformMaddwOp", "xformed", "row3", "VF00")),
    Upper(As("lightDirMulaxOp", "ACC", "lightDir0", "normal")),
    <<As("lightDirMaddayOp", "ACC", "lightDir1", "normal"), Sq("xyzw", "gs", -7, "output")>>,
    <<As("lightDirMaddzOp", "cosines", "lightDir2", "normal"), Lq("xyz", "texInput", -1, "input")>>,
    <<Up("clip", "xyz", "", "clipped", "clipScales"), Fdiv("div", "w", "xformed")>>,
    <<Up("add", "xyz", "gs", "xformedQ", "gsOffsets"), Ilw("stripAdc", -3, "input")>>,
    Upper(Up("add", "xyz", "color", "colorRaw", "constantColor")),
    <<Up("max", "xyz", "clampedCosines", "cosines", "VF00"), Add("input", "input", 3)>>,
    <<One("mulq", "xyz", "texOutput", "texInput"), Flag("fcand", "VI01", "VI00", "clipImmediate")>>,
    <<One("ftoi4", "xyz", "gs", "gs"), Vi("ior", "newAdc", "VI01", "stripAdc")>>,
    <<Bc("mini", "w", "xyz", "color", "color", "maxColor"), If("ibne", "input", "lastInput", "main")>>,
    <<One("mulq", "xyz", "xformedQ", "xformed"), AddOf("newAdc", "newAdc", "adcImmediate")>> >> >>

SceiEpilogTwo == <<"epilogTwo", <<
    Idle,
    <<As("lightColorMulaxOp", "ACC", "lightColor0", "clampedCosines"), Sq("xyz", "texOutput", -6, "output")>>,
    <<As("lightColorMaddayOp", "ACC", "lightColor1", "clampedCosines"), One("mfir", "w", "gs", "newAdc")>>,
    <<Up("mul", "xyz", "clipped", "xformedQ", "clipScales"), Sq("xyzw", "color", -5, "output")>>,
    Upper(As("lightColorMaddzOp", "colorRaw", "lightColor2", "clampedCosines")),
    <<Up("add", "xyz", "gs", "xformedQ", "gsOffsets"), Sq("xyzw", "gs", -4, "output")>>,
    <<Up("clip", "xyz", "", "clipped", "clipScales"), Lq("xyz", "texInput", -1, "input")>>,
    <<Up("add", "xyz", "color", "colorRaw", "constantColor"), Ilw("stripAdc", -3, "input")>>,
    <<One("mulq", "xyz", "texOutput", "texInput"), Flag("fcand", "VI01", "VI00", "clipImmediate")>>,
    <<Bc("mini", "w", "xyz", "color", "color", "maxColor"), Vi("ior", "newAdc", "VI01", "stripAdc")>>,
    <<One("ftoi4", "xyz", "gs", "gs"), AddOf("newAdc", "newAdc", "adcImmediate")>>,
    Lower(One("mfir", "w", "gs", "newAdc")), Lower(Sq("xyz", "texOutput", -3, "output")),
    Lower(Sq("xyzw", "color", -2, "output")), Lower(Jump("exit")),
    Lower(Sq("xyzw", "gs", -1, "output")) >> >>

SceiEpilogOne == <<"epilogOne", <<
    Idle, Idle, Upper(As("lightColorMulaxOp", "ACC", "lightColor0", "clampedCosines")),
    Upper(Up("mul", "xyz", "clipped", "xformedQ", "clipScales")),
    Upper(As("lightColorMaddayOp", "ACC", "lightColor1", "clampedCosines")),
    Upper(As("lightColorMaddzOp", "colorRaw", "lightColor2", "clampedCosines")),
    <<Up("clip", "xyz", "", "clipped", "clipScales"), Lq("xyz", "texInput", -1, "input")>>,
    <<Up("add", "xyz", "gs", "xformedQ", "gsOffsets"), Ilw("stripAdc", -3, "input")>>,
    Upper(Up("add", "xyz", "color", "colorRaw", "constantColor")),
    <<One("mulq", "xyz", "texOutput", "texInput"), Flag("fcand", "VI01", "VI00", "clipImmediate")>>,
    <<One("ftoi4", "xyz", "gs", "gs"), Vi("ior", "newAdc", "VI01", "stripAdc")>>,
    <<Bc("mini", "w", "xyz", "color", "color", "maxColor"), AddOf("newAdc", "newAdc", "adcImmediate")>>,
    Lower(One("mfir", "w", "gs", "newAdc")), Lower(Sq("xyz", "texOutput", 0, "output")),
    Lower(Sq("xyzw", "color", 1, "output")), Lower(Sq("xyzw", "gs", 2, "output")) >> >>

SceiAt == [program |-> "vsmSCEI", label |-> "xform_loop_lid"]

Scei ==
    [clauses  |-> SceiIntegers \o SceiMemory \o SceiProducts \o SceiSums \o SceiResults,
     scratch  |-> Always(Scratch(<<"xformedQ", "colorRaw">>, <<"VF24", "VF25">>, {})),
     exact    |-> {[inputStep |-> 3, outputStep |-> 3]},
     listing  |-> Always(<<SceiEntry, SceiProlog, SceiMain, SceiEpilogTwo, SceiEpilogOne>>)] @@ SceiAt @@ Shape

--------------------------------------------------------------------------------
(* Any other program's xform_loop_lid: clipped, and culled by the sign of the *)
(* cross product of two edges.  Strict: nothing may be left over.             *)

LinearXformIntegers ==
    << Clause("AdcAdd", AddOf("newAdc", "newAdc", "adcImmediate"), {"newAdc"}),
       Clause("InputIncrement", AddOf("input", "input", "inputStep"), {"input"}),
       Clause("OutputIncrement", AddOf("output", "output", "outputStep"), {"output"}) >>

LinearXformMemory ==
    << Clause("VertexLoad", Lq("xyz", "vertex", 0, "input"), {"input"}),
       Clause("TexLoad", Lq("xyz", "tex", 2, "input"), {"input"}),
       Clause("StripLoad", Ilw("stripAdc", 0, "input"), {"input"}),
       Clause("TexStore", Sq("xyz", "tex", 0, "output"), {}),
       Clause("ColorStore", Sq("xyz", "constantColor", 1, "output"), {}),
       Clause("GsStore", Sq("any", "gs", 2, "output"), {}) >>

LinearXformProducts ==
    << Form(Clause("Mulax", Bc("mula", "x", "any", "any", "row0", "any"), {}),
            "transformMulaxOp"),
       Form(Clause("Madday", Bc("madda", "y", "any", "any", "row1", "any"), {}),
            "transformMaddayOp"),
       Form(Clause("Maddaz", Bc("madda", "z", "any", "any", "row2", "any"), {}),
            "transformMaddazOp"),
       Form(Clause("Maddw", Bc("madd", "w", "any", "xformed", "row3", "any"), {}),
            "transformMaddwOp"),
       Must(Clause("Div", Fdiv("div", "any", "xformed"), {}), {"xformed"}),
       Clause("XformedMulq", One("mulq", "xyz", "any", "xformed"), {"xformed"}),
       Sets(Clause("TexMulq", One("mulq", "xyz", "any", "tex"), {"tex"}), "tex"),
       Clause("GsAdd", Bc("add", "any", "xyz", "gs", "xformed", "gsOffsets"), {"xformed"}),
       Clause("Ftoi", One("ftoi4", "any", "gs", "any"), {}),
       Clause("Mfir", One("mfir", "any", "gs", "newAdc"), {"gs", "newAdc"}) >>

LinearXformCulling ==
    << Clause("Sub", Bc("sub", "any", "xyz", "delta", "oldVertex", "xformed"), {"xformed"}),
       Clause("Opmula", Up("opmula", "any", "any", "delta", "oldDelta"), {"delta"}),
       Clause("Opmsub", Up("opmsub", "any", "bfcNormal", "oldDelta", "delta"),
              {"oldDelta", "delta"}),
       Clause("Fmand", Flag("fmand", "zSign", "zSignMask", ""), {}),
       Clause("ZSignSub", Vi("isub", "zSign", "zSign", "zSignSwitch"), {"zSign"}),
       Clause("ZSwitchSub", Vi("isub", "zSignSwitch", "zSignMask", "zSignSwitch"),
              {"zSignSwitch", "zSignMask"}),
       Clause("StripFlip", Vi("iand", "stripFlip", "stripAdc", "zSignMask"),
              {"stripAdc", "zSignMask"}),
       Clause("ZSignMask", Vi("iand", "zSign", "zSign", "zSignMask"), {"zSign", "zSignMask"}),
       Clause("ZSwitchOr", Vi("ior", "zSignSwitch", "zSignSwitch", "stripFlip"),
              {"zSignSwitch", "stripFlip"}),
       Clause("OldDelta", Bc("mul", "w", "xyz", "oldDelta", "delta", "bfcMultiplier"),
              {"oldDelta", "delta"}),
       Clause("OldVertex", Bc("mul", "w", "xyz", "oldVertex", "xformed", "any"),
              {"oldVertex", "xformed"}) >>

LinearXformClipping ==
    << Clause("ClipMul", Up("mul", "xyz", "clipped", "xformed", "clipScales"), {"xformed"}),
       Clause("Clipw", Up("clip", "any", "", "clipped", "clipScales"), {"clipped"}),
       Clause("Fcand", Flag("fcand", "clipResult", "VI00", "clipImmediate"), {}),
       Clause("ClipIand", Vi("iand", "clipResult", "clipResult", "doClipping"),
              {"clipResult"}),
       Clause("AdcOrClip", Vi("ior", "newAdc", "clipResult", "zSign"),
              {"clipResult", "zSign"}),
       Clause("AdcOrStrip", Vi("ior", "newAdc", "newAdc", "stripAdc"),
              {"newAdc", "stripAdc"}) >>

LinearXformEntry == <<"entry", <<
    Lower(Lq("xyz", "vertex", 0, "input")), Lower(Ilw("stripAdc", 0, "input")),
    Lower(Lq("xyz", "tex", 2, "input")), Lower(Sq("xyz", "constantColor", 1, "output")),
    Upper(As("transformMulaxOp", "ACC", "row0", "vertex")),
    <<As("transformMaddayOp", "ACC", "row1", "vertex"), Vi("iand", "stripFlip", "stripAdc", "zSignMask")>>,
    Upper(As("transformMaddazOp", "ACC", "row2", "vertex")),
    Upper(As("transformMaddwOp", "xformed", "row3", "VF00")), Idle, Idle, Idle, Idle,
    Lower(Fdiv("div", "w", "xformed")),
    <<One("mulq", "xyz", "xformed", "xformed"), Wait("waitq")>>, Idle, Idle, Idle, Idle,
    Upper(Up("add", "xyz", "gs", "xformed", "gsOffsets")), Idle, Idle, Idle, Idle,
    Upper(One("ftoi4", "xyz", "gs", "gs")),
    Upper(Up("sub", "xyz", "delta", "oldVertex", "xformed")), Idle, Idle, Idle, Idle,
    Upper(Up("opmula", "xyz", "ACC", "delta", "oldDelta")),
    Upper(Up("opmsub", "xyz", "bfcNormal", "oldDelta", "delta")), Idle, Idle, Idle,
    Lower(Flag("fmand", "zSign", "zSignMask", "")),
    <<Up("mul", "xyz", "clipped", "xformed", "clipScales"), Vi("isub", "zSign", "zSign", "zSignSwitch")>>,
    <<Bc("mul", "w", "xyz", "oldDelta", "delta", "bfcMultiplier"), Vi("isub", "zSignSwitch", "zSignMask", "zSignSwitch")>>,
    <<Up("max", "xyz", "oldVertex", "xformed", "xformed"), Vi("iand", "zSign", "zSign", "zSignMask")>>,
    <<One("mulq", "xyz", "tex", "tex"), Vi("ior", "zSignSwitch", "zSignSwitch", "stripFlip")>>,
    Idle, Idle, Idle, Upper(Up("clip", "xyz", "", "clipped", "clipScales")), Idle, Idle,
    Idle, Lower(Flag("fcand", "clipResult", "VI00", "clipImmediate")),
    Lower(Vi("iand", "clipResult", "clipResult", "doClipping")),
    Lower(Vi("ior", "newAdc", "clipResult", "zSign")),
    Lower(Vi("ior", "newAdc", "newAdc", "stripAdc")),
    Lower(AddOf("newAdc", "newAdc", "adcImmediate")),
    Lower(One("mfir", "w", "gs", "newAdc")), Lower(Sq("xyz", "tex", 0, "output")), Idle,
    Idle, Lower(Sq("xyzw", "gs", 2, "output")), Lower(AddOf("input", "input", "inputStep")),
    Lower(If("ibne", "input", "lastInput", "prolog")), Lower(AddOf("output", "output", "outputStep")),
    Lower(Jump("exit")), Idle >> >>

LinearXformProlog == <<"prolog", <<
    Lower(Lq("xyz", "vertex", 0, "input")), Lower(Ilw("stripAdc", 0, "input")),
    Lower(Lq("xyz", "tex", 2, "input")),
    Upper(As("transformMulaxOp", "ACC", "row0", "vertex")),
    <<As("transformMaddayOp", "ACC", "row1", "vertex"), Vi("iand", "stripFlip", "stripAdc", "zSignMask")>>,
    Upper(As("transformMaddazOp", "ACC", "row2", "vertex")),
    Upper(As("transformMaddwOp", "xformed", "row3", "VF00")), Idle, Idle, Idle,
    Lower(Fdiv("div", "w", "xformed")),
    <<One("mulq", "xyz", "xformed", "xformed"), Wait("waitq")>>,
    Upper(Up("add", "xyz", "gs", "xformed", "gsOffsets")),
    Upper(Up("sub", "xyz", "delta", "oldVertex", "xformed")),
    Upper(Up("mul", "xyz", "clipped", "xformed", "clipScales")),
    Upper(Up("opmula", "xyz", "ACC", "delta", "oldDelta")),
    Upper(Up("opmsub", "xyz", "bfcNormal", "oldDelta", "delta")), Idle, Idle,
    Upper(Up("clip", "xyz", "", "clipped", "clipScales")),
    Lower(Flag("fmand", "zSign", "zSignMask", "")),
    Lower(Vi("isub", "zSign", "zSign", "zSignSwitch")),
    Lower(Vi("iand", "zSign", "zSign", "zSignMask")),
    Lower(Vi("isub", "zSignSwitch", "zSignMask", "zSignSwitch")),
    Lower(Vi("ior", "zSignSwitch", "zSignSwitch", "stripFlip")),
    Lower(Flag("fcand", "clipResult", "VI00", "clipImmediate")),
    Lower(AddOf("input", "input", "inputStep")), Lower(If("ibeq", "input", "lastInput", "epilog")),
    Idle >> >>

LinearXformMain == <<"main", <<
    <<One("ftoi4", "xyz", "gs", "gs"), Vi("iand", "clipResult", "clipResult", "doClipping")>>,
    <<One("mulq", "xyz", "tex", "tex"), Vi("ior", "newAdc", "clipResult", "zSign")>>,
    <<Up("max", "xyz", "oldVertex", "xformed", "xformed"), Vi("ior", "newAdc", "newAdc", "stripAdc")>>,
    <<Bc("mul", "w", "xyz", "oldDelta", "delta", "bfcMultiplier"), AddOf("newAdc", "newAdc", "adcImmediate")>>,
    Lower(One("mfir", "w", "gs", "newAdc")), Lower(Sq("xyz", "constantColor", 1, "output")),
    Lower(Sq("xyz", "tex", 0, "output")), Lower(Sq("xyzw", "gs", 2, "output")),
    Lower(Lq("xyz", "vertex", 0, "input")), Lower(Ilw("stripAdc", 0, "input")),
    Lower(Lq("xyz", "tex", 2, "input")),
    Upper(As("transformMulaxOp", "ACC", "row0", "vertex")),
    <<As("transformMaddayOp", "ACC", "row1", "vertex"), Vi("iand", "stripFlip", "stripAdc", "zSignMask")>>,
    Upper(As("transformMaddazOp", "ACC", "row2", "vertex")),
    Upper(As("transformMaddwOp", "xformed", "row3", "VF00")), Idle, Idle, Idle,
    Lower(Fdiv("div", "w", "xformed")),
    <<One("mulq", "xyz", "xformed", "xformed"), Wait("waitq")>>,
    Upper(Up("add", "xyz", "gs", "xformed", "gsOffsets")),
    Upper(Up("sub", "xyz", "delta", "oldVertex", "xformed")),
    Upper(Up("mul", "xyz", "clipped", "xformed", "clipScales")),
    Upper(Up("opmula", "xyz", "ACC", "delta", "oldDelta")),
    Upper(Up("opmsub", "xyz", "bfcNormal", "oldDelta", "delta")), Idle,
    Upper(Up("clip", "xyz", "", "clipped", "clipScales")), Idle,
    Lower(Flag("fmand", "zSign", "zSignMask", "")),
    Lower(Vi("isub", "zSign", "zSign", "zSignSwitch")),
    Lower(Vi("iand", "zSign", "zSign", "zSignMask")),
    Lower(Vi("isub", "zSignSwitch", "zSignMask", "zSignSwitch")),
    Lower(Vi("ior", "zSignSwitch", "zSignSwitch", "stripFlip")),
    Lower(Flag("fcand", "clipResult", "VI00", "clipImmediate")),
    Lower(AddOf("input", "input", "inputStep")), Lower(If("ibne", "input", "lastInput", "main")),
    Lower(AddOf("output", "output", "outputStep")) >> >>

LinearXformEpilog == <<"epilog", <<
    <<One("ftoi4", "xyz", "gs", "gs"), Vi("iand", "clipResult", "clipResult", "doClipping")>>,
    Lower(Vi("ior", "newAdc", "clipResult", "zSign")),
    Lower(Vi("ior", "newAdc", "newAdc", "stripAdc")),
    Lower(AddOf("newAdc", "newAdc", "adcImmediate")),
    <<One("mulq", "xyz", "tex", "tex"), One("mfir", "w", "gs", "newAdc")>>,
    Lower(Sq("xyz", "constantColor", 1, "output")), Lower(Sq("xyz", "tex", 0, "output")),
    Idle, Lower(Sq("xyzw", "gs", 2, "output")) >> >>

LinearXformAt == [label |-> "xform_loop_lid"]

LinearXform ==
    [clauses  |-> LinearXformIntegers \o LinearXformMemory \o LinearXformProducts
                  \o LinearXformCulling \o LinearXformClipping,
     strict   |-> Operations,
     xyzOnly  |-> {"lq"},
     instead  |-> <<"stripFlip", "clipResult", "newAdc">>,
     scratch  |-> Always(Scratch(<<>>, <<>>, {})),
     exact    |-> {[inputStep |-> 3, outputStep |-> 3], [inputStep |-> 4, outputStep |-> 3]},
     listing  |-> Always(<<LinearXformEntry, LinearXformProlog, LinearXformMain,
                           LinearXformEpilog>>)] @@ LinearXformAt @@ Shape

--------------------------------------------------------------------------------
(* Any program's final_loop_lid: clamp a colour and convert it, in place.     *)

FinalColorClauses ==
    << Clause("Load", With(Lq("xyz", "color", 0, "input"), "loadOffset"), {"input"}),
       Clause("InputIncrement", AddOf("input", "input", "inputStep"), {"input"}),
       Clause("Mini", Bc("mini", "any", "xyz", "color", "color", "any"), {"color"}),
       Clause("Mini", One("minii", "xyz", "color", "color"), {"color"}),
       Clause("Ftoi", One("ftoi0", "xyz", "color", "color"), {"color"}),
       Clause("Store", With(Sq("any", "color", 0, "input"), "storeOffset"),
              {"input", "color"}) >>

FinalColorEntry == <<"entry", <<
    Lower(Lq("xyz", "color", 1, "input")), Lower(Add("input", "input", 3)),
    <<One("minii", "xyz", "min", "color"), If("ibeq", "input", "lastInput", "epilogOne")>>,
    Idle >> >>

FinalColorProlog == <<"prolog", <<
    Lower(Lq("xyz", "output", 1, "input")), Lower(Add("input", "input", 3)), Idle,
    <<One("ftoi0", "xyz", "color", "min"), If("ibeq", "input", "lastInput", "epilogTwo")>>,
    Upper(One("minii", "xyz", "min", "output")) >> >>

FinalColorMain == <<"main", <<
    Lower(Lq("xyz", "output", 1, "input")), Lower(Add("input", "input", 3)),
    Lower(Sq("xyzw", "color", -8, "input")),
    <<One("ftoi0", "xyz", "color", "min"), If("ibne", "input", "lastInput", "main")>>,
    Upper(One("minii", "xyz", "min", "output")) >> >>

FinalColorEpilogTwo == <<"epilogTwo", <<
    Idle, Idle, Idle,
    <<One("ftoi0", "xyz", "color", "min"), Sq("xyzw", "color", -5, "input")>>,
    Lower(Jump("exit")), Lower(Sq("xyzw", "color", -2, "input")) >> >>

FinalColorEpilogOne == <<"epilogOne", <<
    Idle, Idle, Upper(One("ftoi0", "xyz", "color", "min")), Idle,
    Lower(Sq("xyzw", "color", -2, "input")) >> >>

FinalColorAt == [label |-> "final_loop_lid"]

FinalColor ==
    [clauses  |-> FinalColorClauses,
     scratch  |-> Always(Scratch(<<"min", "output">>, <<"VF24", "VF25", "VF26">>, {"color"})),
     exact    |-> {[inputStep |-> 3, loadOffset |-> 1, storeOffset |-> -2]},
     listing  |-> Always(<<FinalColorEntry, FinalColorProlog, FinalColorMain,
                           FinalColorEpilogTwo, FinalColorEpilogOne>>)] @@ FinalColorAt @@ Shape
================================================================================
