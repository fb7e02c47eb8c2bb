----------------------------- MODULE VuLightLoops -----------------------------
(* The loops that light vertices, with a directional or a point light and     *)
(* with or without a highlight: what their emitters look for and the rows     *)
(* they write.  A pipelined loop here never finishes its own last turns: it   *)
(* takes its increments back and leaves them to a scalar loop behind it.      *)
EXTENDS VuLoopPatterns

--------------------------------------------------------------------------------
(* dir_light_vert_loop_lid without a highlight.                               *)

DirLightNoSpecMemory ==
    << Same(Clause("NormalLoad", With(Lq("xyz", "normal", 0, "input"), "normalOffset"), {}),
            {"input"}),
       Same(Clause("ColorLoad", With(Lq("xyz", "color", 0, "output"), "colorOffset"), {}),
            {"output"}),
       Clause("InputIncrement", AddOf("input", "input", "inputStep"), {"input"}),
       Clause("OutputIncrement", AddOf("output", "output", "outputStep"), {"output"}),
       Clause("Store", With(Sq("xyz", "result", 0, "output"), "storeOffset"),
              {"output", "result"}) >>

DirLightNoSpecArithmetic ==
    << Clause("Mul", Up("mul", "xyz", "product", "lightDir", "normal"), {"normal"}),
       Clause("Adday", Bc("adda", "y", "z", "any", "product", "any"), {"product"}),
       Clause("Maddx", Bc("madd", "x", "z", "product", "dotBase", "product"), {"product"}),
       Clause("Maxx", Bc("max", "x", "z", "product", "product", "any"), {"product"}),
       Clause("Mulz", Bc("mul", "z", "xyz", "scaled", "lightColor", "product"), {"product"}),
       Clause("Mula", Bc("mula", "any", "xyz", "any", "scaled", "materialMul"), {"scaled"}),
       Clause("Madd", Up("madd", "xyz", "lit", "materialAdd", "ambient"), {}),
       Clause("Add", Bc("add", "any", "xyz", "result", "color", "lit"), {"color", "lit"}) >>

DirLightNoSpecEntry == <<"entry", <<
    Lower(Lq("xyz", "normal", 1, "input")), Lower(Lq("xyz", "color", 1, "output")),
    Lower(Add("input", "input", 3)), Idle, Idle,
    <<Up("mul", "xyz", "product", "lightDir", "normal"), If("ibeq", "input", "lastInput", "fallbackOne")>>,
    Idle >> >>

DirLightNoSpecPrologOne == <<"prologOne", <<
    <<Bc("adda", "y", "z", "ACC", "product", "product"), Lq("xyz", "normal", 1, "input")>>,
    Upper(Bc("madd", "x", "z", "dot", "dotBase", "product")),
    <<Up("mul", "xyz", "product", "lightDir", "normal"), Add("input", "input", 3)>>, Idle,
    Lower(If("ibeq", "input", "lastInput", "fallbackTwo")),
    Upper(Bc("max", "x", "z", "dot", "dot", "VF00")) >> >>

DirLightNoSpecPrologTwo == <<"prologTwo", <<
    <<Bc("adda", "y", "z", "ACC", "product", "product"), Lq("xyz", "normal", 1, "input")>>,
    Upper(Bc("madd", "x", "z", "dotNext", "dotBase", "product")),
    <<Up("mul", "xyz", "product", "lightDir", "normal"), Add("input", "input", 3)>>, Idle,
    <<Bc("mul", "z", "xyz", "scaled", "lightColor", "dot"), If("ibeq", "input", "lastInput", "fallbackThree")>>,
    Upper(Bc("max", "x", "z", "dot", "dotNext", "VF00")) >> >>

DirLightNoSpecPrologThree == <<"prologThree", <<
    <<Bc("adda", "y", "z", "ACC", "product", "product"), Lq("xyz", "normal", 1, "input")>>,
    Upper(Bc("madd", "x", "z", "dotNext", "dotBase", "product")),
    Upper(Up("mula", "xyz", "ACC", "scaled", "materialMul")),
    <<Up("mul", "xyz", "product", "lightDir", "normal"), Add("input", "input", 3)>>,
    Upper(Bc("mul", "z", "xyz", "scaled", "lightColor", "dot")),
    <<Up("madd", "xyz", "lit", "materialAdd", "ambient"), If("ibeq", "input", "lastInput", "fallbackFour")>>,
    Upper(Bc("max", "x", "z", "dot", "dotNext", "VF00")) >> >>

DirLightNoSpecMain == <<"main", <<
    <<Bc("adda", "y", "z", "ACC", "product", "product"), Lq("xyz", "normal", 1, "input")>>,
    Upper(Bc("madd", "x", "z", "dotNext", "dotBase", "product")),
    <<Up("add", "xyz", "result", "color", "lit"), Add("output", "output", 3)>>,
    Upper(Up("mula", "xyz", "ACC", "scaled", "materialMul")),
    <<Up("mul", "xyz", "product", "lightDir", "normal"), Add("input", "input", 3)>>,
    <<Up("madd", "xyz", "lit", "materialAdd", "ambient"), Lq("xyz", "color", 1, "output")>>,
    <<Bc("mul", "z", "xyz", "scaled", "lightColor", "dot"), If("ibne", "input", "lastInput", "main")>>,
    <<Bc("max", "x", "z", "dot", "dotNext", "VF00"), Sq("xyz", "result", -2, "output")>> >> >>

DirLightNoSpecDrain == <<"drain", <<
    Lower(Less("input", "input", 12)), Lower(Jump("scalar")), Idle >> >>

DirLightNoSpecFallbackOne == <<"fallbackOne", <<
    Lower(Less("input", "input", 3)), Lower(Jump("scalar")), Idle >> >>

DirLightNoSpecFallbackTwo == <<"fallbackTwo", <<
    Lower(Less("input", "input", 6)), Lower(Jump("scalar")), Idle >> >>

DirLightNoSpecFallbackThree == <<"fallbackThree", <<
    Lower(Less("input", "input", 9)), Lower(Jump("scalar")), Idle >> >>

DirLightNoSpecFallbackFour == <<"fallbackFour", <<
    Lower(Less("input", "input", 12)), Lower(Jump("scalar")), Idle >> >>

DirLightNoSpecScalar == <<"scalar", <<
    Lower(Lq("xyz", "normal", 1, "input")), Lower(Lq("xyz", "color", 1, "output")),
    Lower(Add("input", "input", 3)), Idle, Idle,
    Upper(Up("mul", "xyz", "product", "lightDir", "normal")), Idle, Idle, Idle, Idle,
    Upper(Bc("adda", "y", "z", "ACC", "product", "product")),
    Upper(Bc("madd", "x", "z", "product", "dotBase", "product")), Idle, Idle, Idle, Idle,
    Upper(Bc("max", "x", "z", "product", "product", "VF00")), Idle, Idle, Idle, Idle,
    Upper(Bc("mul", "z", "xyz", "scaled", "lightColor", "product")), Idle, Idle, Idle, Idle,
    Upper(Up("mula", "xyz", "ACC", "scaled", "materialMul")),
    Upper(Up("madd", "xyz", "lit", "materialAdd", "ambient")), Idle, Idle, Idle, Idle,
    Upper(Up("add", "xyz", "result", "color", "lit")), Idle, Idle, Idle, Idle,
    Lower(Sq("xyz", "result", 1, "output")),
    Lower(If("ibne", "input", "lastInput", "scalar")), Lower(Add("output", "output", 3)) >> >>

DirLightNoSpecAt == [label |-> "dir_light_vert_loop_lid"]

DirLightNoSpec ==
    [clauses  |-> DirLightNoSpecMemory \o DirLightNoSpecArithmetic,
     strict   |-> Operations,
     inOrder  |-> TRUE,
     scratch  |-> Always(Scratch(<<"dot", "dotNext">>,
                      <<"VF24", "VF25", "VF26", "VF27", "VF28", "VF29", "VF30", "VF31">>,
                      {"normal", "color", "lightDir", "product", "dotBase", "lightColor",
                       "materialMul", "materialAdd", "ambient", "scaled", "lit", "result"})),
     exact    |-> {[inputStep |-> 3, outputStep |-> 3, normalOffset |-> 1,
                    colorOffset |-> 1, storeOffset |-> 1]},
     listing  |-> Always(<<DirLightNoSpecEntry, DirLightNoSpecPrologOne,
                            DirLightNoSpecPrologTwo, DirLightNoSpecPrologThree,
                            DirLightNoSpecMain, DirLightNoSpecDrain,
                            DirLightNoSpecFallbackOne, DirLightNoSpecFallbackTwo,
                            DirLightNoSpecFallbackThree, DirLightNoSpecFallbackFour,
                            DirLightNoSpecScalar>>)] @@ DirLightNoSpecAt @@ Shape
--------------------------------------------------------------------------------
(* dir_light_vert_loop_lid with a highlight, the fifth squaring of a cosine.  *)
(* The material's colour may be the input's fourth quadword, and the result   *)
(* stored with a post-increment.                                              *)

DirLightSpecMemory ==
    << Clause("NormalLoad", Lq("xyz", "normal", 1, "input"), {"input"}),
       Marks(Clause("MaterialLoad", Lq("xyz", "materialDiff", 3, "input"), {"input"}),
             "fromInput"),
       Beside(Same(Clause("ColorLoad", Lq("xyz", "color", 0, "output"), {}), {"output"}),
              "input"),
       Marks(Beside(Same(Clause("ColorLoad", Lq("xyz", "color", 1, "output"), {}),
                         {"output"}), "input"), "colorOffset"),
       Clause("InputIncrement", AddOf("input", "input", "inputStep"), {"input"}),
       Clause("OutputIncrement", AddOf("output", "output", "outputStep"), {"output"}),
       Clause("Store", With(Sq("xyz", "result", 0, "output"), "storeOffset"),
              {"output", "result"}),
       Marks(Clause("Store", Sqi("xyz", "result", "output"), {"output", "result"}),
             "postInc") >>

DirLightSpecDiffuse ==
    << First(Clause("DiffuseMul", Up("mul", "xyz", "diffProduct", "lightDir", "normal"),
                    {"normal"})),
       Needing(First(Clause("SpecMul", Up("mul", "xyz", "specProduct", "halfAngle", "normal"),
                            {"normal"})), {"DiffuseMul"}),
       Clause("Adday", Bc("adda", "y", "z", "any", "diffProduct", "any"), {"diffProduct"}),
       Clause("Maddx", Bc("madd", "x", "z", "diffProduct", "ones", "diffProduct"),
              {"diffProduct"}),
       Clause("DiffuseMax", Bc("max", "x", "z", "diffProduct", "diffProduct", "any"),
              {"diffProduct"}),
       Clause("LocalDiff", Bc("mul", "z", "xyz", "localDiff", "lightDiff", "diffProduct"),
              {"diffProduct"}),
       Needing(Must(Clause("Mula", Bc("mula", "any", "xyz", "any", "localDiff", "materialDiff"),
                           {"localDiff"}), {"materialDiff"}), {"MaterialLoad"}),
       Clause("Mula", Bc("mula", "any", "xyz", "any", "localDiff", "materialDiff"),
              {"localDiff"}) >>

\* Five squarings, of the intensity or of a square of it, and any number more.
Squares == <<"Power2", "Power4", "Power8", "Power16", "Power32">>

Squaring(have, r) ==
    Sets(Clause(have, Up("mul", "w", "any", r, r), {"specIntensity", r}), "specPower")

SpecPower ==
    FlattenSeq([k \in DOMAIN Squares |->
        [j \in 1 .. 2 |->
            Needing(First(Squaring(Squares[k], <<"specIntensity", "specPower">>[j])),
                    {Squares[n] : n \in 1 .. k - 1})]])
    \o << Squaring("", "specIntensity"), Squaring("", "specPower") >>

DirLightSpecHighlight ==
    << Clause("Mr32", One("mr32", "any", "specSwizzle", "specProduct"), {"specProduct"}),
       Clause("Addax", Bc("adda", "x", "w", "any", "specSwizzle", "any"), {"specSwizzle"}),
       Clause("Maddy", Bc("madd", "y", "w", "specScratch", "any", "specSwizzle"),
              {"specSwizzle"}),
       Clause("SpecMax", Bc("max", "x", "w", "specIntensity", "specScratch", "any"),
              {"specScratch"}) >>
    \o SpecPower \o
    << Clause("Maddaw", Bc("madda", "w", "xyz", "any", "localSpec", "any"), {}),
       Clause("Madd", Up("madd", "xyz", "lit", "lightAmb", "materialAmb"), {}),
       Clause("Add", Bc("add", "any", "xyz", "result", "color", "lit"), {"color", "lit"}) >>

\* Mutant: the material is never the loaded one.
MaterialKept(fromInput) == "materialDiff"

\* What depends on where the material's colour comes from and on the store.
Material(fromInput)   == IF fromInput THEN "pipeMaterial" ELSE "materialDiff"

InputStep(fromInput)  == IF fromInput THEN 4 ELSE 3

PipedMaterial(fromInput, turns) ==
    IF fromInput THEN Lq("xyz", "pipeMaterial", 3 - turns * InputStep(fromInput), "input")
    ELSE Nop

ScalarMaterial(fromInput) ==
    IF fromInput THEN <<Lower(Lq("xyz", "materialDiff", 3, "input"))>> ELSE <<>>

LightStore(r, k, postInc) ==
    IF postInc THEN Sqi("xyz", r, "output") ELSE Sq("xyz", r, k, "output")

\* What the output's increment is, where the store does not do it.
OutputStep(postInc) == IF postInc THEN Nop ELSE Add("output", "output", 3)

\* Mutant: a turn too few is taken back.
TakenBackShort(label, fromInput, turns) ==
    <<label, << Lower(Less("input", "input", (turns - 1) * InputStep(fromInput))),
                Lower(Jump("scalar")), Idle >> >>

\* The input goes back by the turns that are in the pipeline.
TakenBack(label, fromInput, turns) ==
    <<label, << Lower(Less("input", "input", turns * InputStep(fromInput))),
                Lower(Jump("scalar")), Idle >> >>

DirLightSpecEntry == <<"entry", <<
    Lower(Lq("xyz", "pipeNormal", 1, "input")), Lower(AddOf("input", "input", "inputStep")),
    Upper(Up("mul", "xyz", "pipeSpec", "halfAngle", "pipeNormal")),
    Upper(Up("mul", "xyz", "pipeDiff", "lightDir", "pipeNormal")),
    Lower(One("mr32", "xyw", "pipeSwizzle", "pipeSpec")),
    Lower(If("ibeq", "input", "lastInput", "fallbackOne")),
    Upper(Bc("adda", "x", "w", "ACC", "pipeSwizzle", "pipeSwizzle")) >> >>

DirLightSpecPrologOne(fromInput) == <<"prologOne", <<
    <<Bc("madd", "y", "w", "pipeScratch", "VF00", "pipeSwizzle"), Lq("xyz", "pipeNormal", 1, "input")>>,
    Upper(Bc("adda", "y", "z", "ACC", "pipeDiff", "pipeDiff")),
    Upper(Bc("madd", "x", "z", "pipeDiff", "ones", "pipeDiff")),
    Upper(Bc("max", "x", "w", "pipeIntensity", "pipeScratch", "VF00")),
    Upper(Bc("max", "x", "z", "diffClamp", "pipeDiff", "VF00")),
    Upper(Up("mul", "xyz", "pipeSpec", "halfAngle", "pipeNormal")),
    Upper(Up("mul", "w", "pipeIntensity", "pipeIntensity", "pipeIntensity")),
    Lower(One("mr32", "xyw", "pipeSwizzle", "pipeSpec")),
    <<Up("mul", "w", "pipeIntensity", "pipeIntensity", "pipeIntensity"), PipedMaterial(fromInput, 1)>>,
    <<Up("mul", "xyz", "pipeDiff", "lightDir", "pipeNormal"), AddOf("input", "input", "inputStep")>>,
    Upper(Bc("mul", "z", "xyz", "pipeLocal", "lightDiff", "diffClamp")),
    <<Bc("adda", "x", "w", "ACC", "pipeSwizzle", "pipeSwizzle"), If("ibeq", "input", "lastInput", "fallbackTwo")>>,
    Upper(Up("mul", "w", "pipeIntensity", "pipeIntensity", "pipeIntensity")) >> >>

DirLightSpecPrologTwo(fromInput) == <<"prologTwo", <<
    Upper(Bc("madd", "y", "w", "pipeScratch", "VF00", "pipeSwizzle")),
    Upper(Bc("adda", "y", "z", "ACC", "pipeDiff", "pipeDiff")),
    Upper(Bc("madd", "x", "z", "pipeDiff", "ones", "pipeDiff")),
    Upper(Up("mul", "w", "pipePower", "pipeIntensity", "pipeIntensity")),
    Upper(Bc("max", "x", "w", "pipeIntensity", "pipeScratch", "VF00")),
    <<Up("mula", "xyz", "ACC", "pipeLocal", Material(fromInput)), Lq("xyz", "pipeNormal", 1, "input")>>,
    Upper(Bc("max", "x", "z", "diffClamp", "pipeDiff", "VF00")),
    Upper(Up("mul", "w", "pipePower", "pipePower", "pipePower")),
    Upper(Up("mul", "w", "pipeIntensity", "pipeIntensity", "pipeIntensity")),
    Upper(Up("mul", "xyz", "pipeSpec", "halfAngle", "pipeNormal")),
    Upper(Bc("madda", "w", "xyz", "ACC", "localSpec", "pipePower")),
    Upper(Up("mul", "w", "pipeIntensity", "pipeIntensity", "pipeIntensity")),
    <<Up("madd", "xyz", "pipeLit", "lightAmb", "materialAmb"), One("mr32", "xyw", "pipeSwizzle", "pipeSpec")>>,
    <<Up("mul", "xyz", "pipeDiff", "lightDir", "pipeNormal"), AddOf("input", "input", "inputStep")>>,
    <<Bc("mul", "z", "xyz", "pipeLocal", "lightDiff", "diffClamp"), PipedMaterial(fromInput, 2)>>,
    <<Up("mul", "w", "pipeIntensity", "pipeIntensity", "pipeIntensity"), If("ibeq", "input", "lastInput", "fallbackThree")>>,
    Upper(Bc("adda", "x", "w", "ACC", "pipeSwizzle", "pipeSwizzle")) >> >>

DirLightSpecMain(fromInput, postInc) == <<"main", <<
    <<Bc("madd", "y", "w", "pipeScratch", "VF00", "pipeSwizzle"), OutputStep(postInc)>>,
    Upper(Bc("adda", "y", "z", "ACC", "pipeDiff", "pipeDiff")),
    Upper(Bc("madd", "x", "z", "pipeDiff", "ones", "pipeDiff")),
    Upper(Up("mul", "w", "pipePower", "pipeIntensity", "pipeIntensity")),
    Upper(Bc("max", "x", "w", "pipeIntensity", "pipeScratch", "VF00")),
    <<Up("mula", "xyz", "ACC", "pipeLocal", Material(fromInput)), Lq("xyz", "pipeNormal", 1, "input")>>,
    <<Bc("max", "x", "z", "diffClamp", "pipeDiff", "VF00"), Lq("xyz", "pipeColor", IF postInc THEN 0 ELSE -2, "output")>>,
    Upper(Up("mul", "w", "pipePower", "pipePower", "pipePower")),
    Upper(Up("mul", "w", "pipeIntensity", "pipeIntensity", "pipeIntensity")),
    Upper(Up("mul", "xyz", "pipeSpec", "halfAngle", "pipeNormal")),
    Upper(Up("add", "xyz", "pipeResult", "pipeColor", "pipeLit")),
    Upper(Bc("madda", "w", "xyz", "ACC", "localSpec", "pipePower")),
    <<Up("mul", "w", "pipeIntensity", "pipeIntensity", "pipeIntensity"), AddOf("input", "input", "inputStep")>>,
    <<Up("madd", "xyz", "pipeLit", "lightAmb", "materialAmb"), One("mr32", "xyw", "pipeSwizzle", "pipeSpec")>>,
    <<Up("mul", "xyz", "pipeDiff", "lightDir", "pipeNormal"), LightStore("pipeResult", -2, postInc)>>,
    <<Bc("mul", "z", "xyz", "pipeLocal", "lightDiff", "diffClamp"), PipedMaterial(fromInput, 2)>>,
    <<Up("mul", "w", "pipeIntensity", "pipeIntensity", "pipeIntensity"), If("ibne", "input", "lastInput", "main")>>,
    Upper(Bc("adda", "x", "w", "ACC", "pipeSwizzle", "pipeSwizzle")) >> >>

DirLightSpecScalar(fromInput, postInc) == <<"scalar", <<
    Lower(Lq("xyz", "normal", 1, "input")), Lower(With(Lq("xyz", "color", 0, "output"), "colorOffset")) >> \o ScalarMaterial(fromInput) \o <<
    Lower(AddOf("input", "input", "inputStep")),
    Upper(Up("mul", "xyz", "diffProduct", "lightDir", "normal")),
    Upper(Up("mul", "xyz", "specProduct", "halfAngle", "normal")), Idle, Idle, Idle,
    Lower(One("mr32", "xyw", "specSwizzle", "specProduct")),
    Upper(Bc("adda", "y", "z", "ACC", "diffProduct", "diffProduct")),
    Upper(Bc("madd", "x", "z", "diffProduct", "ones", "diffProduct")), Idle, Idle, Idle,
    Upper(Bc("max", "x", "z", "diffProduct", "diffProduct", "VF00")),
    Upper(Bc("adda", "x", "w", "ACC", "specSwizzle", "specSwizzle")),
    Upper(Bc("madd", "y", "w", "specScratch", "VF00", "specSwizzle")),
    Upper(Bc("mul", "z", "xyz", "localDiff", "lightDiff", "diffProduct")), Idle, Idle,
    Upper(Bc("max", "x", "w", "specIntensity", "specScratch", "VF00")),
    Upper(Up("mula", "xyz", "ACC", "localDiff", "materialDiff")), Idle, Idle,
    Upper(Up("mul", "w", "specPower", "specIntensity", "specIntensity")), Idle, Idle, Idle,
    Upper(Up("mul", "w", "specPower", "specPower", "specPower")), Idle, Idle, Idle,
    Upper(Up("mul", "w", "specPower", "specPower", "specPower")), Idle, Idle, Idle,
    Upper(Up("mul", "w", "specPower", "specPower", "specPower")), Idle, Idle, Idle,
    Upper(Up("mul", "w", "specPower", "specPower", "specPower")), Idle, Idle,
    Upper(Bc("madda", "w", "xyz", "ACC", "localSpec", "specPower")),
    Upper(Up("madd", "xyz", "lit", "lightAmb", "materialAmb")), Idle, Idle, Idle,
    Upper(Up("add", "xyz", "result", "color", "lit")), Idle, Idle, Idle,
    Lower(LightStore("result", 1, postInc)),
    Lower(If("ibne", "input", "lastInput", "scalar")), Lower(OutputStep(postInc)) >> >>

DirLightSpecFallbacks(fromInput) ==
    << TakenBack("drain", fromInput, 3), TakenBack("fallbackOne", fromInput, 1),
       TakenBack("fallbackTwo", fromInput, 2), TakenBack("fallbackThree", fromInput, 3) >>

DirLightSpecListing(fromInput, postInc) ==
    << DirLightSpecEntry, DirLightSpecPrologOne(fromInput), DirLightSpecPrologTwo(fromInput),
       DirLightSpecMain(fromInput, postInc) >>
    \o DirLightSpecFallbacks(fromInput)
    \o << DirLightSpecScalar(fromInput, postInc) >>

DirLightSpecScratch(fromInput) ==
    Scratch(<<"pipeNormal", "pipeColor", "pipeDiff", "diffClamp", "pipeLocal", "pipeSpec",
              "pipeSwizzle", "pipeScratch", "pipeIntensity", "pipePower",
              "pipeLit", "pipeResult">> \o (IF fromInput THEN <<"pipeMaterial">> ELSE <<>>),
            FromTop,
            {"lightDir", "ones", "lightDiff", "halfAngle", "localSpec", "lightAmb",
             "materialAmb"} \cup (IF fromInput THEN {} ELSE {"materialDiff"}))

\* Whether the material's colour is loaded, whether the store increments.
SpecKeys == {0, 1} \X {0, 1}

SpecExact(more) ==
    { [fromInput |-> 0, inputStep |-> 3, postInc |-> 0, outputStep |-> 3,
       colorOffset |-> 1, storeOffset |-> 1] @@ more,
      [fromInput |-> 1, inputStep |-> 4, postInc |-> 0, outputStep |-> 3,
       colorOffset |-> 1, storeOffset |-> 1] @@ more,
      [fromInput |-> 0, inputStep |-> 3, postInc |-> 1, colorOffset |-> 0] @@ more,
      [fromInput |-> 1, inputStep |-> 4, postInc |-> 1, colorOffset |-> 0] @@ more }

DirLightSpecAt == [label |-> "dir_light_vert_loop_lid"]

DirLightSpec ==
    [clauses  |-> DirLightSpecMemory \o DirLightSpecDiffuse \o DirLightSpecHighlight,
     strict   |-> Operations,
     unless   |-> [fromInput |-> 0, postInc |-> 0, colorOffset |-> 0],
     optional |-> {"MaterialLoad", "OutputIncrement"},
     options  |-> <<"fromInput", "postInc">>,
     scratch  |-> [k \in SpecKeys |-> DirLightSpecScratch(k[1] = 1)],
     exact    |-> SpecExact(<<>>),
     listing  |-> [k \in SpecKeys |-> DirLightSpecListing(k[1] = 1, k[2] = 1)]] @@ DirLightSpecAt @@ Shape
--------------------------------------------------------------------------------
(* pt_light_vert_loop_lid without a highlight: the light's direction and its  *)
(* attenuation are taken from the distance.  An instruction that fits nothing *)
(* is passed over, unless it loads or uses the elementary function unit.      *)

PtLightMemory ==
    << Clause("VertexLoad", Lq("xyz", "vertex", 0, "input"), {"input"}),
       Clause("NormalLoad", Lq("xyz", "normal", 1, "input"), {"input"}),
       Clause("InputIncrement", AddOf("input", "input", "inputStep"), {"input"}),
       Clause("OutputIncrement", AddOf("output", "output", "outputStep"), {"output"}),
       Clause("Store", With(Sq("xyz", "result", 0, "output"), "storeOffset"),
              {"output", "result"}) >>

PtLightNoSpecMemory ==
    PtLightMemory \o
    << Marks(Beside(Same(Clause("ColorLoad", Lq("xyz", "currentColor", 1, "output"), {}),
                         {"output"}), "input"), "colorOffset"),
       Beside(Passed(Lq("xyz", "any", 1, "any"), {}), "input") >>

PtLightDistance ==
    << Clause("Sub", Bc("sub", "any", "xyz", "toLight", "lightPos", "vertex"), {"vertex"}),
       Clause("DistanceMul", Up("mul", "xyz", "atten", "toLight", "toLight"), {"toLight"}),
       Clause("AttenProduct", Up("mul", "xyz", "attenProduct", "atten", "attenCoeff"),
              {"atten"}),
       Clause("DistanceAdday", Bc("adda", "y", "z", "any", "atten", "any"), {"atten"}),
       Clause("DistanceMaddx", Bc("madd", "x", "z", "atten", "ones", "atten"), {"atten"}),
       Clause("Sqrt", Fdiv("sqrt", "any", "atten"), {"atten"}),
       Clause("DistanceSetOne", Bc("add", "w", "x", "atten", "any", "any"), {"atten"}),
       Clause("DistanceSetLength", One("addq", "y", "atten", "any"), {"atten"}),
       First(Clause("InverseDistanceDiv", Fdiv("div", "any", "atten"), {"atten"})),
       Clause("AttenuationDiv", Fdiv("div", "any", "atten"), {"atten"}) >>

PtLightNoSpecIntensity ==
    << Clause("NormalProduct", Up("mul", "xyz", "normalProduct", "normalizedLight", "normal"),
              {"normalizedLight", "normal"}),
       Clause("AttenMulax", Bc("mula", "x", "w", "any", "any", "attenProduct"),
              {"attenProduct"}),
       Clause("IntensityMulax", Bc("mula", "x", "w", "any", "any", "normalProduct"),
              {"normalProduct"}),
       Clause("AttenMadday", Bc("madda", "y", "w", "any", "any", "attenProduct"),
              {"attenProduct"}),
       Clause("IntensityMadday", Bc("madda", "y", "w", "any", "any", "normalProduct"),
              {"normalProduct"}),
       Clause("AttenMaddz", Bc("madd", "z", "w", "atten", "any", "attenProduct"),
              {"atten", "attenProduct"}),
       Passed(Bc("madd", "z", "w", "any", "any", "attenProduct"), {"attenProduct"}),
       Clause("IntensityMaddz", Bc("madd", "z", "w", "intensity", "any", "normalProduct"),
              {"normalProduct"}),
       Clause("Clamp", Bc("max", "x", "w", "clampedIntensity", "intensity", "any"),
              {"intensity"}) >>

PtLightColor ==
    << Clause("Normalize", One("mulq", "xyz", "normalizedLight", "toLight"), {"toLight"}),
       Clause("AttenuateColor", One("mulq", "xyz", "attenuatedColor", "litColor"),
              {"litColor"}),
       Clause("LocalDiffuse", Bc("mul", "w", "xyz", "localDiffuse", "lightDiff",
                                 "clampedIntensity"), {"clampedIntensity"}),
       Clause("AmbientMaterial", Up("madd", "xyz", "litColor", "lightAmb", "materialAmb"), {}),
       Clause("Accumulate", Bc("add", "any", "xyz", "result", "currentColor",
                               "attenuatedColor"), {"currentColor", "attenuatedColor"}) >>

PtLightNoSpecClauses ==
    PtLightNoSpecMemory \o PtLightDistance \o PtLightNoSpecIntensity \o PtLightColor \o
    << Clause("DiffuseMaterial", Bc("mula", "any", "xyz", "any", "localDiffuse",
                                    "materialDiff"), {"localDiffuse"}) >>

PtLightNoSpecEntry == <<"entry", <<
    Lower(Lq("xyz", "toLight", 0, "input")), Lower(Add("input", "input", 3)), Idle, Idle,
    Idle, Upper(Up("sub", "xyz", "toLight", "lightPos", "toLight")), Idle, Idle, Idle, Idle,
    Upper(Up("mul", "xyz", "atten", "toLight", "toLight")), Idle, Idle, Idle, Idle,
    Upper(Bc("adda", "y", "z", "ACC", "atten", "atten")),
    Upper(Bc("madd", "x", "z", "atten", "ones", "atten")),
    Upper(Bc("add", "w", "x", "atten", "VF00", "VF00")), Lower(Fdiv("sqrt", "z", "atten")),
    <<One("addq", "y", "atten", "VF00"), Wait("waitq")>>,
    Lower(If("ibeq", "input", "lastInput", "fallbackOne")), Idle >> >>

PtLightNoSpecProlog == <<"prolog", <<
    Lower(Lq("xyz", "vertex", 0, "input")), Idle,
    <<Up("mul", "xyz", "attenProduct", "atten", "attenCoeff"), Fdiv("div", "y", "atten")>>,
    <<Up("sub", "xyz", "toLight", "lightPos", "vertex"), One("move", "xyz", "vertex", "toLight")>>,
    <<Bc("mula", "x", "w", "ACC", "VF00", "attenProduct"), Add("input", "input", 3)>>,
    Upper(Up("mul", "xyz", "atten", "toLight", "toLight")), Lower(Wait("waitq")),
    <<One("mulq", "xyz", "vertex", "vertex"), Lq("xyz", "normal", -5, "input")>>,
    Upper(Bc("adda", "y", "z", "ACC", "atten", "atten")),
    Upper(Bc("madd", "x", "z", "atten", "ones", "atten")),
    Upper(Up("mul", "xyz", "vertex", "vertex", "normal")),
    <<Bc("madda", "y", "w", "ACC", "VF00", "attenProduct"), Fdiv("sqrt", "z", "atten")>>,
    Upper(Bc("madd", "z", "w", "materialAmb", "VF00", "attenProduct")),
    Upper(Bc("mula", "x", "w", "ACC", "VF00", "vertex")),
    Upper(Bc("madda", "y", "w", "ACC", "VF00", "vertex")),
    Upper(Bc("madd", "z", "w", "materialDiff", "VF00", "vertex")), Idle,
    Upper(Bc("add", "w", "x", "atten", "VF00", "VF00")),
    <<One("addq", "y", "atten", "VF00"), If("ibeq", "input", "lastInput", "fallbackTwo")>>,
    Upper(Bc("max", "x", "w", "materialDiff", "materialDiff", "VF00")),
    Lower(Add("output", "output", 6)) >> >>

PtLightNoSpecMain == <<"main", <<
    Lower(Lq("xyz", "vertex", 0, "input")), Idle,
    <<Up("mul", "xyz", "attenProduct", "atten", "attenCoeff"), Fdiv("div", "y", "atten")>>,
    <<Bc("mul", "w", "xyz", "atten", "lightDiff", "materialDiff"), Add("output", "output", 3)>>,
    <<Up("sub", "xyz", "toLight", "lightPos", "vertex"), One("move", "xyz", "vertex", "toLight")>>,
    Idle, Idle, Upper(Up("mula", "xyz", "ACC", "atten", "materialDiff")),
    Upper(Up("mul", "xyz", "atten", "toLight", "toLight")),
    <<One("mulq", "xyz", "vertex", "vertex"), Fdiv("div", "w", "materialAmb")>>,
    <<Up("madd", "xyz", "litColor", "lightAmb", "materialAmb"), Lq("xyz", "normal", -2, "input")>>,
    Upper(Bc("mula", "x", "w", "ACC", "VF00", "attenProduct")),
    Upper(Bc("adda", "y", "z", "ACC", "atten", "atten")),
    Upper(Bc("madd", "x", "z", "atten", "ones", "atten")),
    Upper(Up("mul", "xyz", "vertex", "vertex", "normal")),
    Upper(Bc("madda", "y", "w", "ACC", "VF00", "attenProduct")),
    <<Bc("madd", "z", "w", "materialAmb", "VF00", "attenProduct"), Lq("xyz", "attenProduct", -8, "output")>>,
    <<One("mulq", "xyz", "litColor", "litColor"), Fdiv("sqrt", "z", "atten")>>,
    Upper(Bc("mula", "x", "w", "ACC", "VF00", "vertex")),
    Upper(Bc("madda", "y", "w", "ACC", "VF00", "vertex")),
    Upper(Bc("madd", "z", "w", "materialDiff", "VF00", "vertex")),
    Upper(Up("add", "xyz", "attenProduct", "attenProduct", "litColor")),
    Lower(Add("input", "input", 3)), Upper(Bc("add", "w", "x", "atten", "VF00", "VF00")),
    <<One("addq", "y", "atten", "VF00"), If("ibne", "input", "lastInput", "main")>>,
    <<Bc("max", "x", "w", "materialDiff", "materialDiff", "VF00"), Sq("xyz", "attenProduct", -8, "output")>> >> >>

PtLightNoSpecDrain == <<"drain", <<
    Lower(Less("input", "input", 6)), Lower(Less("output", "output", 6)),
    Lower(Jump("scalar")), Idle >> >>

PtLightNoSpecScalar == <<"scalar", <<
    Lower(Lq("xyz", "normal", 1, "input")), Lower(Lq("xyz", "vertex", 0, "input")),
    Lower(Lq("xyz", "currentColor", 1, "output")), Lower(Add("input", "input", 3)), Idle,
    Upper(Up("sub", "xyz", "toLight", "lightPos", "vertex")), Idle, Idle, Idle, Idle,
    Upper(Up("mul", "xyz", "atten", "toLight", "toLight")), Idle, Idle, Idle, Idle,
    Upper(Bc("adda", "y", "z", "ACC", "atten", "atten")),
    Upper(Bc("madd", "x", "z", "atten", "ones", "atten")),
    Upper(Bc("add", "w", "x", "atten", "VF00", "VF00")), Lower(Fdiv("sqrt", "z", "atten")),
    <<One("addq", "y", "atten", "VF00"), Wait("waitq")>>,
    <<Up("mul", "xyz", "attenProduct", "atten", "attenCoeff"), Fdiv("div", "y", "atten")>>,
    Idle, Idle, Idle, Idle, Upper(Bc("mula", "x", "w", "ACC", "VF00", "attenProduct")),
    Upper(Bc("madda", "y", "w", "ACC", "VF00", "attenProduct")),
    Upper(Bc("madd", "z", "w", "atten", "VF00", "attenProduct")),
    Upper(One("mulq", "xyz", "normalizedLight", "toLight")), Idle, Idle, Idle,
    Lower(Fdiv("div", "w", "atten")),
    Upper(Up("mul", "xyz", "normalProduct", "normalizedLight", "normal")), Idle, Idle, Idle,
    Idle, Upper(Bc("mula", "x", "w", "ACC", "VF00", "normalProduct")),
    Upper(Bc("madda", "y", "w", "ACC", "VF00", "normalProduct")),
    Upper(Bc("madd", "z", "w", "intensity", "VF00", "normalProduct")), Idle, Idle, Idle,
    Idle, Upper(Bc("max", "x", "w", "clampedIntensity", "intensity", "VF00")), Idle, Idle,
    Idle, Idle,
    Upper(Bc("mul", "w", "xyz", "localDiffuse", "lightDiff", "clampedIntensity")), Idle,
    Idle, Idle, Idle, Upper(Up("mula", "xyz", "ACC", "localDiffuse", "materialDiff")),
    Upper(Up("madd", "xyz", "litColor", "lightAmb", "materialAmb")), Idle, Idle, Idle, Idle,
    Upper(One("mulq", "xyz", "attenuatedColor", "litColor")), Idle, Idle, Idle, Idle,
    Upper(Up("add", "xyz", "result", "currentColor", "attenuatedColor")), Idle, Idle, Idle,
    Idle, Lower(Sq("xyz", "result", 1, "output")),
    Lower(If("ibne", "input", "lastInput", "scalar")), Lower(Add("output", "output", 3)) >> >>

PtLightNoSpecAt == [label |-> "pt_light_vert_loop_lid"]

PtLightNoSpec ==
    [clauses  |-> PtLightNoSpecClauses,
     strict   |-> {"lq", "esadd", "ersqrt", "mfp", "waitp"},
     xyzOnly  |-> {"lq"},
     scratch  |-> Always(Scratch(<<>>, <<>>, {})),
     exact    |-> {[inputStep |-> 3, outputStep |-> 3, colorOffset |-> 1,
                    storeOffset |-> 1]},
     listing  |-> Always(<<PtLightNoSpecEntry, PtLightNoSpecProlog, PtLightNoSpecMain,
                           PtLightNoSpecDrain, TakenBack("fallbackOne", FALSE, 1),
                           TakenBack("fallbackTwo", FALSE, 2), PtLightNoSpecScalar>>)]
    @@ PtLightNoSpecAt @@ Shape
--------------------------------------------------------------------------------
(* pt_light_vert_loop_lid with a highlight: the half angle is normalised in   *)
(* the elementary function unit.  A material colour loaded in the loop is     *)
(* looked for and then refused; the rows the code has for it are dead.        *)

PtLightSpecMemory ==
    PtLightMemory \o
    << Marks(Clause("MaterialLoad", Lq("xyz", "materialDiff", 3, "input"), {"input"}),
             "fromInput"),
       Beside(Same(Clause("ColorLoad", Lq("xyz", "currentColor", 0, "output"), {}),
                   {"output"}), "input"),
       Beside(Passed(Lq("xyz", "any", 0, "any"), {}), "input"),
       Marks(Beside(Same(Clause("ColorLoad", Lq("xyz", "currentColor", 1, "output"), {}),
                         {"output"}), "input"), "colorOffset"),
       Beside(Passed(Lq("xyz", "any", 1, "any"), {}), "input"),
       Marks(Clause("Store", Sqi("xyz", "result", "output"), {"output", "result"}),
             "postInc") >>

PtLightSpecProducts ==
    << Clause("NormalProduct", Up("mul", "xyz", "normalProduct", "normalizedLight", "normal"),
              {"normalizedLight", "normal"}),
       Clause("SpecProduct", Up("mul", "xyz", "specProduct", "halfAngle", "normal"),
              {"halfAngle", "normal"}),
       First(Clause("AttenMulax", Bc("mula", "x", "w", "any", "any", "attenProduct"),
                    {"attenProduct"})),
       First(Clause("IntensityMulax", Bc("mula", "x", "w", "any", "any", "normalProduct"),
                    {"normalProduct"})),
       Clause("SpecMulax", Bc("mula", "x", "w", "any", "any", "specProduct"), {"specProduct"}),
       First(Clause("AttenMadday", Bc("madda", "y", "w", "any", "any", "attenProduct"),
                    {"attenProduct"})),
       First(Clause("IntensityMadday", Bc("madda", "y", "w", "any", "any", "normalProduct"),
                    {"normalProduct"})),
       Clause("SpecMadday", Bc("madda", "y", "w", "any", "any", "specProduct"),
              {"specProduct"}) >>

\* The sum of the attenuation is the first of its products; one that leaves it
\* elsewhere is passed over.
PtLightSpecSums ==
    << First(Clause("AttenMaddz", Bc("madd", "z", "w", "atten", "any", "attenProduct"),
                    {"atten", "attenProduct"})),
       First(Clause("IntensityMaddz", Bc("madd", "z", "w", "intensity", "any", "normalProduct"),
                    {"normalProduct"})),
       Clause("SpecMaddz", Bc("madd", "z", "w", "specIntensity", "any", "specProduct"),
              {"specProduct"}),
       Clause("DiffuseClamp", Bc("max", "x", "w", "clampedIntensity", "intensity", "any"),
              {"intensity"}),
       Sets(Clause("SpecClamp", Bc("max", "x", "w", "any", "specIntensity", "any"),
                   {"specIntensity"}), "specIntensity") >>

\* The half angle is the first sum with the light's direction.
PtLightSpecHalf ==
    << First(Clause("HalfAdd", Bc("add", "any", "xyz", "halfAngle", "viewDir",
                                  "normalizedLight"), {"normalizedLight"})),
       Clause("HalfEsadd", Efu("esadd", "any", "halfAngle"), {"halfAngle"}),
       First(Clause("HalfMfpLength", One("mfp", "any", "halfAngle", "any"), {"halfAngle"})),
       Clause("HalfMfpInv", One("mfp", "any", "halfAngle", "any"), {"halfAngle"}),
       Clause("HalfErsqrt", Efu("ersqrt", "any", "halfAngle"), {"halfAngle"}),
       Clause("HalfNormalize", Bc("mul", "w", "xyz", "any", "halfAngle", "halfAngle"),
              {"halfAngle"}),
       Clause("SpecMaterial", Bc("madda", "w", "xyz", "any", "localSpec", "any"), {}),
       Clause("DiffuseMaterial", Bc("mula", "any", "xyz", "any", "localDiffuse",
                                    "materialDiff"), {"localDiffuse"}) >>

PtLightSpecEntry == <<"entry", <<
    Lower(Lq("xyz", "r17", 0, "input")), Lower(Add("input", "input", 3)), Idle, Idle,
    Upper(Up("sub", "xyz", "r17", "lightPos", "r17")), Idle, Idle, Idle,
    Upper(Up("mul", "xyz", "r16", "r17", "r17")), Idle, Idle, Idle,
    Upper(Bc("adda", "y", "z", "ACC", "r16", "r16")),
    Upper(Bc("madd", "x", "z", "r16", "ones", "r16")), Lower(Fdiv("sqrt", "z", "r16")),
    Idle, Idle, Idle, <<One("addq", "y", "r16", "VF00"), Wait("waitq")>>,
    Lower(Fdiv("div", "y", "r16")), Idle, Idle, Idle, Idle, Idle,
    Upper(Bc("add", "w", "x", "r16", "VF00", "VF00")), Lower(Wait("waitq")),
    <<One("mulq", "xyz", "r17", "r17"), If("ibeq", "input", "lastInput", "fallbackOne")>>,
    Upper(Up("mul", "xyz", "r16", "r16", "attenCoeff")) >> >>

PtLightSpecPrologOne == <<"prologOne", <<
    <<Up("add", "xyz", "r18", "viewDir", "r17"), Lq("xyz", "r19", 0, "input")>>,
    <<Up("sub", "xyz", "r19", "lightPos", "r19"), Efu("esadd", "", "r18")>>,
    <<Up("mul", "xyz", "r21", "r19", "r19"), Lq("xyz", "r20", -2, "input")>>,
    Upper(Bc("adda", "y", "z", "ACC", "r21", "r21")),
    Upper(Bc("madd", "x", "z", "r21", "ones", "r21")), Lower(Wait("waitp")),
    <<Bc("add", "w", "x", "r21", "VF00", "VF00"), One("mfp", "w", "r06", "P")>>,
    Lower(Fdiv("sqrt", "z", "r21")), Lower(Efu("ersqrt", "w", "r06")),
    <<One("addq", "y", "r21", "VF00"), Wait("waitq")>>, Lower(Fdiv("div", "y", "r21")),
    Idle, Idle, Idle,
    <<Up("mul", "xyz", "r16", "r21", "attenCoeff"), One("move", "xyz", "r15", "r16")>>,
    Upper(Up("mul", "xyz", "r21", "r17", "r20")), Lower(Wait("waitq")),
    <<One("mulq", "xyz", "r17", "r19"), Add("input", "input", 3)>>,
    Lower(One("move", "xyz", "r19", "r18")),
    Lower(If("ibeq", "input", "lastInput", "fallbackTwo")),
    <<Bc("mula", "x", "w", "ACC", "VF00", "r21"), One("mfp", "w", "r06", "P")>> >> >>

PtLightSpecPrologTwo == <<"prologTwo", <<
    <<Up("add", "xyz", "r18", "viewDir", "r17"), Lq("xyz", "r23", 0, "input")>>, Idle, Idle,
    Upper(Bc("mul", "w", "xyz", "r22", "r19", "r06")),
    Upper(Up("sub", "xyz", "r19", "lightPos", "r23")),
    <<Bc("madda", "y", "w", "ACC", "VF00", "r21"), Efu("esadd", "", "r18")>>,
    Upper(Bc("madd", "z", "w", "r06", "VF00", "r21")),
    Upper(Up("mul", "xyz", "r20", "r22", "r20")),
    Upper(Up("mul", "xyz", "r21", "r19", "r19")),
    Upper(Bc("mula", "x", "w", "ACC", "VF00", "r20")),
    Upper(Bc("adda", "y", "z", "ACC", "r21", "r21")),
    Upper(Bc("madd", "x", "z", "r21", "ones", "r21")),
    Upper(Bc("madda", "y", "w", "ACC", "VF00", "r20")),
    <<Bc("madd", "z", "w", "r07", "VF00", "r20"), Wait("waitp")>>,
    <<Bc("max", "x", "w", "r05", "r06", "VF00"), One("mfp", "w", "r06", "P")>>,
    <<Bc("mula", "x", "w", "ACC", "VF00", "r15"), Fdiv("sqrt", "z", "r21")>>,
    Upper(Bc("madda", "y", "w", "ACC", "VF00", "r15")),
    Upper(Bc("max", "x", "w", "r07", "r07", "VF00")),
    <<Bc("mul", "w", "xyz", "r20", "lightDiff", "r05"), Efu("ersqrt", "w", "r06")>>,
    Upper(Up("mul", "w", "r06", "r07", "r07")),
    <<One("addq", "y", "r21", "VF00"), Wait("waitq")>>,
    <<Up("mul", "w", "r06", "r06", "r06"), Fdiv("div", "y", "r21")>>,
    Upper(Bc("add", "w", "x", "r21", "VF00", "VF00")),
    <<Up("mula", "xyz", "ACC", "r20", "materialDiff"), Lq("xyz", "r20", -2, "input")>>,
    Upper(Bc("madd", "z", "w", "r05", "VF00", "r15")),
    Upper(Up("mul", "w", "r06", "r06", "r06")),
    <<Up("mul", "xyz", "r16", "r21", "attenCoeff"), One("move", "xyz", "r15", "r16")>>,
    Upper(Up("mul", "xyz", "r21", "r17", "r20")), Lower(Wait("waitq")),
    <<One("mulq", "xyz", "r17", "r19"), Add("input", "input", 3)>>,
    <<Up("mul", "w", "r07", "r06", "r06"), One("move", "xyz", "r19", "r18")>>,
    Lower(If("ibeq", "input", "lastInput", "fallbackThree")),
    <<Bc("mula", "x", "w", "ACC", "VF00", "r21"), One("mfp", "w", "r06", "P")>> >> >>

PtLightSpecMain(postInc) == <<"main", <<
    <<Up("add", "xyz", "r18", "viewDir", "r17"), Lq("xyz", "r23", 0, "input")>>,
    <<Up("mul", "w", "r07", "r07", "r07"), OutputStep(postInc)>>,
    Upper(Bc("madda", "y", "w", "ACC", "VF00", "r21")),
    Upper(Bc("mul", "w", "xyz", "r22", "r19", "r06")),
    <<Up("sub", "xyz", "r19", "lightPos", "r23"), Efu("esadd", "", "r18")>>,
    Upper(Bc("madda", "w", "xyz", "ACC", "localSpec", "r07")),
    Upper(Bc("madd", "z", "w", "r06", "VF00", "r21")),
    Upper(Up("mul", "xyz", "r20", "r22", "r20")),
    Upper(Up("mul", "xyz", "r21", "r19", "r19")),
    <<Up("madd", "xyz", "r22", "lightAmb", "materialAmb"), Fdiv("div", "w", "r05")>>,
    Upper(Bc("max", "x", "w", "r05", "r06", "VF00")),
    Upper(Bc("mula", "x", "w", "ACC", "VF00", "r20")),
    Upper(Bc("adda", "y", "z", "ACC", "r21", "r21")),
    Upper(Bc("madd", "x", "z", "r21", "ones", "r21")),
    Upper(Bc("madda", "y", "w", "ACC", "VF00", "r20")),
    <<Bc("madd", "z", "w", "r07", "VF00", "r20"), One("mfp", "w", "r06", "P")>>,
    <<One("mulq", "xyz", "r23", "r22"), Lq("xyz", "color", IF postInc THEN 0 ELSE -2, "output")>>,
    <<Bc("mula", "x", "w", "ACC", "VF00", "r15"), Fdiv("sqrt", "z", "r21")>>,
    Upper(Bc("madda", "y", "w", "ACC", "VF00", "r15")),
    Upper(Bc("max", "x", "w", "r07", "r07", "VF00")),
    <<Bc("mul", "w", "xyz", "r20", "lightDiff", "r05"), Efu("ersqrt", "w", "r06")>>,
    Upper(Up("add", "xyz", "r22", "color", "r23")),
    Upper(Bc("add", "w", "x", "r21", "VF00", "VF00")),
    Upper(Up("mul", "w", "r06", "r07", "r07")), Upper(One("addq", "y", "r21", "VF00")),
    <<Up("mula", "xyz", "ACC", "r20", "materialDiff"), LightStore("r22", -2, postInc)>>,
    <<Bc("madd", "z", "w", "r05", "VF00", "r15"), One("move", "xyz", "r15", "r16")>>,
    <<Up("mul", "w", "r06", "r06", "r06"), Lq("xyz", "r20", -2, "input")>>,
    <<Up("mul", "xyz", "r16", "r21", "attenCoeff"), Fdiv("div", "y", "r21")>>, Idle, Idle,
    Upper(Up("mul", "w", "r06", "r06", "r06")),
    Upper(Up("mul", "xyz", "r21", "r17", "r20")), Idle, Idle,
    <<One("mulq", "xyz", "r17", "r19"), Add("input", "input", 3)>>,
    <<Up("mul", "w", "r07", "r06", "r06"), One("move", "xyz", "r19", "r18")>>,
    Lower(If("ibne", "input", "lastInput", "main")),
    <<Bc("mula", "x", "w", "ACC", "VF00", "r21"), One("mfp", "w", "r06", "P")>> >> >>

PtLightSpecScalar(postInc) == <<"scalar", <<
    Lower(Lq("xyz", "vertex", 0, "input")), Lower(Lq("xyz", "normal", 1, "input")),
    Lower(With(Lq("xyz", "scalarColor", 0, "output"), "colorOffset")), Lower(Add("input", "input", 3)), Idle,
    Upper(Up("sub", "xyz", "toLight", "lightPos", "vertex")), Idle, Idle, Idle,
    Upper(Up("mul", "xyz", "atten", "toLight", "toLight")), Idle, Idle, Idle,
    Upper(Bc("adda", "y", "z", "ACC", "atten", "atten")),
    Upper(Bc("madd", "x", "z", "atten", "ones", "atten")),
    Upper(Bc("add", "w", "x", "atten", "VF00", "VF00")), Lower(Fdiv("sqrt", "z", "atten")),
    <<One("addq", "y", "atten", "VF00"), Wait("waitq")>>, Lower(Fdiv("div", "y", "atten")),
    Idle, Idle, Lower(Wait("waitq")),
    Upper(One("mulq", "xyz", "normalizedLight", "toLight")),
    Upper(Up("mul", "xyz", "attenProduct", "atten", "attenCoeff")), Idle, Idle, Idle,
    Upper(Bc("mula", "x", "w", "ACC", "VF00", "attenProduct")),
    Upper(Bc("madda", "y", "w", "ACC", "VF00", "attenProduct")),
    Upper(Bc("madd", "z", "w", "atten", "VF00", "attenProduct")),
    Upper(Up("add", "xyz", "halfAngle", "viewDir", "normalizedLight")),
    <<Up("mul", "xyz", "normalProduct", "normalizedLight", "normal"), Efu("esadd", "", "halfAngle")>>,
    <<Bc("mula", "x", "w", "ACC", "VF00", "normalProduct"), Wait("waitp")>>,
    <<Bc("madda", "y", "w", "ACC", "VF00", "normalProduct"), One("mfp", "w", "halfAngle", "P")>>,
    <<Bc("madd", "z", "w", "intensity", "VF00", "normalProduct"), Fdiv("div", "w", "atten")>>,
    Lower(Efu("ersqrt", "w", "halfAngle")),
    <<Bc("max", "x", "w", "clampedIntensity", "intensity", "VF00"), Wait("waitp")>>,
    Lower(One("mfp", "w", "halfAngle", "P")),
    Upper(Bc("mul", "w", "xyz", "localDiffuse", "lightDiff", "clampedIntensity")),
    Upper(Bc("mul", "w", "xyz", "halfAngle", "halfAngle", "halfAngle")),
    Upper(Up("mula", "xyz", "ACC", "localDiffuse", "materialDiff")),
    Upper(Up("mul", "xyz", "specProduct", "halfAngle", "normal")),
    Upper(Bc("mula", "x", "w", "ACC", "VF00", "specProduct")),
    Upper(Bc("madda", "y", "w", "ACC", "VF00", "specProduct")),
    Upper(Bc("madd", "z", "w", "specIntensity", "VF00", "specProduct")),
    Upper(Bc("max", "x", "w", "specIntensity", "specIntensity", "VF00")),
    Upper(Up("mul", "w", "specPower", "specIntensity", "specIntensity")), Idle, Idle, Idle,
    Upper(Up("mul", "w", "specPower", "specPower", "specPower")), Idle, Idle, Idle,
    Upper(Up("mul", "w", "specPower", "specPower", "specPower")), Idle, Idle, Idle,
    Upper(Up("mul", "w", "specPower", "specPower", "specPower")), Idle, Idle, Idle,
    Upper(Up("mul", "w", "specPower", "specPower", "specPower")), Idle, Idle,
    Upper(Bc("madda", "w", "xyz", "ACC", "localSpec", "specPower")),
    Upper(Up("madd", "xyz", "litColor", "lightAmb", "materialAmb")),
    Upper(One("mulq", "xyz", "attenuatedColor", "litColor")),
    Upper(Up("add", "xyz", "result", "scalarColor", "attenuatedColor")),
    Lower(LightStore("result", 1, postInc)),
    Lower(If("ibne", "input", "lastInput", "scalar")), Lower(OutputStep(postInc)) >> >>

PtLightSpecListing(postInc) ==
    << PtLightSpecEntry, PtLightSpecPrologOne, PtLightSpecPrologTwo,
       PtLightSpecMain(postInc), TakenBack("drain", FALSE, 3),
       TakenBack("fallbackOne", FALSE, 1), TakenBack("fallbackTwo", FALSE, 2),
       TakenBack("fallbackThree", FALSE, 3), PtLightSpecScalar(postInc) >>

PtLightSpecKept ==
    {"lightPos", "attenCoeff", "ones", "lightDiff", "materialDiff", "viewDir", "localSpec",
     "lightAmb", "materialAmb"}

PtLightSpecScratch ==
    Scratch(<<"r05", "r06", "r07", "r14", "r15", "r16", "r17", "r18", "r19", "r20", "r21",
              "r22", "r23", "color">>, FromTop, PtLightSpecKept)
    \o Scratch(<<"scalarColor">>, FromTop,
               PtLightSpecKept \cup
               {"vertex", "normal", "currentColor", "toLight", "atten", "attenProduct",
                "normalizedLight", "halfAngle", "normalProduct", "intensity",
                "clampedIntensity", "localDiffuse", "specProduct", "specIntensity",
                "specPower", "litColor", "attenuatedColor", "result"})

PtLightSpecAt == [label |-> "pt_light_vert_loop_lid"]

PtLightSpec ==
    [clauses  |-> PtLightSpecMemory \o PtLightDistance \o PtLightSpecProducts
                  \o PtLightSpecSums \o PtLightColor \o PtLightSpecHalf \o SpecPower,
     strict   |-> {"lq"},
     xyzOnly  |-> {"lq"},
     unless   |-> [fromInput |-> 0, postInc |-> 0, colorOffset |-> 0],
     optional |-> {"MaterialLoad", "OutputIncrement"},
     options  |-> <<"postInc">>,
     scratch  |-> [k \in {<<0>>, <<1>>} |-> PtLightSpecScratch],
     exact    |-> {e \in SpecExact(<<>>) : e.fromInput = 0},
     listing  |-> [k \in {<<0>>, <<1>>} |-> PtLightSpecListing(k[1] = 1)]] @@ PtLightSpecAt @@ Shape
================================================================================
