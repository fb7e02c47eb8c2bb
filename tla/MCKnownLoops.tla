----------------------------- MODULE MCKnownLoops -----------------------------
EXTENDS VuKnownLoops

FastNoLightsLoop ==
    [program |-> "vsmFastNoLights", label |-> "xform_loop_lid", own |-> "FastNoLights",
     vf |-> <<>>, vi |-> [VI02 |-> 0, VI05 |-> 0, VI03 |-> 500], last |-> "VI05", step |-> 3, tests |-> TestLatency,
     tokens |-> <<
      Lq("xyz", "VF04", 0, "VI02"), Ilw("VI04", 0, "VI02"),
      Lq("xyz", "VF09", 2, "VI02"), Sq("xyzw", "VF06", 1, "VI03"),
      Bc("mula", "x", "xyzw", "ACC", "VF05", "VF04"), Add("VI02", "VI02", 3),
      Bc("madda", "y", "xyzw", "ACC", "VF01", "VF04"),
      Bc("madda", "z", "xyzw", "ACC", "VF02", "VF04"), Add("VI06", "VI04", 32767),
      Bc("madd", "w", "xyzw", "VF07", "VF03", "VF00"), One("mfir", "w", "VF08", "VI06"),
      Fdiv("div", "w", "VF07"), One("mulq", "xyz", "VF07", "VF07"),
      One("mulq", "xyz", "VF10", "VF09"), One("ftoi4", "xyz", "VF08", "VF07"),
      Sq("xyz", "VF10", 0, "VI03"), Sq("xyzw", "VF08", 2, "VI03"),
      If("ibne", "VI02", "VI05", "loop"), Add("VI03", "VI03", 3) >>]

FastLitLoop ==
    [program |-> "vsmFast", label |-> "xform_loop_lid", own |-> "FastLit",
     vf |-> <<>>, vi |-> [VI02 |-> 0, VI05 |-> 0, VI03 |-> 500], last |-> "VI05", step |-> 3, tests |-> TestLatency,
     tokens |-> <<
      Lq("xyz", "VF04", 0, "VI02"), Lq("xyz", "VF10", 1, "VI02"),
      Ilw("VI04", 0, "VI02"), Lq("xyz", "VF20", 2, "VI02"),
      Bc("mula", "x", "xyzw", "ACC", "VF18", "VF04"), Add("VI02", "VI02", 3),
      Bc("madda", "y", "xyzw", "ACC", "VF01", "VF04"),
      Bc("madda", "z", "xyzw", "ACC", "VF02", "VF04"),
      Bc("madd", "w", "xyzw", "VF08", "VF03", "VF00"), Add("VI06", "VI04", 32767),
      Bc("mula", "x", "xyz", "ACC", "VF11", "VF10"), One("mfir", "w", "VF09", "VI06"),
      Bc("madda", "y", "xyz", "ACC", "VF14", "VF10"),
      Bc("madd", "z", "xyz", "VF13", "VF16", "VF10"), Fdiv("div", "w", "VF08"),
      Up("max", "xyz", "VF19", "VF13", "VF00"),
      Bc("mula", "x", "xyz", "ACC", "VF12", "VF19"),
      Bc("madda", "y", "xyz", "ACC", "VF15", "VF19"),
      Bc("madd", "z", "xyz", "VF05", "VF17", "VF19"),
      One("mulq", "xyz", "VF08", "VF08"), One("mulq", "xyz", "VF21", "VF20"),
      Up("add", "xyz", "VF05", "VF05", "VF07"), One("ftoi4", "xyz", "VF09", "VF08"),
      Sq("xyz", "VF21", 0, "VI03"), Bc("mini", "w", "xyz", "VF05", "VF05", "VF06"),
      Sq("xyzw", "VF09", 2, "VI03"), Sq("xyzw", "VF05", 1, "VI03"),
      If("ibne", "VI02", "VI05", "loop"), Add("VI03", "VI03", 3) >>]

SceiLoop ==
    [program |-> "vsmSCEI", label |-> "xform_loop_lid", own |-> "Scei",
     vf |-> <<>>, vi |-> [VI03 |-> 0, VI05 |-> 0, VI04 |-> 500], last |-> "VI05", step |-> 3, tests |-> TestLatency,
     tokens |-> <<
      Lq("xyz", "VF09", 0, "VI03"), Lq("xyz", "VF19", 1, "VI03"),
      Lq("xyz", "VF22", 2, "VI03"), Ilw("VI06", 0, "VI03"),
      Bc("mula", "x", "xyzw", "ACC", "VF01", "VF09"), Add("VI03", "VI03", 3),
      Bc("madda", "y", "xyzw", "ACC", "VF02", "VF09"),
      Bc("madda", "z", "xyzw", "ACC", "VF03", "VF09"),
      Bc("madd", "w", "xyzw", "VF10", "VF04", "VF00"),
      Bc("mula", "x", "xyz", "ACC", "VF11", "VF19"),
      Bc("madda", "y", "xyz", "ACC", "VF14", "VF19"),
      Bc("madd", "z", "xyz", "VF20", "VF16", "VF19"), Fdiv("div", "w", "VF10"),
      Up("max", "xyz", "VF21", "VF20", "VF00"),
      Bc("mula", "x", "xyz", "ACC", "VF12", "VF21"), One("mulq", "xyz", "VF10", "VF10"),
      Bc("madda", "y", "xyz", "ACC", "VF15", "VF21"),
      Bc("madd", "z", "xyz", "VF05", "VF17", "VF21"),
      One("mulq", "xyz", "VF23", "VF22"), Up("add", "xyz", "VF13", "VF10", "VF06"),
      Up("mul", "xyz", "VF18", "VF10", "VF08"),
      Up("add", "xyz", "VF05", "VF05", "VF07"), One("ftoi4", "xyz", "VF13", "VF13"),
      Up("clip", "xyz", "", "VF18", "VF08"), Fcand(262143),
      Vi("ior", "VI07", "VI01", "VI06"), Bc("mini", "w", "xyz", "VF05", "VF05", "VF06"),
      Add("VI07", "VI07", 32767), One("mfir", "w", "VF13", "VI07"),
      Sq("xyz", "VF23", 0, "VI04"), Sq("xyzw", "VF05", 1, "VI04"),
      Sq("xyzw", "VF13", 2, "VI04"), If("ibne", "VI03", "VI05", "loop"),
      Add("VI04", "VI04", 3) >>]

LinearXformLoop ==
    [program |-> "vsmGeneralLinear", label |-> "xform_loop_lid", own |-> "LinearXform",
     vf |-> <<>>, vi |-> [VI13 |-> 0, VI04 |-> 0, VI03 |-> 500], last |-> "VI04", step |-> 3, tests |-> 1,
     tokens |-> <<
      Lq("xyz", "VF11", 0, "VI13"), Ilw("VI07", 0, "VI13"),
      Bc("mula", "x", "xyzw", "ACC", "VF01", "VF11"),
      Bc("madda", "y", "xyzw", "ACC", "VF02", "VF11"),
      Bc("madda", "z", "xyzw", "ACC", "VF03", "VF11"),
      Bc("madd", "w", "xyzw", "VF12", "VF04", "VF00"), Fdiv("div", "w", "VF12"),
      One("mulq", "xyz", "VF12", "VF12"), Up("add", "xyz", "VF13", "VF12", "VF05"),
      Up("sub", "xyz", "VF14", "VF09", "VF12"), One("ftoi4", "xyz", "VF13", "VF13"),
      Up("opmula", "xyz", "ACC", "VF14", "VF06"),
      Up("opmsub", "xyz", "VF15", "VF06", "VF14"), Flag("fmand", "VI08", "VI06", ""),
      Bc("mul", "w", "xyz", "VF06", "VF14", "VF10"), Vi("isub", "VI08", "VI08", "VI05"),
      Bc("mul", "w", "xyz", "VF09", "VF12", "VF00"), Vi("isub", "VI05", "VI06", "VI05"),
      Up("mul", "xyz", "VF16", "VF12", "VF07"), Vi("iand", "VI10", "VI07", "VI06"),
      Vi("iand", "VI08", "VI08", "VI06"), Vi("ior", "VI05", "VI05", "VI10"),
      Up("clip", "xyz", "", "VF16", "VF07"), Fcand(262143),
      Lq("xyz", "VF17", 2, "VI13"), Vi("iand", "VI01", "VI01", "VI02"),
      Vi("ior", "VI09", "VI01", "VI08"), Vi("ior", "VI09", "VI09", "VI07"),
      One("mulq", "xyz", "VF18", "VF17"), Add("VI09", "VI09", 32767),
      One("mfir", "w", "VF13", "VI09"), Sq("xyz", "VF08", 1, "VI03"),
      Add("VI13", "VI13", 3), Sq("xyz", "VF18", 0, "VI03"),
      Sq("xyzw", "VF13", 2, "VI03"), If("ibne", "VI13", "VI04", "loop"),
      Add("VI03", "VI03", 3) >>]

DirLightSpecLoop ==
    [program |-> "vsmDirLightSpec", label |-> "dir_light_vert_loop_lid", own |-> "DirLightSpec",
     vf |-> <<>>, vi |-> [VI13 |-> 0, VI04 |-> 0, VI03 |-> 500], last |-> "VI04", step |-> 3, tests |-> TestLatency,
     tokens |-> <<
      Lq("xyz", "VF14", 1, "VI13"), Lq("xyz", "VF29", 1, "VI03"),
      Add("VI13", "VI13", 3), Up("mul", "xyz", "VF17", "VF16", "VF14"),
      Up("mul", "xyz", "VF20", "VF19", "VF14"),
      Bc("adda", "y", "z", "ACC", "VF17", "VF17"),
      Bc("madd", "x", "z", "VF17", "VF11", "VF17"), One("mr32", "xyw", "VF20", "VF20"),
      Bc("max", "x", "z", "VF17", "VF17", "VF00"),
      Bc("mul", "z", "xyz", "VF18", "VF13", "VF17"),
      Up("mula", "xyz", "ACC", "VF18", "VF08"),
      Bc("adda", "x", "w", "ACC", "VF20", "VF20"),
      Bc("madd", "y", "w", "VF21", "VF00", "VF20"),
      Bc("max", "x", "w", "VF22", "VF21", "VF00"),
      Up("mul", "w", "VF22", "VF22", "VF22"), Up("mul", "w", "VF22", "VF22", "VF22"),
      Up("mul", "w", "VF22", "VF22", "VF22"), Up("mul", "w", "VF22", "VF22", "VF22"),
      Up("mul", "w", "VF22", "VF22", "VF22"),
      Bc("madda", "w", "xyz", "ACC", "VF15", "VF22"),
      Up("madd", "xyz", "VF28", "VF12", "VF06"),
      Up("add", "xyz", "VF30", "VF29", "VF28"), Sq("xyz", "VF30", 1, "VI03"),
      If("ibne", "VI13", "VI04", "loop"), Add("VI03", "VI03", 3) >>]

DirLightSpecLoadedLoop ==
    [program |-> "vsmDirLightSpecPvDiff", label |-> "dir_light_vert_loop_lid", own |-> "DirLightSpec",
     vf |-> <<>>, vi |-> [VI13 |-> 0, VI04 |-> 0, VI03 |-> 500], last |-> "VI04", step |-> 4, tests |-> TestLatency,
     tokens |-> <<
      Lq("xyz", "VF13", 1, "VI13"), Lq("xyz", "VF16", 3, "VI13"),
      Lq("xyz", "VF29", 1, "VI03"), Add("VI13", "VI13", 4),
      Up("mul", "xyz", "VF17", "VF15", "VF13"),
      Up("mul", "xyz", "VF20", "VF18", "VF13"),
      Bc("adda", "y", "z", "ACC", "VF17", "VF17"),
      Bc("madd", "x", "z", "VF17", "VF10", "VF17"), One("mr32", "xyw", "VF20", "VF20"),
      Bc("max", "x", "z", "VF17", "VF17", "VF00"),
      Bc("mul", "z", "xyz", "VF19", "VF12", "VF17"),
      Up("mula", "xyz", "ACC", "VF19", "VF16"),
      Bc("adda", "x", "w", "ACC", "VF20", "VF20"),
      Bc("madd", "y", "w", "VF21", "VF00", "VF20"),
      Bc("max", "x", "w", "VF22", "VF21", "VF00"),
      Up("mul", "w", "VF23", "VF22", "VF22"), Up("mul", "w", "VF24", "VF23", "VF23"),
      Up("mul", "w", "VF25", "VF24", "VF24"), Up("mul", "w", "VF26", "VF25", "VF25"),
      Up("mul", "w", "VF27", "VF26", "VF26"),
      Bc("madda", "w", "xyz", "ACC", "VF14", "VF27"),
      Up("madd", "xyz", "VF28", "VF11", "VF06"),
      Up("add", "xyz", "VF30", "VF29", "VF28"), Sq("xyz", "VF30", 1, "VI03"),
      If("ibne", "VI13", "VI04", "loop"), Add("VI03", "VI03", 3) >>]

DirLightSpecIndexedLoop ==
    [program |-> "vsmDirLightSpecIndexed", label |-> "dir_light_vert_loop_lid", own |-> "DirLightSpec",
     vf |-> <<>>, vi |-> [VI04 |-> 0, VI06 |-> 0, VI05 |-> 500], last |-> "VI06", step |-> 3, tests |-> TestLatency,
     tokens |-> <<
      Lq("xyz", "VF12", 1, "VI04"), Lq("xyz", "VF27", 0, "VI05"),
      Up("mul", "xyz", "VF15", "VF14", "VF12"),
      Up("mul", "xyz", "VF18", "VF17", "VF12"),
      Bc("adda", "y", "z", "ACC", "VF15", "VF15"),
      Bc("madd", "x", "z", "VF15", "VF09", "VF15"), One("mr32", "xyw", "VF18", "VF18"),
      Bc("max", "x", "z", "VF15", "VF15", "VF00"),
      Bc("mul", "z", "xyz", "VF16", "VF11", "VF15"),
      Up("mula", "xyz", "ACC", "VF16", "VF06"),
      Bc("adda", "x", "w", "ACC", "VF18", "VF18"),
      Bc("madd", "y", "w", "VF19", "VF00", "VF18"),
      Bc("max", "x", "w", "VF20", "VF19", "VF00"),
      Up("mul", "w", "VF21", "VF20", "VF20"), Up("mul", "w", "VF22", "VF21", "VF21"),
      Up("mul", "w", "VF23", "VF22", "VF22"), Up("mul", "w", "VF24", "VF23", "VF23"),
      Up("mul", "w", "VF25", "VF24", "VF24"),
      Bc("madda", "w", "xyz", "ACC", "VF13", "VF25"),
      Up("madd", "xyz", "VF26", "VF10", "VF05"),
      Up("add", "xyz", "VF28", "VF27", "VF26"), Sqi("xyz", "VF28", "VI05"),
      Add("VI04", "VI04", 3), If("ibne", "VI04", "VI06", "loop") >>]

DirLightNoSpecLoop ==
    [program |-> "vsmDirLight", label |-> "dir_light_vert_loop_lid", own |-> "DirLightNoSpec",
     vf |-> <<>>, vi |-> [VI13 |-> 0, VI04 |-> 0, VI03 |-> 500], last |-> "VI04", step |-> 3, tests |-> TestLatency,
     tokens |-> <<
      Lq("xyz", "VF12", 1, "VI13"), Lq("xyz", "VF17", 1, "VI03"),
      Add("VI13", "VI13", 3), Up("mul", "xyz", "VF14", "VF13", "VF12"),
      Bc("adda", "y", "z", "ACC", "VF14", "VF14"),
      Bc("madd", "x", "z", "VF14", "VF09", "VF14"),
      Bc("max", "x", "z", "VF14", "VF14", "VF00"),
      Bc("mul", "z", "xyz", "VF15", "VF11", "VF14"),
      Up("mula", "xyz", "ACC", "VF15", "VF08"),
      Up("madd", "xyz", "VF16", "VF10", "VF06"),
      Up("add", "xyz", "VF18", "VF17", "VF16"), Sq("xyz", "VF18", 1, "VI03"),
      If("ibne", "VI13", "VI04", "loop"), Add("VI03", "VI03", 3) >>]

PtLightSpecLoop ==
    [program |-> "vsmPtLightSpec", label |-> "pt_light_vert_loop_lid", own |-> "PtLightSpec",
     vf |-> <<>>, vi |-> [VI13 |-> 0, VI04 |-> 0, VI03 |-> 500], last |-> "VI04", step |-> 3, tests |-> TestLatency,
     tokens |-> <<
      Lq("xyz", "VF18", 0, "VI13"), Lq("xyz", "VF17", 1, "VI13"),
      Add("VI13", "VI13", 3), Up("sub", "xyz", "VF20", "VF16", "VF18"),
      Up("mul", "xyz", "VF22", "VF20", "VF20"),
      Bc("adda", "y", "z", "ACC", "VF22", "VF22"),
      Bc("madd", "x", "z", "VF22", "VF11", "VF22"),
      Bc("add", "w", "x", "VF22", "VF00", "VF00"), Fdiv("sqrt", "z", "VF22"),
      One("addq", "y", "VF22", "VF00"), Fdiv("div", "y", "VF22"),
      One("mulq", "xyz", "VF18", "VF20"), Up("mul", "xyz", "VF20", "VF22", "VF14"),
      Up("add", "xyz", "VF19", "VF10", "VF18"),
      Bc("mula", "x", "w", "ACC", "VF00", "VF20"),
      Bc("madda", "y", "w", "ACC", "VF00", "VF20"),
      Bc("madd", "z", "w", "VF22", "VF00", "VF20"), Efu("esadd", "xyz", "VF19"),
      Up("mul", "xyz", "VF20", "VF18", "VF17"), Fdiv("div", "w", "VF22"),
      Bc("mula", "x", "w", "ACC", "VF00", "VF20"), One("mfp", "w", "VF19", "P"),
      Bc("madda", "y", "w", "ACC", "VF00", "VF20"),
      Bc("madd", "z", "w", "VF21", "VF00", "VF20"), Efu("ersqrt", "w", "VF19"),
      Bc("max", "x", "w", "VF20", "VF21", "VF00"),
      Bc("mul", "w", "xyz", "VF21", "VF13", "VF20"),
      Up("mula", "xyz", "ACC", "VF21", "VF08"), One("mfp", "w", "VF19", "P"),
      Bc("mul", "w", "xyz", "VF19", "VF19", "VF19"),
      Up("mul", "xyz", "VF18", "VF19", "VF17"),
      Bc("mula", "x", "w", "ACC", "VF00", "VF18"),
      Bc("madda", "y", "w", "ACC", "VF00", "VF18"),
      Bc("madd", "z", "w", "VF17", "VF00", "VF18"),
      Bc("max", "x", "w", "VF18", "VF17", "VF00"),
      Up("mul", "w", "VF17", "VF18", "VF18"), Up("mul", "w", "VF18", "VF17", "VF17"),
      Up("mul", "w", "VF17", "VF18", "VF18"), Up("mul", "w", "VF18", "VF17", "VF17"),
      Up("mul", "w", "VF17", "VF18", "VF18"),
      Bc("madda", "w", "xyz", "ACC", "VF15", "VF17"),
      Up("madd", "xyz", "VF17", "VF12", "VF06"), One("mulq", "xyz", "VF18", "VF17"),
      Lq("xyz", "VF17", 1, "VI03"), Up("add", "xyz", "VF20", "VF17", "VF18"),
      Sq("xyz", "VF20", 1, "VI03"), If("ibne", "VI13", "VI04", "loop"),
      Add("VI03", "VI03", 3) >>]

PtLightNoSpecLoop ==
    [program |-> "vsmPtLight", label |-> "pt_light_vert_loop_lid", own |-> "PtLightNoSpec",
     vf |-> <<>>, vi |-> [VI13 |-> 0, VI04 |-> 0, VI03 |-> 500], last |-> "VI04", step |-> 3, tests |-> TestLatency,
     tokens |-> <<
      Lq("xyz", "VF15", 0, "VI13"), Lq("xyz", "VF14", 1, "VI13"),
      Lq("xyz", "VF26", 1, "VI03"), Add("VI13", "VI13", 3),
      Up("sub", "xyz", "VF16", "VF13", "VF15"),
      Up("mul", "xyz", "VF18", "VF16", "VF16"),
      Bc("adda", "y", "z", "ACC", "VF18", "VF18"),
      Bc("madd", "x", "z", "VF18", "VF09", "VF18"),
      Bc("add", "w", "x", "VF18", "VF00", "VF00"), Fdiv("sqrt", "z", "VF18"),
      One("addq", "y", "VF18", "VF00"), Fdiv("div", "y", "VF18"),
      Up("mul", "xyz", "VF19", "VF18", "VF12"),
      Bc("mula", "x", "w", "ACC", "VF00", "VF19"),
      Bc("madda", "y", "w", "ACC", "VF00", "VF19"),
      Bc("madd", "z", "w", "VF18", "VF00", "VF19"), One("mulq", "xyz", "VF17", "VF16"),
      Fdiv("div", "w", "VF18"), Up("mul", "xyz", "VF20", "VF17", "VF14"),
      Bc("mula", "x", "w", "ACC", "VF00", "VF20"),
      Bc("madda", "y", "w", "ACC", "VF00", "VF20"),
      Bc("madd", "z", "w", "VF21", "VF00", "VF20"),
      Bc("max", "x", "w", "VF22", "VF21", "VF00"),
      Bc("mul", "w", "xyz", "VF23", "VF11", "VF22"),
      Up("mula", "xyz", "ACC", "VF23", "VF08"),
      Up("madd", "xyz", "VF24", "VF10", "VF06"), One("mulq", "xyz", "VF25", "VF24"),
      Up("add", "xyz", "VF27", "VF26", "VF25"), Sq("xyz", "VF27", 1, "VI03"),
      If("ibne", "VI13", "VI04", "loop"), Add("VI03", "VI03", 3) >>]

FinalColorLoop ==
    [program |-> "vsmGeneral", label |-> "final_loop_lid", own |-> "FinalColor",
     vf |-> <<>>, vi |-> [VI03 |-> 0, VI02 |-> 0], last |-> "VI02", step |-> 3, tests |-> TestLatency,
     tokens |-> <<
      Lq("xyz", "VF08", 1, "VI03"), Add("VI03", "VI03", 3),
      One("minii", "xyz", "VF08", "VF08"), One("ftoi0", "xyz", "VF08", "VF08"),
      If("ibne", "VI03", "VI02", "loop"), Sq("xyzw", "VF08", -2, "VI03") >>]

\* Loops that differ in one stride or one offset from those the rows are for.
WiderNoSpecLoop ==
    [DirLightNoSpecLoop EXCEPT
        !.own = "none", !.step = 4,
        !.tokens = [j \in DOMAIN @ |-> IF @[j] = Add("VI13", "VI13", 3)
                                      THEN Add("VI13", "VI13", 4) ELSE @[j]]]
WiderOutputLoop ==
    [PtLightSpecLoop EXCEPT
        !.own = "none",
        !.tokens = [j \in DOMAIN @ |-> IF @[j] = Add("VI03", "VI03", 3)
                                      THEN Add("VI03", "VI03", 4) ELSE @[j]]]
LaterVertexLoop ==
    [FastNoLightsLoop EXCEPT
        !.own = "none",
        !.tokens = [j \in DOMAIN @ |-> IF @[j] = Lq("xyz", "VF09", 2, "VI02")
                                      THEN Lq("xyz", "VF09", 1, "VI02") ELSE @[j]]]

MCLoops == <<FastNoLightsLoop, FastLitLoop, SceiLoop, LinearXformLoop,
             DirLightSpecLoop, DirLightSpecLoadedLoop, DirLightSpecIndexedLoop, DirLightNoSpecLoop,
             PtLightSpecLoop, PtLightNoSpecLoop, FinalColorLoop,
             WiderNoSpecLoop, WiderOutputLoop, LaterVertexLoop>>
================================================================================
