----------------------------- MODULE MCCostAnalysis -----------------------------
(* Instances of VuCostAnalysis: every candidate of a few lines, against two  *)
(* baselines.                                                                *)
EXTENDS VuCostAnalysis

CONSTANT Length

At(name, mark)  == [name |-> name, mark |-> mark]
Mark(name, mark) == [kind |-> "LABEL", label |-> At(name, mark)]

Row(upper, lower, latency, throughput) ==
  [kind |-> "ROW", upper |-> upper, lower |-> lower, latency |-> latency, throughput |-> throughput]

Lines ==
  {Row(TRUE, "LOWER", 4, 1), Row(FALSE, "NOP", 0, 0),
   Row(FALSE, "FDIV", 3, 3), Row(TRUE, "FDIV", 5, 5), Row(FALSE, "EFU", 5, 4),
   Row(FALSE, "WAITQ", 0, 0), Row(TRUE, "WAITQ", 4, 0), Row(TRUE, "WAITP", 4, 0),
   Mark("xform_loop_lid", "MAIN_LOOP"), Mark("xform_loop_lid", "PLAIN"), Mark("l", "FALLBACK")}

Baselines ==
  {<<[kind |-> "IGNORED"], Row(TRUE, "FDIV", 3, 3), Mark("adcLoop_done_lid", "SCE_FAST_MAIN_LOOP"),
     Row(FALSE, "FDIV", 5, 5), Row(FALSE, "WAITQ", 0, 0), Mark("done_lid", "PLAIN"), Row(TRUE, "BRANCH", 2, 1)>>,
   <<Mark("final_loop_lid", "SCE_MAIN_LOOP"), Row(FALSE, "EFU", 5, 4), Row(FALSE, "WAITP", 0, 0)>>}

SomePairs == Baselines \X [1 .. Length -> Lines]

SomeSelections ==
  {[l \in {At("xform_loop_lid", "PLAIN"), At("final_loop_lid", "PLAIN")} |-> 3],
   (At("xform_loop_lid", "MAIN_LOOP") :> 2) @@ (At("xform_loop_lid", "PLAIN") :> 4)}

Preset == {"xform_loop_lid", "dir_light_vert_loop_lid", "pt_light_vert_loop_lid", "final_loop_lid"}
================================================================================
