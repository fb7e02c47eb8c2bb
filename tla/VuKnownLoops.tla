----------------------------- MODULE VuKnownLoops -----------------------------
(* The known-loop emitters of CodeGenerator.cpp.  At a loop's label each      *)
(* emitter in turn looks through the scheduled tokens for the instructions of *)
(* its own loop, binding the registers it meets to roles; the first that      *)
(* finds them all writes out a hand-pipelined loop over these registers in    *)
(* place of the tokens.  Here every list a scheduler may leave for a loop is  *)
(* offered to the emitters, and what they write is run on the machine of      *)
(* VuLoopMachine and compared with what the list computes.                    *)
EXTENDS VuXformLoops, VuLightLoops

CONSTANTS Loops,     \* the loops: program, label, tokens, registers on entry, the
                     \* name of the emitter written for it or "none"
          Turns,     \* how often a loop may turn
          MaxMoves   \* bound on the tokens moved to get another schedule

VARIABLES loop,      \* which of Loops
          turns,     \* how often it turns
          list,      \* its tokens, as scheduled
          moves,     \* tokens moved to get there
          phase,     \* "schedule", "try", "emit", "passed" or "done"
          shape,     \* the emitter being tried
          env,       \* the roles it has bound
          pc,        \* the emitted row to run
          target,    \* the row a taken branch goes to behind its delay slot
          t          \* the machine the rows run on

ran  == <<pc, target, t>>
vars == <<loop, turns, list, moves, phase, shape, env, ran>>

--------------------------------------------------------------------------------
(* The loops and what they compute.                                           *)

Entered(p, n) ==
    Fresh(p.vf, [r \in DOMAIN p.vi |-> IF r = p.last THEN p.vi[r] + p.step * n ELSE p.vi[r]])

Computed == [j \in DOMAIN Loops |->
                [n \in Turns |-> Sequential(Entered(Loops[j], n), Loops[j].tokens)]]

--------------------------------------------------------------------------------
(* The orders a scheduler may leave the tokens in: those that keep every      *)
(* dependence.  The branch and the filler behind it stay.                     *)

ReadsOf(i) ==
    Awaited(i)
    \cup (IF i.op \in {"madd", "madda", "opmsub"} THEN {"ACC"} \X Axis(i.f) ELSE {})
    \cup (IF i.op \in {"mulq", "addq", "waitq"} THEN {<<"Q", "">>} ELSE {})
    \cup (IF i.op \in {"mfp", "waitp"} THEN {<<"P", "">>} ELSE {})
    \cup (IF i.op = "fmand" THEN {<<"MAC", "">>} ELSE {})
    \cup (IF i.op \in {"fcand", "clip"} THEN {<<"CLIP", "">>} ELSE {})
    \cup (({i.a, i.b} \cap ToSet(VIs)) \X {""})
WritesOf(i) ==
    (IF WritesVf(i) THEN {i.d} \X Axis(i.f) ELSE {})
    \cup (IF i.op \in Fmac THEN {<<"MAC", "">>} ELSE {})
    \cup (IF i.op = "clip" THEN {<<"CLIP", "">>} ELSE {})
    \cup ((({i.d} \cap {"Q", "P"}) \cup WritesVi(i)) \X {""})

Stores(i)   == i.op \in {"sq", "sqi"}
Accesses(i) == Stores(i) \/ i.op \in {"lq", "ilw"}

Apart(i, j, flagsRead) ==
    LET free == IF flagsRead THEN {} ELSE {<<"MAC", "">>} IN
    /\ WritesOf(i) \cap (ReadsOf(j) \cup (WritesOf(j) \ free)) = {}
    /\ ReadsOf(i) \cap WritesOf(j) = {}
    /\ ~(/\ Accesses(i) /\ Accesses(j) /\ (Stores(i) \/ Stores(j))
         /\ i.a = j.a /\ i.k = j.k)

\* A token moves up over those it does not depend on.
Schedule ==
    /\ phase = "schedule"
    /\ moves < MaxMoves
    /\ LET last == CHOOSE j \in DOMAIN list : IsBranch(list[j])
           fm   == \E j \in DOMAIN list : list[j].op = "fmand"
       IN  \E from \in 2 .. last - 1 : \E to \in 1 .. from - 1 :
             /\ \A j \in to .. from - 1 : Apart(list[j], list[from], fm)
             /\ list' = InsertAt(RemoveAt(list, from), to, list[from])
    /\ moves' = moves + 1
    /\ UNCHANGED <<loop, turns, phase, shape, env, ran>>

Scheduled ==
    /\ phase = "schedule"
    /\ phase' = "try"
    /\ UNCHANGED <<loop, turns, list, moves, shape, env, ran>>

--------------------------------------------------------------------------------
(* tryEmitKnownLoopOptimization and the emitters it calls.                    *)

Shapes == <<FastNoLights, FastLit, Scei, LinearXform, DirLightSpec, DirLightNoSpec,
            PtLightSpec, PtLightNoSpec, FinalColor>>
Names  == <<"FastNoLights", "FastLit", "Scei", "LinearXform", "DirLightSpec", "DirLightNoSpec",
            "PtLightSpec", "PtLightNoSpec", "FinalColor">>

Gate(s, p) == s.program \in {"", p.program} /\ s.label = p.label

Refused ==
    /\ phase = "try"
    /\ LET s == Shapes[shape] IN
         ~(Gate(s, Loops[loop]) /\ Accepts(s, Collected(s, list)))
    /\ IF shape < Len(Shapes) THEN shape' = shape + 1 /\ UNCHANGED phase
                              ELSE phase' = "passed" /\ UNCHANGED shape
    /\ UNCHANGED <<loop, turns, list, moves, env, ran>>

Accepted ==
    /\ phase = "try"
    /\ LET s == Shapes[shape]
           c == Collected(s, list)
       IN  /\ Gate(s, Loops[loop])
           /\ Accepts(s, c)
           /\ turns' \in Turns
           /\ env' = Scratched(s, c.env)
    /\ phase' = "emit"
    /\ list' = <<>> /\ moves' = 0
    /\ pc' = 1 /\ target' = 0
    /\ t' = Settled(Entered(Loops[loop], turns'), Loops[loop].tests)
    /\ UNCHANGED <<loop, shape>>

--------------------------------------------------------------------------------
(* The emitted rows.                                                          *)

Emitted == [s \in DOMAIN Shapes |->
              [k \in DOMAIN Shapes[s].listing |-> Rows(Shapes[s].listing[k])]]

Run ==
    /\ phase = "emit"
    /\ LET rows == Emitted[shape][Key(Shapes[shape], env)]
           u    == Resolved(env, rows[pc][1])
           l    == Resolved(env, rows[pc][2])
           next == IF target # 0 THEN target ELSE pc + 1
       IN  /\ t' = Row(t, u, l)
           /\ target' = IF IsBranch(l) /\ TakenRow(t, u, l)
                        THEN RowOf(Shapes[shape].listing[Key(Shapes[shape], env)], l.at) ELSE 0
           /\ pc' = next
           /\ phase' = IF next > Len(rows) THEN "done" ELSE phase
    /\ UNCHANGED <<loop, turns, list, moves, shape, env>>

Init == /\ loop \in DOMAIN Loops
        /\ turns = 0
        /\ list = Loops[loop].tokens
        /\ moves = 0
        /\ phase = "schedule"
        /\ shape = 1
        /\ env = <<>>
        /\ pc = 0 /\ target = 0 /\ t = <<>>

Next == Schedule \/ Scheduled \/ Refused \/ Accepted \/ Run
Spec == Init /\ [][Next]_vars

--------------------------------------------------------------------------------
(* Properties.                                                                *)

\* The loop an emitter writes leaves in memory what the source loop leaves
\* there, however often it turns and however its instructions were scheduled:
\* the prologs, the pipelined turns, the drain and the scalar rest together
\* store every result once, at its place, and none besides.
EmittedMemory == phase = "done" => t.m.mem = Computed[loop][turns].mem

\* The input pointer never passes the end the source loop compares it with:
\* each exit of the pipeline takes back as many turns as it has under way, so
\* the comparison for equality that ends the loop is never missed.
InputBounded == phase \in {"emit", "done"} => t.m.vi[env.input] <= t.m.vi[env.lastInput]

\* A loop is only ever taken by the emitter written for it: two emitters look
\* for the same label, and the one with fewer clauses must refuse the other's
\* loop in every schedule.  A loop with other strides or offsets is taken by
\* none.  The loop as its source writes it is always recognised; only a schedule
\* that moved an instruction before what its clause needs may be passed by.
Recognised ==
    /\ phase \in {"emit", "done"} => Names[shape] = Loops[loop].own
    /\ phase = "passed" => moves > 0 \/ Loops[loop].own = "none"

================================================================================
