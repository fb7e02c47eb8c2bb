---------------------------- MODULE VuLoopMachine ----------------------------
(* The vector unit as the known-loop emitters see it.  A token list is run    *)
(* one instruction at a time (Effect); an emitted listing one row of an upper *)
(* and a lower instruction at a time (Row), with the delays the hardware has  *)
(* and does not wait for: Q, P, a loaded integer, the integer a branch tests  *)
(* and the flags are old until their latency has passed; only vector          *)
(* registers stall their reader.                                              *)
(* Arithmetic is uninterpreted: an operation is a fixed scrambling of its     *)
(* operands that keeps what the emitters rely on (sums and products commute,  *)
(* 0 and 1 are neutral, the maximum of equal values is that value).           *)
EXTENDS Integers, Sequences, FiniteSetsExt, SequencesExt, TLC

--------------------------------------------------------------------------------
(* Instructions.  d, a and b name registers, or roles a pattern gives to      *)
(* registers; c is the broadcast field, f the destination fields; k a number  *)
(* and imm the name of a number to add to it; at the label a branch goes to.  *)

Ins(op, c, f, d, a, b, k, imm, at) ==
    [op |-> op, c |-> c, f |-> f, d |-> d, a |-> a, b |-> b,
     k |-> k, imm |-> imm, at |-> at]

Nop                   == Ins("nop", "", "", "", "", "", 0, "", "")
Up(op, f, d, a, b)    == Ins(op, "", f, d, a, b, 0, "", "")
Bc(op, c, f, d, a, b) == Ins(op, c, f, d, a, b, 0, "", "")
One(op, f, d, a)      == Ins(op, "", f, d, a, "", 0, "", "")
Lq(f, d, k, base)     == Ins("lq", "", f, d, base, "", k, "", "")
Sq(f, b, k, base)     == Ins("sq", "", f, "", base, b, k, "", "")
Sqi(f, b, base)       == Ins("sqi", "", f, "", base, b, 0, "", "")
Ilw(d, k, base)       == Ins("ilw", "", "w", d, base, "", k, "", "")
Add(d, a, k)          == Ins("iaddiu", "", "", d, a, "", k, "", "")
AddOf(d, a, imm)      == Ins("iaddiu", "", "", d, a, "", 0, imm, "")
Less(d, a, k)         == Ins("isubiu", "", "", d, a, "", k, "", "")
Vi(op, d, a, b)       == Ins(op, "", "", d, a, b, 0, "", "")
Flag(op, d, a, imm)   == Ins(op, "", "", d, a, "", 0, imm, "")
Fcand(k)              == Ins("fcand", "", "", "VI01", "VI00", "", k, "", "")
Fdiv(op, c, b)        == Ins(op, c, "", "Q", "VF00", b, 0, "", "")
Efu(op, f, a)         == Ins(op, "", f, "P", a, "", 0, "", "")
Wait(op)              == Ins(op, "", "", "", "", "", 0, "", "")
If(op, a, b, at)      == Ins(op, "", "", "", a, b, 0, "", at)
Jump(at)              == Ins("b", "", "", "", "", "", 0, "", at)
As(form, d, a, b)     == Ins(form, "", "", d, a, b, 0, "", "")
With(i, name)         == [i EXCEPT !.imm = name]

\* A name is a role of the pattern or the register itself; a captured form
\* stands for its operation, broadcast and fields.
Reg(env, name) == IF name \in DOMAIN env THEN env[name] ELSE name
K(env, i)      == i.k + (IF i.imm = "" THEN 0 ELSE env[i.imm])

Resolved(env, i) ==
    IF i.op \in DOMAIN env
    THEN [i EXCEPT !.op = env[i.op].op, !.c = env[i.op].c, !.f = env[i.op].f,
                   !.d = Reg(env, @), !.a = Reg(env, @), !.b = Reg(env, @)]
    ELSE [i EXCEPT !.d = Reg(env, @), !.a = Reg(env, @), !.b = Reg(env, @),
                   !.k = K(env, i), !.imm = ""]

--------------------------------------------------------------------------------
(* Values and the operations on them.                                         *)

Modulus == 4093

Ordered(k, a, b)   == LET x == a % Modulus  y == b % Modulus
                      IN  2 + ((7 * x * x + k * x * y + (3 * k + 5) * y + 17 * k) % Modulus)
Unordered(k, a, b) == LET x == a % Modulus  y == b % Modulus
                      IN  2 + ((k * x * y + (3 * k + 5) * (x + y) + 17 * k) % Modulus)

Plus(a, b)  == IF a = 0 THEN b ELSE IF b = 0 THEN a ELSE Unordered(2, a, b)
Times(a, b) == IF a = 0 \/ b = 0 THEN 0
               ELSE IF a = 1 THEN b ELSE IF b = 1 THEN a ELSE Unordered(1, a, b)
Minus(a, b) == IF b = 0 THEN a ELSE Ordered(3, a, b)
Most(a, b)  == IF a = b THEN a ELSE Unordered(4, a, b)
Least(a, b) == IF a = b THEN a ELSE Unordered(5, a, b)

Axes == {"x", "y", "z", "w"}
Axis(f) == CASE f = "xyzw" -> Axes
             [] f = "xyz"  -> {"x", "y", "z"}
             [] f = "xyw"  -> {"x", "y", "w"}
             [] f = ""     -> {}
             [] OTHER      -> {f}
After == [x |-> "y", y |-> "z", z |-> "w", w |-> "x"]
Turn  == [x |-> "y", y |-> "z", z |-> "x", w |-> "w"]

Vector(x, y, z, w) == [x |-> x, y |-> y, z |-> z, w |-> w]
All(v)             == Vector(v, v, v, v)

Arithmetic(op) ==
    CASE op \in {"add", "adda", "addq"}         -> "add"
      [] op \in {"mul", "mula", "mulq"}         -> "mul"
      [] op \in {"madd", "madda"}               -> "madd"
      [] op \in {"mini", "minii"}               -> "mini"
      [] OTHER                                  -> op

Fmac == {"add", "adda", "addq", "sub", "mul", "mula", "mulq", "madd", "madda", "max",
         "mini", "minii", "ftoi0", "ftoi4", "opmula", "opmsub"}
Moves == {"move", "mr32", "mfir", "mfp"}
Ialu  == {"iaddiu", "isubiu", "ior", "iand", "iadd", "isub", "fcand", "fmand"}

Operations == Fmac \cup Moves \cup Ialu
              \cup {"clip", "lq", "sq", "sqi", "ilw", "div", "sqrt", "rsqrt", "esadd", "ersqrt",
                    "waitq", "waitp"}

--------------------------------------------------------------------------------
(* One instruction: i applied to machine m, its operands read from view v.    *)

\* The second operand of an upper instruction.
Second(v, i) == IF i.op \in {"mulq", "addq"} THEN All(v.q)
                ELSE IF i.op = "minii" THEN All(v.i)
                ELSE IF i.b = "" THEN All(0)
                ELSE IF i.c = "" THEN v.vf[i.b] ELSE All(v.vf[i.b][i.c])

Field(v, i, a, b, f) ==
    LET acc == v.vf["ACC"][f] IN
    CASE Arithmetic(i.op) = "add"  -> Plus(a[f], b[f])
      [] Arithmetic(i.op) = "mul"  -> Times(a[f], b[f])
      [] Arithmetic(i.op) = "madd" -> Plus(acc, Times(a[f], b[f]))
      [] Arithmetic(i.op) = "mini" -> Least(a[f], b[f])
      [] i.op = "sub"              -> Minus(a[f], b[f])
      [] i.op = "max"              -> Most(a[f], b[f])
      [] i.op = "ftoi0"            -> Ordered(6, a[f], 0)
      [] i.op = "ftoi4"            -> Ordered(7, a[f], 0)
      [] i.op = "opmula"           -> Times(a[Turn[f]], b[Turn[Turn[f]]])
      [] i.op = "opmsub"           -> Minus(acc, Times(a[Turn[f]], b[Turn[Turn[f]]]))
      [] i.op = "move"             -> a[f]
      [] i.op = "mr32"             -> a[After[f]]
      [] i.op = "mfir"             -> v.vi[i.a] % Modulus
      [] i.op = "mfp"              -> v.p

\* The vector i leaves in its destination, which held old.
Result(v, i, old) ==
    LET a == IF i.op \in {"mfir", "mfp"} THEN All(0) ELSE v.vf[i.a]
        b == Second(v, i)
    IN  [f \in Axes |-> IF f \in Axis(i.f) THEN Field(v, i, a, b, f) ELSE old[f]]

Folded(k, vec) == Ordered(k, Ordered(k, vec.x, vec.y), Ordered(k, vec.z, vec.w))

\* The clip judgement of a vector against the w of another.
Judged(v, i) == Folded(13, [v.vf[i.a] EXCEPT !.w = v.vf[i.b].w])

Integer(v, i) ==
    CASE i.op = "iaddiu" -> v.vi[i.a] + i.k
      [] i.op = "isubiu" -> v.vi[i.a] - i.k
      [] i.op = "iadd"   -> v.vi[i.a] + v.vi[i.b]
      [] i.op = "isub"   -> v.vi[i.a] - v.vi[i.b]
      [] i.op = "iand"   -> Unordered(17, v.vi[i.a], v.vi[i.b])
      [] i.op = "ior"    -> Unordered(18, v.vi[i.a], v.vi[i.b])
      [] i.op = "fmand"  -> Ordered(16, v.mac, v.vi[i.a])
      [] i.op = "fcand"  -> Ordered(15, Ordered(15, v.clip[1], v.clip[2]), v.clip[3] + i.k)

\* What a quadword holds that nothing has stored to.
Untouched(w) == Vector(Ordered(21, w, 1), Ordered(21, w, 2),
                       Ordered(21, w, 3), Ordered(21, w, 4))

Quadword(m, w) == IF w \in DOMAIN m.mem THEN m.mem[w] ELSE Untouched(w)
Loaded(v, i)   == Quadword(v, v.vi[i.a] + i.k)

Quotient(v, i) == IF i.op = "div" THEN Ordered(8, v.vf[i.a].w, v.vf[i.b][i.c])
                  ELSE Ordered(9, v.vf[i.b][i.c], 0)

Elementary(v, i) == IF i.op = "esadd"
                    THEN Folded(10, [v.vf[i.a] EXCEPT !.w = 0])
                    ELSE Ordered(12, v.vf[i.a].w, 0)

Kept(m, r, vec) == IF r = "VF00" THEN m ELSE [m EXCEPT !.vf[r] = vec]

Stored(m, v, i) ==
    LET w == v.vi[i.a] + i.k
        old == Quadword(m, w)
        vec == [f \in Axes |-> IF f \in Axis(i.f) THEN v.vf[i.b][f] ELSE old[f]]
    IN  [m EXCEPT !.mem = (w :> vec) @@ @]

Effect(i, v, m) ==
    CASE i.op \in Fmac ->
             LET vec == Result(v, i, m.vf[i.d])
             IN  [Kept(m, i.d, vec) EXCEPT !.mac = Folded(14, vec)]
      [] i.op \in Moves  -> Kept(m, i.d, Result(v, i, m.vf[i.d]))
      [] i.op = "clip"   -> [m EXCEPT !.clip = <<Judged(v, i), @[1], @[2]>>]
      [] i.op = "lq"     -> Kept(m, i.d, [f \in Axes |-> IF f \in Axis(i.f)
                                            THEN Loaded(v, i)[f] ELSE m.vf[i.d][f]])
      [] i.op = "sq"     -> Stored(m, v, i)
      [] i.op = "sqi"    -> [Stored(m, v, i) EXCEPT !.vi[i.a] = v.vi[i.a] + 1]
      [] i.op = "ilw"    -> [m EXCEPT !.vi[i.d] = Loaded(v, i).w]
      [] i.op \in Ialu   -> [m EXCEPT !.vi[i.d] = Integer(v, i)]
      [] i.d = "Q"       -> [m EXCEPT !.q = Quotient(v, i)]
      [] i.d = "P"       -> [m EXCEPT !.p = Elementary(v, i)]
      [] OTHER           -> m

Taken(v, i) == \/ i.op = "b"
               \/ i.op = "ibeq" /\ v.vi[i.a] = v.vi[i.b]
               \/ i.op = "ibne" /\ v.vi[i.a] # v.vi[i.b]

--------------------------------------------------------------------------------
(* The token list, run in order and without latencies until its branch falls  *)
(* through; the filler behind the branch runs with every turn.                *)

IsBranch(i) == i.op \in {"b", "ibeq", "ibne"}

Turned(m, loop) == FoldLeft(LAMBDA s, i : Effect(i, s, s), m, loop)

RECURSIVE Sequential(_, _)
Sequential(m, loop) ==
    LET at    == CHOOSE j \in DOMAIN loop : IsBranch(loop[j])
        above == Turned(m, SubSeq(loop, 1, at - 1))
        all   == Turned(above, SubSeq(loop, at + 1, Len(loop)))
    IN  IF Taken(above, loop[at]) THEN Sequential(all, loop) ELSE all

--------------------------------------------------------------------------------
(* The emitted rows, in time.  t.m has every effect already applied; what a   *)
(* reader sees at a cycle is t.m with what is not yet ready replaced by its   *)
(* old value.                                                                 *)

VfLatency      == 4
LoadLatency    == 3   \* an integer load, as measured; the table has 4
FlagLatency    == 4
TestLatency    == 2
QLatency(op)   == IF op = "div" \/ op = "sqrt" THEN 7 ELSE 13
PLatency(op)   == IF op = "esadd" THEN 11 ELSE 18

WritesVf(i) == i.op \in Fmac \cup Moves \cup {"lq"}
WritesVi(i) == IF i.op \in Ialu \cup {"ilw"} THEN {i.d}
               ELSE IF i.op = "sqi" THEN {i.a} ELSE {}

\* The register fields the hardware waits for.
Awaited(i) ==
    CASE i.op \in {"opmula", "opmsub"} -> {i.a, i.b} \X Axis("xyz")
      [] i.op \in {"move", "ftoi0", "ftoi4", "mulq", "addq", "minii"} -> {i.a} \X Axis(i.f)
      [] i.op = "mr32"  -> {i.a} \X {After[f] : f \in Axis(i.f)}
      [] i.op = "clip"  -> ({i.a} \X Axis("xyz")) \cup {<<i.b, "w">>}
      [] i.op \in Fmac  -> ({i.a} \X Axis(i.f))
                           \cup ({i.b} \X (IF i.c = "" THEN Axis(i.f) ELSE {i.c}))
      [] i.op \in {"sq", "sqi"} -> {i.b} \X Axis(i.f)
      [] i.op = "div"   -> {<<i.a, "w">>, <<i.b, i.c>>}
      [] i.d = "Q"      -> {<<i.b, i.c>>}
      [] i.op = "esadd" -> {i.a} \X Axis("xyz")
      [] i.d = "P"      -> {<<i.a, "w">>}
      [] OTHER          -> {}

\* The cycle a row starts in: its operands are there and its unit is free.
Start(t, u, l) ==
    Max({t.now} \cup {t.ready[x[1]][x[2]] : x \in Awaited(u) \cup Awaited(l)}
                \cup (IF l.d = "Q" \/ l.op = "waitq" THEN {t.q.at} ELSE {})
                \cup (IF l.d = "P" \/ l.op = "waitp" THEN {t.p.at} ELSE {}))

Latest(seen, at) == seen[Max({j \in DOMAIN seen : seen[j].at <= at})].v

\* What a row that starts at cycle at sees; a branch sees integers later.
View(t, at, late) ==
    [t.m EXCEPT !.q    = IF at < t.q.at THEN t.q.old ELSE @,
                !.p    = IF at < t.p.at THEN t.p.old ELSE @,
                !.mac  = Latest(t.mac, at),
                !.clip = Latest(t.clip, at),
                !.vi   = [r \in DOMAIN @ |->
                             IF at < (IF late THEN t.vi[r].test ELSE t.vi[r].at)
                             THEN t.vi[r].old ELSE @[r]]]

\* A value that replaces another in a list of values and the cycles they are
\* seen from: what no later row can see is dropped.
Noted(seen, v, at, now) ==
    Append(SelectSeq(seen, LAMBDA e : e.at >= Max({x \in {seen[j].at : j \in DOMAIN seen} :
                                                      x <= now})),
           [v |-> v, at |-> at])

\* The delays instruction i starts at cycle at, m being the state it left.
Delayed(t, i, m, at) ==
    [t EXCEPT
        !.ready = IF WritesVf(i) THEN [@ EXCEPT ![i.d] = [f \in Axes |->
                      IF f \in Axis(i.f) /\ i.d \notin {"ACC", "VF00"}
                      THEN at + VfLatency ELSE @[f]]] ELSE @,
        !.vi = [r \in DOMAIN @ |->
                   IF r \notin WritesVi(i) THEN @[r]
                   ELSE [old  |-> View(t, at, FALSE).vi[r],
                         at   |-> at + (IF i.op = "ilw" THEN LoadLatency ELSE 1),
                         test |-> at + (IF i.op = "ilw" THEN LoadLatency ELSE t.tests)]],
        !.q = IF i.d = "Q" THEN [old |-> t.m.q, at |-> at + QLatency(i.op)] ELSE @,
        !.p = IF i.d = "P" THEN [old |-> t.m.p, at |-> at + PLatency(i.op)] ELSE @,
        !.mac  = IF i.op \in Fmac THEN Noted(@, m.mac, at + FlagLatency, at) ELSE @,
        !.clip = IF i.op = "clip" THEN Noted(@, m.clip, at + FlagLatency, at) ELSE @]

\* A row of upper u and lower l: both read the state before the row, and the
\* upper one's result stands when both write one register.
Row(t, u, l) ==
    LET at == Start(t, u, l)
        v  == View(t, at, FALSE)
        m1 == IF WritesVf(u) /\ WritesVf(l) /\ u.d = l.d THEN t.m ELSE Effect(l, v, t.m)
        m2 == Effect(u, v, m1)
    IN  [Delayed(Delayed(t, l, m1, at), u, m2, at) EXCEPT !.m = m2, !.now = at + 1]

TakenRow(t, u, l) == Taken(View(t, Start(t, u, l), TRUE), l)

--------------------------------------------------------------------------------
(* The machine before the loop: every register holds a value of its own,      *)
(* except those the caller gives.                                             *)

VFs == <<"VF01", "VF02", "VF03", "VF04", "VF05", "VF06", "VF07", "VF08", "VF09",
         "VF10", "VF11", "VF12", "VF13", "VF14", "VF15", "VF16", "VF17", "VF18",
         "VF19", "VF20", "VF21", "VF22", "VF23", "VF24", "VF25", "VF26", "VF27",
         "VF28", "VF29", "VF30", "VF31", "ACC", "VF00">>
VIs == <<"VI01", "VI02", "VI03", "VI04", "VI05", "VI06", "VI07", "VI08", "VI09",
         "VI10", "VI11", "VI12", "VI13", "VI14", "VI15", "VI00">>

Number(s, r) == CHOOSE j \in DOMAIN s : s[j] = r

Fresh(vf, vi) ==
    [vf   |-> [r \in ToSet(VFs) |->
                  IF r \in DOMAIN vf THEN vf[r]
                  ELSE IF r = "VF00" THEN Vector(0, 0, 0, 1)
                  ELSE Untouched(4000 + Number(VFs, r))],
     vi   |-> [r \in ToSet(VIs) |->
                  IF r \in DOMAIN vi THEN vi[r]
                  ELSE IF r = "VI00" THEN 0 ELSE 100 + Number(VIs, r)],
     q    |-> Ordered(22, 1, 0),
     p    |-> Ordered(22, 2, 0),
     i    |-> Ordered(22, 3, 0),
     mac  |-> Ordered(22, 4, 0),
     clip |-> <<Ordered(22, 5, 0), Ordered(22, 6, 0), Ordered(22, 7, 0)>>,
     mem  |-> <<>>]

\* The loop is entered with nothing pending; tests is the cycles until a branch
\* sees what integer arithmetic wrote.
Settled(m, tests) ==
    [m     |-> m,
     tests |-> tests,
     now   |-> 0,
     ready |-> [r \in DOMAIN m.vf |-> [f \in Axes |-> 0]],
     vi    |-> [r \in DOMAIN m.vi |-> [old |-> 0, at |-> 0, test |-> 0]],
     q     |-> [old |-> 0, at |-> 0],
     p     |-> [old |-> 0, at |-> 0],
     mac   |-> <<[v |-> m.mac, at |-> 0]>>,
     clip  |-> <<[v |-> m.clip, at |-> 0]>>]
================================================================================
