---------------------------- MODULE VuLoopPatterns ----------------------------
(* How a known-loop emitter recognises its loop: the clauses of its collector *)
(* in the order the code tries them on each token.  A clause has the form of  *)
(* the instruction it looks for, with roles for the registers it binds.       *)
EXTENDS VuLoopMachine

\* have:   the flag the clause raises, "" for none;
\* like:   the instruction, "any" standing for any broadcast, fields or operand,
\*         a name in imm for any number;
\* given:  the roles that must be bound already, to these very registers;
\* same:   the roles that must be unbound or bound to these registers;
\* beside: a role bound to another register than the base, "" for none;
\* need:   the flags that must be up;
\* first:  whether its own flag must still be down;
\* must:   the roles that, if bound, must agree, or the loop is refused;
\* form:   the name under which the instruction itself is kept, if it is;
\* sets:   the role that is bound to the destination, whatever it was;
\* marks:  the name that becomes 1.
Clause(have, like, given) ==
    [have |-> have, like |-> like, given |-> given, same |-> {}, beside |-> "",
     need |-> {}, first |-> FALSE, must |-> {}, form |-> "", sets |-> "", marks |-> ""]
Needing(c, flags)  == [c EXCEPT !.need = flags]
First(c)           == [c EXCEPT !.first = TRUE]
Same(c, roles)     == [c EXCEPT !.same = roles]
Beside(c, role)    == [c EXCEPT !.beside = role]
Must(c, roles)     == [c EXCEPT !.must = roles]
Form(c, name)      == [c EXCEPT !.form = name]
Sets(c, role)      == [c EXCEPT !.sets = role]
Marks(c, name)     == [c EXCEPT !.marks = name]

\* A token the collector knows and takes nothing from.
Passed(like, given) == Clause("", like, given)

Registers == ToSet(VFs) \cup ToSet(VIs) \cup {"Q", "P", ""}
Places    == {"d", "a", "b"}
Roles(c)  == {c.like[x] : x \in Places} \ (Registers \cup {"any"})

\* The instruction and the register a clause's names stand for.
Fits(c, i, env, got) ==
    LET p == c.like IN
    /\ i.op = p.op
    /\ p.c = "any" \/ i.c = p.c
    /\ p.f = "any" \/ i.f = p.f
    /\ p.imm # "" \/ i.k = p.k
    /\ c.need \subseteq got
    /\ c.first => c.have \notin got
    /\ c.beside = "" \/ i.a # env[c.beside]
    /\ \A x \in Places :
          /\ p[x] \in Registers => i[x] = p[x]
          /\ p[x] \in c.given => p[x] \in DOMAIN env /\ i[x] = env[p[x]]
          /\ p[x] \in c.same /\ p[x] \in DOMAIN env => i[x] = env[p[x]]
    /\ i.op = "iaddiu" => ((i.d = i.a) <=> (p.d = p.a))

\* A clause that fits and whose operand is not the one bound before.
Refuses(c, i, env) ==
    \E x \in Places : /\ c.like[x] \in c.must
                      /\ c.like[x] \in DOMAIN env
                      /\ i[x] # env[c.like[x]]

Bound(c, i, env) ==
    LET p     == c.like
        of(r) == i[CHOOSE x \in Places : p[x] = r]
    IN  (IF c.form = "" THEN <<>> ELSE c.form :> [op |-> i.op, c |-> i.c, f |-> i.f])
        @@ (IF p.imm = "" THEN <<>> ELSE p.imm :> i.k)
        @@ (IF c.sets = "" THEN <<>> ELSE c.sets :> i.d)
        @@ (IF c.marks = "" THEN <<>> ELSE c.marks :> 1)
        @@ [r \in Roles(c) \ c.must |-> of(r)] @@ env

\* One token: the first clause that fits it binds its roles.  Without one, the
\* token is passed over, or the loop refused if the emitter is strict about it.
Seen(shape, s, i) ==
    LET fit == {j \in DOMAIN shape.clauses : Fits(shape.clauses[j], i, s.env, s.got)}
        c   == shape.clauses[Min(fit)]
    IN  IF s.refused THEN s
        ELSE IF fit = {}
             THEN [s EXCEPT !.refused = i.op \in shape.strict
                                        /\ ~(i.op \in shape.xyzOnly /\ i.f # "xyz")]
        ELSE IF Refuses(c, i, s.env) THEN [s EXCEPT !.refused = TRUE]
        ELSE [s EXCEPT !.env = Bound(c, i, @), !.got = @ \cup {c.have}]

\* The branch's registers are bound first, or where the branch stands.
Compared(env, branch) == [input |-> branch.a, lastInput |-> branch.b] @@ env

\* Mutant: the filler behind the branch is not looked at.
CollectedAbove(shape, tokens) ==
    LET at    == CHOOSE j \in DOMAIN tokens : IsBranch(tokens[j])
        first == [env     |-> IF shape.inOrder THEN shape.unless
                              ELSE Compared(shape.unless, tokens[at]),
                  got     |-> {},
                  refused |-> FALSE]
    IN  FoldLeft(LAMBDA s, i : IF IsBranch(i) THEN [s EXCEPT !.env = Compared(@, i)]
                               ELSE Seen(shape, s, i),
                 first, SubSeq(tokens, 1, at))

\* The tokens up to the branch and the filler behind it.
Collected(shape, tokens) ==
    LET branch == tokens[CHOOSE j \in DOMAIN tokens : IsBranch(tokens[j])]
        first  == [env     |-> IF shape.inOrder THEN shape.unless
                               ELSE Compared(shape.unless, branch),
                   got     |-> {},
                   refused |-> FALSE]
    IN  FoldLeft(LAMBDA s, i : IF IsBranch(i) THEN [s EXCEPT !.env = Compared(@, i)]
                               ELSE Seen(shape, s, i),
                 first, tokens)

\* Everything was found and the numbers are those the rows are written for.
Accepts(shape, s) ==
    /\ ~s.refused
    /\ \A j \in DOMAIN shape.clauses :
          shape.clauses[j].have \in s.got \cup shape.optional \cup {""}
    /\ \E e \in shape.exact : \A x \in DOMAIN e : x \in DOMAIN s.env /\ s.env[x] = e[x]

\* What an emitter is unless it says otherwise: every token no clause fits is
\* passed over, every clause must fit one, its rows depend on nothing.
Shape == [program |-> "", strict |-> {}, xyzOnly |-> {}, inOrder |-> FALSE, unless |-> <<>>,
          optional |-> {}, options |-> <<>>, instead |-> <<>>]

--------------------------------------------------------------------------------
(* What an emitter writes: sections of rows under labels.                     *)

Idle     == <<Nop, Nop>>
Upper(i) == <<i, Nop>>
Lower(i) == <<Nop, i>>

Rows(listing) == FlattenSeq([j \in DOMAIN listing |-> listing[j][2]])

\* The row behind a label; the exit is behind the last row.
RowOf(listing, label) ==
    LET js == {j \in DOMAIN listing : listing[j][1] = label}
    IN  1 + Len(Rows(IF js = {} THEN listing ELSE SubSeq(listing, 1, Max(js) - 1)))

\* Scratch registers: the names get, in turn, the registers of the pool that no
\* reserved role holds.
Scratch(names, pool, reserved) ==
    << [names |-> names, pool |-> pool, reserved |-> reserved] >>

FromTop == [j \in 1 .. 31 |-> VFs[32 - j]]

Key(shape, env) == [j \in DOMAIN shape.options |-> env[shape.options[j]]]

\* instead names a role, another one and the role that takes its place when
\* both are held in one register.
Replaced(shape, env) ==
    IF shape.instead = <<>> \/ env[shape.instead[1]] # env[shape.instead[2]] THEN env
    ELSE [env EXCEPT ![shape.instead[1]] = env[shape.instead[3]]]

Reserved(from, env) ==
    LET held == {env[r] : r \in from.reserved \cap DOMAIN env}
        free == SelectSeq(from.pool, LAMBDA r : r \notin held)
    IN  [x \in ToSet(from.names) |-> free[Number(from.names, x)]]

Scratched(shape, env) ==
    FoldLeft(LAMBDA given, from : Reserved(from, env) @@ given, Replaced(shape, env),
             shape.scratch[Key(shape, env)])

\* An emitter that does not depend on what it found has one listing.
Always(listing) == <<>> :> listing
================================================================================
