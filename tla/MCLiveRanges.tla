----------------------------- MODULE MCLiveRanges -----------------------------
(* Instances of VuLiveRanges: loops and branches over a few tokens.  The      *)
(* integer n is an input and what the branches test; m is an integer, f and g *)
(* are vectors.                                                               *)
EXTENDS VuLiveRanges

ReadOf(n)  == [name |-> n, fields |-> Field, write |-> FALSE]
WriteOf(n) == [name |-> n, fields |-> Field, write |-> TRUE]
OfX(a)     == [a EXCEPT !.fields = {"x"}]

Make(args, kind, to) == [args |-> args, branch |-> kind, target |-> to]

Set(n)    == Make(<<WriteOf(n)>>, "NONE", 0)
SetX(n)   == Make(<<OfX(WriteOf(n))>>, "NONE", 0)
Use(n)    == Make(<<ReadOf(n)>>, "NONE", 0)
UseX(n)   == Make(<<OfX(ReadOf(n))>>, "NONE", 0)
Put(n, m) == Make(<<WriteOf(n), ReadOf(m)>>, "NONE", 0)
Label     == Make(<<>>, "NONE", 0)
To(i)     == Make(<<ReadOf("n")>>, "CONDITIONAL", i)
JumpTo(i) == Make(<<>>, "JUMP", i)

Lists(kinds, n) == UNION {[1 .. k -> kinds] : k \in 0 .. n}

IntegerOps == {Set("m"), Use("m"), Put("n", "n"), Put("m", "n"), Put("m", "m"), Put("n", "m")}
FloatOps   == {Set("f"), SetX("f"), Use("f"), UseX("f"), Put("f", "f"),
               Put("f", "g"), Put("g", "f"), SetX("g"), Use("g")}

IntegerUses == {<<Use("m")>>, <<Use("n")>>}
FloatUses   == {<<Use("f")>>, <<Use("g")>>}

WithInput(tokens, loopLiveness) ==
  [tokens |-> tokens, inputs |-> <<"n">>, loopLiveness |-> loopLiveness]

(* A loop that tests at its bottom. *)
Loop(pre, body, post) ==
  pre \o <<Label>> \o body \o <<To(Len(pre) + 1)>> \o post

(* A branch over an arm. *)
Skip(pre, arm, post) ==
  pre \o <<To(Len(pre \o arm) + 2)>> \o arm \o <<Label>> \o post

(* A loop around a branch over an arm. *)
SkipLoop(pre, above, arm, below, post) ==
  LET top == pre \o <<Label>> \o above
  IN top \o <<To(Len(top \o arm) + 2)>> \o arm \o <<Label>> \o below \o <<To(Len(pre) + 1)>> \o post

(* A loop in a loop. *)
NestedLoop(pre, above, body, below, post) ==
  LET top == pre \o <<Label>> \o above
  IN top \o <<Label>> \o body \o <<To(Len(top) + 1)>> \o below \o <<To(Len(pre) + 1)>> \o post

(* Two loops neither of which holds the other. *)
OverlappingLoops(pre, first, both, second, post) ==
  LET middle == pre \o <<Label>> \o first
      bottom == middle \o <<Label>> \o both \o <<To(Len(pre) + 1)>>
  IN bottom \o second \o <<To(Len(middle) + 1)>> \o post

(* A loop that tests at its top and jumps back. *)
TopLoop(pre, body, post) ==
  pre \o <<Label, To(Len(pre \o body) + 4)>> \o body \o <<JumpTo(Len(pre) + 1), Label>> \o post

(* A loop without an end. *)
Endless(pre, body) == pre \o <<Label>> \o body \o <<JumpTo(Len(pre) + 1)>>

(* One of two arms. *)
Choice(pre, one, other, post) ==
  LET top == pre \o <<To(Len(pre \o one) + 3)>> \o one
  IN top \o <<JumpTo(Len(top \o other) + 3), Label>> \o other \o <<Label>> \o post

IntegerPrograms ==
  {WithInput(Loop(pre, body, post), TRUE)
     : pre \in {<<Set("m")>>, <<Put("m", "n")>>}, body \in Lists(IntegerOps, 3),
       post \in IntegerUses}
  \cup
  {WithInput(Loop(<<Put("m", "n")>>, body, post), FALSE)
     : body \in Lists(IntegerOps, 2), post \in IntegerUses}
  \cup
  {WithInput(SkipLoop(<<Set("m")>>, above, <<arm>>, below, post), liveness)
     : above \in Lists(IntegerOps, 1), arm \in IntegerOps, below \in Lists(IntegerOps, 1),
       post \in IntegerUses, liveness \in BOOLEAN}
  \cup
  {WithInput(NestedLoop(<<Set("m")>>, above, <<op>>, below, post), TRUE)
     : above \in Lists(IntegerOps, 1), op \in IntegerOps, below \in Lists(IntegerOps, 1),
       post \in IntegerUses}

(* Loops around an arm that redefines f leave its old value to the other way. *)
FloatPrograms ==
  {WithInput(Loop(<<Set("f"), Put("g", "f")>>, body, post), liveness)
     : body \in Lists(FloatOps, 2), post \in FloatUses, liveness \in BOOLEAN}
  \cup
  {WithInput(Skip(<<SetX("f"), Set("g")>>, <<arm>>, post), TRUE)
     : arm \in FloatOps, post \in Lists(FloatOps, 2)}
  \cup
  {WithInput(Choice(<<Set("f"), Set("g")>>, <<one>>, <<other>>, post), TRUE)
     : one \in FloatOps, other \in FloatOps, post \in FloatUses}
  \cup
  {WithInput(SkipLoop(<<Set("f"), Set("g")>>, above, <<arm>>, below, post), TRUE)
     : above \in Lists(FloatOps, 1), arm \in FloatOps \ {Set("f"), Put("f", "g")},
       below \in Lists(FloatOps, 1), post \in FloatUses}
  \cup
  {WithInput(TopLoop(<<Set("f"), Set("g")>>, <<Use("g")>> \o body, <<Use("g")>>), TRUE)
     : body \in Lists(FloatOps \ {SetX("g"), Put("g", "f")}, 2)}

OverlapOps == {Set("m"), Use("m"), Put("m", "m")}

OverlappingPrograms ==
  {WithInput(OverlappingLoops(<<Set("m")>>, <<first>>, <<both>>, <<second>>, <<Use("m")>>), TRUE)
     : first \in OverlapOps, both \in OverlapOps, second \in OverlapOps}

EndlessPrograms ==
  {WithInput(Endless(<<Set("m")>>, body), TRUE) : body \in Lists(IntegerOps, 2)}

SafePrograms == EndlessPrograms \cup OverlappingPrograms \cup IntegerPrograms \cup FloatPrograms

(* What the theorem on chains asks of the programs, these fulfil. *)
ASSUME SafeAssumption == ShortChains
================================================================================
