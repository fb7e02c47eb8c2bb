----------------------------- MODULE VuLiveRanges -----------------------------
(***************************************************************************)
(* The register allocator (RegisterAllocator::process).  Walkers follow    *)
(* every branch of the source both ways and give each occurrence of a name *)
(* an alias, a value that lives in one register; occurrences that may mean *)
(* the same value have their aliases merged.  An alias lives on a set of   *)
(* lines; aliases that share a line get different registers, and the       *)
(* write of an integer is chained to the alias it replaces.                *)
(*                                                                         *)
(* The allocated program is then run along any path: a register that is    *)
(* read must hold the value its name has in the source.                    *)
(***************************************************************************)
EXTENDS Integers, Sequences, FiniteSets, FiniteSetsExt, SequencesExt, Folds

CONSTANTS
  Name,          \* the names of values
  IntegerName,   \* those of VI registers; a VF register has fields
  Field,
  Registers,     \* registers available of each kind
  Programs,      \* token lists
  Threshold,     \* --bthres
  Hops           \* how far up its chain a write looks for itself, 16

Argument == [name : Name, fields : SUBSET Field, write : BOOLEAN]
Token == [args : Seq(Argument), branch : {"NONE", "CONDITIONAL", "JUMP"}, target : Nat]

ASSUME KindAssumption == IntegerName \subseteq Name
ASSUME RegisterAssumption == Registers \in Nat
ASSUME ThresholdAssumption == Threshold \in Nat
ASSUME HopsAssumption == Hops \in Nat
ASSUME ProgramAssumption ==
  \A p \in Programs :
    /\ p.tokens \in Seq(Token)
    /\ p.inputs \in Seq(Name)
    /\ p.loopLiveness \in BOOLEAN
    /\ \A i \in DOMAIN p.tokens :
         p.tokens[i].branch # "NONE" => p.tokens[i].target \in DOMAIN p.tokens
    /\ \A kind \in {IntegerName, Name \ IntegerName} :
         Cardinality({k \in DOMAIN p.inputs : p.inputs[k] \in kind}) <= Registers

VARIABLES
  program,  \* [tokens, inputs, loopLiveness]: the k-th input of a kind arrives in register
            \* k; --loop-liveness-always, or a --LoopCS on each of its loops
  walkers,  \* m_states, the first of them walking
  heap,     \* the aliases, the alias of each occurrence, and the next identity
  visits,   \* m_dynamicTracker
  pass,     \* the pass, "run" behind the last, "failed" for an error
  cursor,   \* the token or alias the pass has come to
  pc,       \* the token the allocated program runs
  held      \* the name whose value each field of each register holds

vars == <<program, walkers, heap, visits, pass, cursor, pc, held>>

Code   == program.tokens
Line   == 1 .. Len(Code) + 1
Place  == UNION {{i} \X DOMAIN Code[i].args : i \in DOMAIN Code}
Arg(a) == Code[a[1]].args[a[2]]

NoPlace == <<0, 0>>

Alias == [integer : BOOLEAN, lines : SUBSET Line, pred : Nat, reg : 0 .. Registers]

NameState ==
  [ fields  : SUBSET Field,   \* written so far, {} for a name not met
    dep     : Place \cup {NoPlace},
    input   : 0 .. Registers,
    crossed : SUBSET Line,    \* the lines its traces lead over
    entry   : Nat ]           \* where the last trace begins, 0 without traces

InputRegister(n) ==
  IF \E k \in DOMAIN program.inputs : program.inputs[k] = n
  THEN Cardinality({k \in DOMAIN program.inputs :
                      /\ k <= SelectInSeq(program.inputs, LAMBDA m : m = n)
                      /\ (program.inputs[k] \in IntegerName) = (n \in IntegerName)})
  ELSE 0

MovedTo(walker, i) ==
  [walker EXCEPT !.at = i, !.arg = IF i <= Len(Code) THEN Len(Code[i].args) ELSE 0]

FirstWalker ==
  MovedTo([ at |-> 1, arg |-> 0, branches |-> {},
            names |-> [n \in Name |->
              [ fields  |-> IF InputRegister(n) # 0 THEN Field ELSE {},
                dep     |-> NoPlace,
                input   |-> InputRegister(n),
                crossed |-> {},
                entry   |-> IF InputRegister(n) # 0 THEN 1 ELSE 0 ]]], 1)

Register == {"VF", "VI"} \X (1 .. Registers)

KindOf(n) == IF n \in IntegerName THEN "VI" ELSE "VF"

Nothing == "nothing"

Init ==
  /\ program \in Programs
  /\ walkers = <<FirstWalker>>
  /\ heap = [aliases |-> <<>>, of |-> [a \in Place |-> 0], next |-> 1]
  /\ visits = [i \in DOMAIN Code |-> 0]
  /\ pass = "walk"
  /\ cursor = 1
  /\ pc = 1
  /\ held = [r \in Register |-> [f \in Field |->
               IF \E n \in Name : InputRegister(n) = r[2] /\ KindOf(n) = r[1]
               THEN CHOOSE n \in Name : InputRegister(n) = r[2] /\ KindOf(n) = r[1]
               ELSE Nothing]]

-----------------------------------------------------------------------------
(* Chains: a write should get the register of the alias before it *)

Pred(aliases, id) == IF id = 0 THEN 0 ELSE aliases[id].pred

(* The alias and those that at most so many hops lead to. *)
Climb(aliases, id, hops) ==
  LET ancestor[n \in 0 .. hops] == IF n = 0 THEN id ELSE Pred(aliases, ancestor[n - 1])
  IN {ancestor[n] : n \in 0 .. hops} \ {0}

(* The alias and those before it on its chain. *)
Ancestors(aliases, id) == Climb(aliases, id, Cardinality(DOMAIN aliases))

Root(aliases, id) ==
  CHOOSE r \in Ancestors(aliases, id) : aliases[r].pred = 0

OnRing(aliases, id) == \A a \in Ancestors(aliases, id) : aliases[a].pred # 0

(* Mutant: an edge may close a ring. *)
ChainedAnyway(aliases, id, pred) ==
  IF pred = 0 \/ id = pred \/ aliases[id].integer # aliases[pred].integer
  THEN aliases
  ELSE [aliases EXCEPT ![id].pred = pred]

(* trySetSameNamePredecessor *)
Chained(aliases, id, pred) ==
  IF \/ pred = 0
     \/ aliases[id].integer # aliases[pred].integer
     \/ id \in Ancestors(aliases, pred)
     \/ OnRing(aliases, pred)
  THEN aliases
  ELSE [aliases EXCEPT ![id].pred = pred]

(* Mutant: the absorbed alias stays in the chains. *)
ReleasedDangling(aliases, old, new) == [id \in DOMAIN aliases \ {old} |-> aliases[id]]

(* An alias that followed the absorbed one follows the one that absorbs it, or *)
(* what the absorbed one followed.                                            *)
Renamed(aliases, id, old, new) ==
  LET renamed == Chained(aliases, id, new)
  IN IF renamed # aliases THEN renamed ELSE Chained(aliases, id, aliases[old].pred)

Inherited(aliases, old, new) ==
  IF aliases[new].pred = 0 THEN Chained(aliases, new, aliases[old].pred) ELSE aliases

Followers(aliases, old) == {id \in DOMAIN aliases \ {old} : aliases[id].pred = old}

(* In the order of their identities. *)
AllRenamed(aliases, old, new) ==
  MapThenFoldSet(LAMBDA id, as : Renamed(as, id, old, new), aliases,
                 LAMBDA id : id, LAMBDA ids : Max(ids), Followers(aliases, old))

(* releaseAlias: the chain of an absorbed alias goes to the one that absorbs it. *)
Released(aliases, old, new) ==
  LET all == AllRenamed(Inherited(aliases, old, new), old, new)
  IN [id \in DOMAIN aliases \ {old} |->
        [all[id] EXCEPT !.pred = IF @ = old THEN 0 ELSE @]]

(* Mutant: the lines of the absorbed alias are lost. *)
MergedBare(h, new, old) ==
  IF old = new THEN h
  ELSE LET absorbed == [h.aliases EXCEPT
             ![new].reg = IF h.aliases[old].reg # 0 THEN h.aliases[old].reg ELSE @]
       IN [ aliases |-> Released(absorbed, old, new),
            of      |-> [a \in DOMAIN h.of |-> IF h.of[a] = old THEN new ELSE h.of[a]],
            next    |-> h.next ]

(* Dependency::depend: the occurrences of one value share one alias. *)
Merged(h, new, old) ==
  IF old = new THEN h
  ELSE LET absorbed == [h.aliases EXCEPT
             ![new].lines = @ \cup h.aliases[old].lines,
             ![new].reg   = IF h.aliases[old].reg # 0 THEN h.aliases[old].reg ELSE @]
       IN [ aliases |-> Released(absorbed, old, new),
            of      |-> [a \in DOMAIN h.of |-> IF h.of[a] = old THEN new ELSE h.of[a]],
            next    |-> h.next ]

-----------------------------------------------------------------------------
(* The walk *)

Walking == pass = "walk" /\ walkers # <<>>
Walker  == walkers[1]
Here    == <<Walker.at, Walker.arg>>
State(n) == Walker.names[n]

(* The alias of an occurrence: its own, that of the value it depends on, or a new one. *)
WithAlias(h, a, st, depend) ==
  IF h.of[a] # 0 THEN h
  ELSE IF depend /\ st.dep # NoPlace THEN [h EXCEPT !.of[a] = h.of[st.dep]]
  ELSE [ aliases |-> [id \in DOMAIN h.aliases \cup {h.next} |->
                        IF id = h.next
                        THEN [integer |-> Arg(a).name \in IntegerName, lines |-> {}, pred |-> 0, reg |-> 0]
                        ELSE h.aliases[id]],
         of      |-> [h.of EXCEPT ![a] = h.next],
         next    |-> h.next + 1 ]

(* From where the value was last met to here, along the branches taken since. *)
LinesToHere(st, i) ==
  IF st.entry # 0 THEN st.crossed \cup (st.entry .. i)
  ELSE IF st.dep # NoPlace THEN st.dep[1] .. i
  ELSE {i}

(* updateDependency, of the aliases: the alias of a lives up to here ... *)
Lived(h, a, st, depend) ==
  LET given == WithAlias(h, a, st, depend)
      id    == given.of[a]
      lines == IF depend THEN LinesToHere(st, a[1]) ELSE {a[1]}
      alias == [given.aliases[id] EXCEPT
                  !.reg = IF depend /\ st.input # 0 THEN st.input ELSE @, !.lines = @ \cup lines]
  IN [given EXCEPT !.aliases[id] = alias]

(* ... and is the one of the value it depends on. *)
Joined(h, a, st, depend) ==
  IF depend /\ st.dep # NoPlace THEN Merged(h, h.of[a], h.of[st.dep]) ELSE h

(* updateDependency, of the name. *)
MetAt(st, a) == [st EXCEPT !.dep = a, !.input = 0, !.crossed = {}, !.entry = 0]

(* The walker behind the occurrence of a name, of which it knows st. *)
Past(n, st) ==
  LET walker == [Walker EXCEPT !.arg = @ - 1, !.names[n] = st]
  IN [walkers EXCEPT ![1] = walker]

ReadArgument ==
  /\ Walking /\ Walker.arg > 0 /\ ~Arg(Here).write
  /\ LET n  == Arg(Here).name
         st == State(n)
     IN IF ~(Arg(Here).fields \subseteq st.fields)
        THEN pass' = "failed" /\ UNCHANGED <<walkers, heap>>
        ELSE /\ \E lived \in {Lived(heap, Here, st, TRUE)} : heap' = Joined(lived, Here, st, TRUE)
             /\ walkers' = Past(n, MetAt(st, Here))
             /\ UNCHANGED pass
  /\ UNCHANGED <<program, visits, cursor, pc, held>>

WriteFloat ==
  /\ Walking /\ Walker.arg > 0 /\ Arg(Here).write /\ Arg(Here).name \notin IntegerName
  /\ LET n      == Arg(Here).name
         st     == State(n)
         depend == ~(st.fields \subseteq Arg(Here).fields)
     IN /\ \E lived \in {Lived(heap, Here, st, depend)} : heap' = Joined(lived, Here, st, depend)
        /\ walkers' = Past(n, [MetAt(st, Here) EXCEPT !.fields = st.fields \cup Arg(Here).fields])
  /\ UNCHANGED <<program, visits, pass, cursor, pc, held>>

(* The new alias follows the one the name had, unless that is seen to close a ring. *)
WriteInteger ==
  /\ Walking /\ Walker.arg > 0 /\ Arg(Here).write /\ Arg(Here).name \in IntegerName
  /\ LET n       == Arg(Here).name
         st      == State(n)
         updated == Lived(heap, Here, st, FALSE)
         id      == updated.of[Here]
         before  == IF st.dep = NoPlace THEN 0 ELSE heap.of[st.dep]
         follows == /\ before \notin {0, id}
                    /\ updated.aliases[id].pred = 0
                    /\ id \notin Climb(updated.aliases, before, Hops - 1)
     IN /\ heap' = IF follows THEN [updated EXCEPT !.aliases[id].pred = before] ELSE updated
        /\ walkers' = Past(n, [MetAt(st, Here) EXCEPT !.fields = Field])
  /\ UNCHANGED <<program, visits, pass, cursor, pc, held>>

AtBranch(kind) == Walking /\ Walker.arg = 0 /\ Walker.at <= Len(Code) /\ Code[Walker.at].branch = kind

StepOn ==
  /\ AtBranch("NONE")
  /\ walkers' = [walkers EXCEPT ![1] = MovedTo(@, @.at + 1)]
  /\ UNCHANGED <<program, heap, visits, pass, cursor, pc, held>>

Target   == Code[Walker.at].target
Backward == Target <= Walker.at

(* Mutant: the walk does not remember its branches. *)
TakenNever == FALSE

Taken == <<Walker.at, Target>> \in Walker.branches

LivingOn(aliases, ids, lines) ==
  [id \in DOMAIN aliases |->
     IF id \in ids THEN [aliases[id] EXCEPT !.lines = @ \cup lines] ELSE aliases[id]]

(* extendLiveRanges: what was met in front of the loop and lives in it lives on all of it. *)
LoopExtended ==
  LET loop == Target .. Walker.at + 1
      met  == {heap.of[State(n).dep] : n \in {m \in Name : State(m).dep # NoPlace}}
      in   == {id \in met : /\ \E l \in heap.aliases[id].lines : l < Target
                            /\ heap.aliases[id].lines \cap loop # {}}
  IN [heap EXCEPT !.aliases = LivingOn(@, in, loop)]

(* pushTraces, in front of the row behind the branch and at its target. *)
Traced(st) ==
  IF st.fields = {} THEN st
  ELSE [st EXCEPT !.crossed = @ \cup ((IF st.entry = 0 THEN st.dep[1] ELSE st.entry) .. Walker.at + 1),
                  !.entry   = Target]

(* The walker at the target of its branch. *)
Turned(walker) ==
  MovedTo([walker EXCEPT !.names = [n \in Name |-> Traced(@[n])]], Target)

StoreBranch(walker) == [walker EXCEPT !.branches = @ \cup {<<walker.at, Target>>}]

(* updateDynamicTracker *)
VisitedTooOften(i) == visits[i] > Threshold

(* A branch the walker has taken before, or any has met too often, ends the walk. *)
StopAtConditional ==
  /\ AtBranch("CONDITIONAL")
  /\ Taken \/ VisitedTooOften(Walker.at)
  /\ heap' = IF Backward THEN LoopExtended ELSE heap
  /\ walkers' = Tail(walkers)
  /\ UNCHANGED <<program, visits, pass, cursor, pc, held>>

(* Another walker goes to the target, this one goes on. *)
Fork ==
  /\ AtBranch("CONDITIONAL")
  /\ ~Taken /\ ~VisitedTooOften(Walker.at)
  /\ heap' = IF Backward THEN LoopExtended ELSE heap
  /\ visits' = [visits EXCEPT ![Walker.at] = @ + 1]
  /\ LET stored == StoreBranch(Walker)
     IN walkers' = Append([walkers EXCEPT ![1] = MovedTo(stored, stored.at + 1)], Turned(stored))
  /\ UNCHANGED <<program, pass, cursor, pc, held>>

StopAtJump ==
  /\ AtBranch("JUMP")
  /\ Taken
  /\ heap' = IF Backward THEN LoopExtended ELSE heap
  /\ walkers' = Tail(walkers)
  /\ UNCHANGED <<program, visits, pass, cursor, pc, held>>

Jump ==
  /\ AtBranch("JUMP")
  /\ ~Taken
  /\ walkers' = [walkers EXCEPT ![1] = Turned(StoreBranch(@))]
  /\ UNCHANGED <<program, heap, visits, pass, cursor, pc, held>>

(* The --exit behind the last token. *)
Exit ==
  /\ Walking /\ Walker.at > Len(Code)
  /\ walkers' = Tail(walkers)
  /\ UNCHANGED <<program, heap, visits, pass, cursor, pc, held>>

EndWalk ==
  /\ pass = "walk" /\ walkers = <<>>
  /\ pass' = "loops"
  /\ UNCHANGED <<program, walkers, heap, visits, cursor, pc, held>>

-----------------------------------------------------------------------------
(* Loops: what the next turn reads lives on the whole body *)

PlacesAt(i) == {<<i, k>> : k \in DOMAIN Code[i].args}

Occurrences(i, h) == {a \in PlacesAt(i) : h.of[a] # 0}

Read(i, h)    == {h.of[a] : a \in {b \in Occurrences(i, h) : ~Arg(b).write}}
Touched(i, h) == {h.of[a] : a \in Occurrences(i, h)}

(* The aliases the body reads first. *)
LiveIn(body, h) ==
  UNION {Read(i, h) \ UNION {Touched(j, h) : j \in {k \in body : k < i}} : i \in body}

WrittenFields(n, lines) ==
  UNION {UNION {Arg(a).fields : a \in {b \in PlacesAt(i) : Arg(b).write /\ Arg(b).name = n}} : i \in lines}

(* And those of which a field is read before the body writes it. *)
Carried(body, h) ==
  LiveIn(body, h) \cup
  UNION {{h.of[a] : a \in {b \in Occurrences(i, h) :
            /\ ~Arg(b).write
            /\ ~(Arg(b).fields \subseteq WrittenFields(Arg(b).name, {j \in body : j < i}))}} : i \in body}

(* The order of the source. *)
Above(a, b) == a[1] < b[1] \/ (a[1] = b[1] /\ a[2] < b[2])

FirstOf(places) == CHOOSE a \in places : \A b \in places : ~Above(b, a)
LastOf(places)  == CHOOSE a \in places : \A b \in places : ~Above(a, b)

(* Of each name among the places the alias it has first. *)
Holders(h, places) ==
  [n \in {Arg(a).name : a \in places} |-> h.of[FirstOf({a \in places : Arg(a).name = n})]]

(* The writes of names to an alias that does not hold them. *)
Loose(h, places, holders) ==
  {a \in places : /\ Arg(a).write
                  /\ Arg(a).name \in DOMAIN holders
                  /\ h.of[a] # holders[Arg(a).name]}

(* Such a write follows the alias that does, if it follows none yet. *)
Tie(aliases, id, holder) ==
  IF aliases[id].pred # 0 THEN aliases ELSE Chained(aliases, id, holder)

AllTied(h, holders, writes) ==
  MapThenFoldSet(LAMBDA a, as : Tie(as, h.of[a], holders[Arg(a).name]), h.aliases,
                 LAMBDA a : a, LAMBDA places : LastOf(places), writes)

(* tieCarriedWritesToLiveInAliases: the readers of a carried name hold it. *)
Tied(h, body, carried) ==
  LET places  == UNION {Occurrences(i, h) : i \in body}
      holders == Holders(h, {a \in places : h.of[a] \in carried})
  IN [h EXCEPT !.aliases = AllTied(h, holders, Loose(h, places, holders))]

IsBackEdge(i) == Code[i].branch # "NONE" /\ Code[i].target < i

Body(i) == Code[i].target .. i

(* What the body reads first lives on all of it. *)
LoopLived(h, i) ==
  [h EXCEPT !.aliases = LivingOn(@, LiveIn(Body(i), h), Body(i))]

(* extendLoopDirectiveRange, of each loop in the order of their branches. *)
ExtendLoop ==
  /\ pass = "loops"
  /\ cursor <= Len(Code)
  /\ IF program.loopLiveness /\ IsBackEdge(cursor)
     THEN \E lived \in {LoopLived(heap, cursor)}, carried \in {Carried(Body(cursor), heap)} :
            heap' = Tied(lived, Body(cursor), carried)
     ELSE UNCHANGED heap
  /\ cursor' = cursor + 1
  /\ UNCHANGED <<program, walkers, visits, pass, pc, held>>

-----------------------------------------------------------------------------
(* Registers (processAliases): chains first, then the others *)

Aliases == heap.aliases

Intersect(a, b) == Aliases[a].lines \cap Aliases[b].lines # {}

SameKind(a, b) == Aliases[a].integer = Aliases[b].integer

(* Nothing but the chain lives in the register where a member of it does. *)
FreeFor(chain, reg) ==
  \A other \in DOMAIN Aliases \ chain :
    \A id \in chain :
      ~(Aliases[other].reg = reg /\ SameKind(other, id) /\ Intersect(other, id))

ChainOf(root) ==
  {id \in DOMAIN Aliases : SameKind(id, root) /\ root \in Ancestors(Aliases, id)}

WithRegister(chain, reg) ==
  [heap EXCEPT !.aliases =
     [id \in DOMAIN @ |-> IF id \in chain THEN [@[id] EXCEPT !.reg = reg] ELSE @[id]]]

FreeRegisters(chain) == {r \in 1 .. Registers : FreeFor(chain, r)}

AtAlias(p) == pass = p /\ cursor \in DOMAIN Aliases

IsChainRoot(id) == Aliases[id].reg = 0 /\ Aliases[id].pred = 0

PlaceChain ==
  /\ AtAlias("chains")
  /\ IsChainRoot(cursor)
  /\ FreeRegisters(ChainOf(cursor)) # {}
  /\ heap' = WithRegister(ChainOf(cursor), Min(FreeRegisters(ChainOf(cursor))))
  /\ cursor' = cursor + 1
  /\ UNCHANGED <<program, walkers, visits, pass, pc, held>>

(* The register of the root of its chain, if only its ancestors are in the way. *)
Preferred(id) ==
  LET reg == IF OnRing(Aliases, id) THEN 0 ELSE Aliases[Root(Aliases, id)].reg
  IN {reg} \cap {r \in 1 .. Registers :
        \A other \in DOMAIN Aliases \ Ancestors(Aliases, id) :
          ~(Aliases[other].reg = r /\ SameKind(other, id) /\ Intersect(other, id))}

PlaceAlias ==
  /\ AtAlias("rest")
  /\ Aliases[cursor].reg = 0
  /\ LET choice == IF Preferred(cursor) # {} THEN Preferred(cursor) ELSE FreeRegisters({cursor})
     IN IF choice = {}
        THEN pass' = "failed" /\ UNCHANGED <<heap, cursor>>
        ELSE /\ heap' = WithRegister({cursor}, Min(choice))
             /\ cursor' = cursor + 1
             /\ UNCHANGED pass
  /\ UNCHANGED <<program, walkers, visits, pc, held>>

SkipAlias ==
  /\ pass \in {"chains", "rest"}
  /\ cursor < heap.next
  /\ cursor \in DOMAIN Aliases =>
       /\ pass = "chains" => ~IsChainRoot(cursor) \/ FreeRegisters(ChainOf(cursor)) = {}
       /\ pass = "rest"   => Aliases[cursor].reg # 0
  /\ cursor' = cursor + 1
  /\ UNCHANGED <<program, walkers, heap, visits, pass, pc, held>>

NextPass ==
  /\ \/ pass = "loops"  /\ cursor > Len(Code) /\ pass' = "chains"
     \/ pass = "chains" /\ cursor = heap.next /\ pass' = "rest"
     \/ pass = "rest"   /\ cursor = heap.next /\ pass' = "run"
  /\ cursor' = 1
  /\ UNCHANGED <<program, walkers, heap, visits, pc, held>>

-----------------------------------------------------------------------------
(* Running *)

Running == pass = "run" /\ pc <= Len(Code)

RegisterOf(a) == <<KindOf(Arg(a).name), Aliases[heap.of[a]].reg>>

(* A written field holds its name's value; what others held of it is old. *)
AfterWrite(regs, a) ==
  [r \in Register |-> [f \in Field |->
     IF f \notin Arg(a).fields THEN regs[r][f]
     ELSE IF r = RegisterOf(a) THEN Arg(a).name
     ELSE IF regs[r][f] = Arg(a).name THEN Nothing
     ELSE regs[r][f]]]

RunToken ==
  /\ Running
  /\ held' = FoldSet(LAMBDA a, regs : AfterWrite(regs, a), held, {a \in PlacesAt(pc) : Arg(a).write})
  /\ \/ Code[pc].branch # "JUMP" /\ pc' = pc + 1
     \/ Code[pc].branch # "NONE" /\ pc' = Code[pc].target
  /\ UNCHANGED <<program, walkers, heap, visits, pass, cursor>>

Step ==
  \/ ReadArgument \/ WriteFloat \/ WriteInteger
  \/ StepOn \/ StopAtConditional \/ Fork \/ StopAtJump \/ Jump \/ Exit
  \/ EndWalk \/ ExtendLoop \/ PlaceChain \/ PlaceAlias \/ SkipAlias \/ NextPass

Next == Step \/ RunToken

Spec == Init /\ [][Next]_vars

(* One thread runs the allocator to its end. *)
FairSpec == Spec /\ WF_vars(Step)

-----------------------------------------------------------------------------

TypeOK ==
  /\ \A k \in DOMAIN walkers : walkers[k].names \in [Name -> NameState]
  /\ \A id \in DOMAIN Aliases : Aliases[id] \in Alias
  /\ \A id \in DOMAIN Aliases : Aliases[id].pred \in DOMAIN Aliases \cup {0}
  /\ heap.of \in [Place -> DOMAIN Aliases \cup {0}]
  /\ pass \in {"walk", "loops", "chains", "rest", "run", "failed"}
  /\ held \in [Register -> [Field -> Name \cup {Nothing}]]

(* Along every path of the program each register that is read holds the      *)
(* value its name has there.                                                 *)
ReadsHold ==
  Running =>
    \A a \in PlacesAt(pc) :
      ~Arg(a).write => /\ heap.of[a] # 0
                       /\ \A f \in Arg(a).fields : held[RegisterOf(a)][f] = Arg(a).name

(* The places where an integer is written; a chain has no more links. *)
WritesOf(tokens, n) ==
  {a \in UNION {{i} \X DOMAIN tokens[i].args : i \in DOMAIN tokens} :
     tokens[a[1]].args[a[2]].write /\ tokens[a[1]].args[a[2]].name = n}

(* No integer is written so often that a write does not see the end of its     *)
(* chain.                                                                     *)
ShortChains ==
  \A p \in Programs : \A n \in IntegerName : Cardinality(WritesOf(p.tokens, n)) <= Hops

(* No chain of aliases becomes a ring, whatever order walks and loops meet    *)
(* them in ("A chain must stay a chain").                                    *)
ChainsEnd == \A id \in DOMAIN Aliases : ~OnRing(Aliases, id)

(* The walk comes to an end although it follows every branch both ways.      *)
Allocates == <>(pass \in {"run", "failed"})
================================================================================
