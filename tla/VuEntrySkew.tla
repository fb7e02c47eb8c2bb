------------------------------ MODULE VuEntrySkew ------------------------------
(***************************************************************************)
(* How long a quotient has been under way when a block is entered by a     *)
(* branch (VuEntrySkew and the program loop of the scheduler).  Blocks are *)
(* scheduled in file order on one clock; a branch jumps over rows that     *)
(* clock has counted, so before a block is scheduled the outstanding       *)
(* result is pushed out by what the shortest path into it saves.           *)
(*                                                                         *)
(* A scheduled program is then run, each branch taken or not, and a reader *)
(* of Q that stands behind no waitq must find the quotient there.  The rows *)
(* the emitter adds where its own walk in file order comes up short are not *)
(* modelled: they never lengthen the path of a branch over them.            *)
(***************************************************************************)
EXTENDS Integers, Sequences

CONSTANTS
  Programs,     \* the programs: sequences of blocks, branches lead forward
  Latency       \* of the rows that write Q

Row == {"LABEL", "DIV", "RSQRT", "READ", "OTHER", "BRANCH"}
Block == [rows : Seq(Row), target : Nat, conditional : BOOLEAN]

ASSUME ProgramAssumption == Programs \subseteq Seq(Block)
ASSUME LatencyAssumption == Latency \in [{"DIV", "RSQRT"} -> Nat]

(* A branch ends its block and leads to a block below: what a backward one    *)
(* carries is not tracked by the code either (README.md:243).                 *)
ASSUME ForwardAssumption ==
  \A p \in Programs : \A b \in DOMAIN p : \A k \in DOMAIN p[b].rows :
    p[b].rows[k] = "BRANCH" => k = Len(p[b].rows) /\ p[b].target \in b + 1 .. Len(p)

VARIABLES
  program,
  current,  \* the block being scheduled
  offset,   \* its rows scheduled so far; -1 before it is entered
  code,     \* the issue slots of each block, each with its cycle and the q it found
  clock,    \* the linear cycle
  q,        \* m_qReadyCycle of the program's tracker
  applied,  \* m_applied
  base,     \* m_edgeBase: of each target so far, what its best branch saves, less its entry
  entered,  \* of each block entered so far, firstIssueCycle, the skew applied and the q found
  at,       \* the block and slot the machine runs, <<0, 0>> while scheduling
  now,      \* its cycle
  ready,    \* when its last quotient arrives
  labels,   \* the labels it has passed
  before    \* those it had passed at its last division

scheduler == <<current, offset, code, clock, q, applied, base, entered>>
machine == <<at, now, ready, labels, before>>
vars == <<program, scheduler, machine>>

Idle == -10

Init ==
  /\ program \in Programs
  /\ current = 1
  /\ offset = -1
  /\ code = [b \in DOMAIN program |-> <<>>]
  /\ clock = 0
  /\ q = Idle
  /\ applied = 0
  /\ base = <<>>
  /\ entered = <<>>
  /\ at = <<0, 0>>
  /\ now = 0
  /\ ready = Idle
  /\ labels = 0
  /\ before = 0

-----------------------------------------------------------------------------
(* Scheduling *)

Scheduling == current <= Len(program)

(* The largest saving of an edge into the block: inherited from the block    *)
(* above, or a branch recorded for its label.                                *)
Skew == IF current \in DOMAIN base /\ base[current] + clock > applied
          THEN base[current] + clock
          ELSE applied

(* VuEntrySkew::enter and delayPipelinedResultsBy. *)
EnterBlock ==
  /\ Scheduling
  /\ offset = -1
  /\ offset' = 0
  /\ q' = IF q >= 0 THEN q + (Skew - applied) ELSE q
  /\ applied' = Skew
  /\ entered' = Append(entered, [cycle |-> clock, skew |-> Skew, found |-> q])
  /\ UNCHANGED <<program, current, code, clock, base, machine>>

Place(slots, cycles) ==
  /\ code' = [code EXCEPT ![current] = @ \o slots]
  /\ clock' = clock + cycles
  /\ offset' = offset + 1
  /\ UNCHANGED <<program, current, applied, entered, machine>>

Slot(row, wait, cycle) == [row |-> row, wait |-> wait, cycle |-> cycle, found |-> q]

NextRow(row) ==
  /\ Scheduling
  /\ offset \in 0 .. Len(program[current].rows) - 1
  /\ program[current].rows[offset + 1] = row

(* A label takes a cycle of the clock like any other token. *)
PlaceRow ==
  \E row \in {"LABEL", "OTHER"} :
    /\ NextRow(row)
    /\ Place(<<Slot(row, FALSE, clock)>>, 1)
    /\ UNCHANGED <<q, base>>

PlaceDivision ==
  \E row \in {"DIV", "RSQRT"} :
    /\ NextRow(row)
    /\ Place(<<Slot(row, FALSE, clock)>>, 1)
    /\ q' = clock + Latency[row] + 1
    /\ UNCHANGED base

(* A reader that is one cycle early gets a NOP, an earlier one a waitq beside it. *)
PlaceRead ==
  /\ NextRow("READ")
  /\ \/ q - clock <= 0 /\ Place(<<Slot("READ", FALSE, clock)>>, 1)
     \/ q - clock = 1  /\ Place(<<Slot("NOP", FALSE, clock), Slot("READ", FALSE, clock + 1)>>, 2)
     \/ q - clock > 1  /\ Place(<<Slot("READ", TRUE, clock)>>, q - clock + 1)
  /\ UNCHANGED <<q, base>>

(* Mutant: the saving of the block the branch stands in is not added. *)
EdgeBaseAlone == -clock - 2

(* Mutant: the way to the target counts one row too many. *)
EdgeBaseLate == applied - clock - 3

(* recordBranch: the saving of the edge, but for the entry of its target. *)
EdgeBase == applied - clock - 2

PlaceBranch ==
  /\ NextRow("BRANCH")
  /\ Place(<<Slot("BRANCH", FALSE, clock)>>, 1)
  /\ LET target == program[current].target
     IN  base' = [t \in DOMAIN base \cup {target} |->
                    IF t = target /\ (t \in DOMAIN base => EdgeBase > base[t])
                      THEN EdgeBase ELSE base[t]]
  /\ UNCHANGED q

LeaveBlock ==
  /\ Scheduling
  /\ offset = Len(program[current].rows)
  /\ current' = current + 1
  /\ offset' = -1
  /\ UNCHANGED <<program, code, clock, q, applied, base, entered, machine>>

-----------------------------------------------------------------------------
(* Running *)

Start ==
  /\ ~Scheduling
  /\ at = <<0, 0>>
  /\ at' = <<1, 1>>
  /\ UNCHANGED <<program, scheduler, now, ready, labels, before>>

Running == at # <<0, 0>> /\ at[1] <= Len(program)

Here == code[at[1]][at[2]]

InBlock == at[2] <= Len(code[at[1]])

(* A label is a place in the text and no word. *)
RunLabel ==
  /\ Running /\ InBlock
  /\ Here.row = "LABEL"
  /\ labels' = labels + 1
  /\ at' = [at EXCEPT ![2] = @ + 1]
  /\ UNCHANGED <<program, scheduler, now, ready, before>>

RunPlain ==
  /\ Running /\ InBlock
  /\ Here.row \in {"NOP", "OTHER"}
  /\ now' = now + 1
  /\ at' = [at EXCEPT ![2] = @ + 1]
  /\ UNCHANGED <<program, scheduler, ready, labels, before>>

RunDivision ==
  /\ Running /\ InBlock
  /\ Here.row \in {"DIV", "RSQRT"}
  /\ ready' = now + Latency[Here.row] + 1
  /\ before' = labels
  /\ now' = now + 1
  /\ at' = [at EXCEPT ![2] = @ + 1]
  /\ UNCHANGED <<program, scheduler, labels>>

RunRead ==
  /\ Running /\ InBlock
  /\ Here.row = "READ"
  /\ now' = (IF Here.wait /\ ready > now THEN ready ELSE now) + 1
  /\ at' = [at EXCEPT ![2] = @ + 1]
  /\ UNCHANGED <<program, scheduler, ready, labels, before>>

(* The branch and its delay slot, left to a NOP. *)
RunBranch ==
  /\ Running /\ InBlock
  /\ Here.row = "BRANCH"
  /\ now' = now + 2
  /\ \/ at' = <<program[at[1]].target, 1>>
     \/ program[at[1]].conditional /\ at' = <<at[1] + 1, 1>>
  /\ UNCHANGED <<program, scheduler, ready, labels, before>>

FallThrough ==
  /\ Running /\ ~InBlock
  /\ at' = <<at[1] + 1, 1>>
  /\ UNCHANGED <<program, scheduler, now, ready, labels, before>>

Next ==
  \/ EnterBlock \/ PlaceRow \/ PlaceDivision \/ PlaceRead \/ PlaceBranch \/ LeaveBlock
  \/ Start \/ RunLabel \/ RunPlain \/ RunDivision \/ RunRead \/ RunBranch \/ FallThrough

Spec == Init /\ [][Next]_vars

-----------------------------------------------------------------------------

Divisions(b) == {program[b].rows[k] : k \in DOMAIN program[b].rows} \cap {"DIV", "RSQRT"}

Branches == {b \in DOMAIN program : \E k \in DOMAIN program[b].rows : program[b].rows[k] = "BRANCH"}

(* The blocks a branch jumps over. *)
Skipped(b) == b + 1 .. program[b].target - 1

SkipsNoDivision(b) == \A s \in Skipped(b) : Divisions(s) = {}

(* No branch from above leads into what is skipped, as the one to the other   *)
(* arm of an if does, and no division there is shorter than one above.        *)
SkipsWhole(b) ==
  /\ \A e \in Branches : e < b => program[e].target \notin Skipped(b)
  /\ \A s \in Skipped(b), a \in 1 .. b :
       \A x \in Divisions(s), y \in Divisions(a) : Latency[y] <= Latency[x]

(* On every forward path a reader of Q without a waitq finds the quotient of  *)
(* the last division on that path ("Q and P readiness is measured against     *)
(* the shortest path into each block"), but for a row for each label passed   *)
(* since, which the clock counts and the machine does not.  The one tracker   *)
(* knows the last division above in the file; the property is about the       *)
(* programs whose branches skip none, or leave it standing for those it hid.  *)
QuotientReady ==
  /\ \A b \in Branches : SkipsNoDivision(b) \/ SkipsWhole(b)
  /\ Running /\ InBlock /\ Here.row = "READ" /\ ~Here.wait
  => ready <= now + (labels - before)

(* The skew a block is scheduled with is at least its linear entry less the   *)
(* cycle any forward path enters it at ("the largest skew is the shortest     *)
(* real path"), labels aside.  A wait for a division that a branch has        *)
(* skipped is shorter than the clock has it, so again none may be skipped.    *)
SkewCoversEveryPath ==
  /\ \A b \in Branches : SkipsNoDivision(b)
  /\ Running /\ at[2] = 1
  => entered[at[1]].cycle - now <= entered[at[1]].skew + labels
================================================================================
