------------------------- MODULE VuFlagLivenessProofs -------------------------
(***************************************************************************)
(* What holds of the flag liveness analysis for every program, every flag  *)
(* and every limit of the rounds.  One pass over the back edges in the     *)
(* order of their branches is enough: an extension moves a flag to the     *)
(* branch just visited, past which no earlier loop ends.                   *)
(***************************************************************************)
EXTENDS VuFlagLiveness, TLAPS

(* No returns: control goes where labels and the list say. *)
LabelsOnly ==
  \A p \in Programs : \A i \in DOMAIN p : p[i].branch # "RETURN"

(* A back edge is closed once it was visited; after one round all are. *)
VisitedClosed ==
  \A b \in BackEdges : \A f \in Flag :
    b <= visited \/ round > 0 \/ ~Settling => Closed(b, last[f])

(* Every reader counts, and nothing that does not have to. *)
ReadersCovered == \A f \in Flag : \A i \in Readers(f) : i <= last[f]

NeverPastBound ==
  \A f \in Flag : \A n \in 0 .. Len(program) : LiveBound(f, n) => last[f] <= n

InProgram == program \in Programs /\ (~Settling => at \in Position)

IInv ==
  /\ TypeOK
  /\ InProgram
  /\ VisitedClosed
  /\ ReadersCovered
  /\ NeverPastBound
  /\ SettledInOneRound

(* The run never comes back to where an ignored flag was live. *)
PastTheReaders == ~Settling => \A f \in IgnoredFlags(from) : at > last[f]

-----------------------------------------------------------------------------

LEMMA Positions ==
  ASSUME InProgram
  PROVE  /\ program \in Seq(Token)
         /\ Len(program) \in Nat
         /\ Position = 1 .. Len(program)
         /\ BackEdges \subseteq 1 .. Len(program)
         /\ \A b \in BackEdges : program[b].target \in 1 .. Len(program)
BY ProgramAssumption, LabelAssumption DEF InProgram, Position, BackEdges

LEMMA InitIInv == Init => IInv
<1> SUFFICES ASSUME Init PROVE IInv
  OBVIOUS
<1>1. InProgram
  BY DEF Init, InProgram, Settling
<1>2. TypeOK
  <2>1. 0 \in 0 .. Len(program) /\ 0 \in 0 .. RoundLimit - 1
    BY <1>1, Positions, RoundAssumption
  <2> QED
    BY <1>1, <2>1, Positions DEF Init, TypeOK
<1>3. VisitedClosed
  BY <1>1, Positions DEF Init, VisitedClosed, Settling
<1>4. ReadersCovered
  BY DEF Init, ReadersCovered
<1>5. NeverPastBound
  <2> SUFFICES ASSUME NEW f \in Flag, NEW n \in 0 .. Len(program), LiveBound(f, n)
               PROVE  last[f] <= n
    BY DEF NeverPastBound
  <2> QED
    BY <1>1, Positions DEF Init, LiveBound
<1> QED
  BY <1>1, <1>2, <1>3, <1>4, <1>5 DEF Init, IInv, SettledInOneRound

(* A flag ends up at the branch visited, or stays; either way every edge up  *)
(* to that branch is closed.                                                 *)
LEMMA ExtensionCloses ==
  ASSUME IInv, NEW b \in BackEdges, NEW f \in Flag
  PROVE  /\ Extended(b)[f] \in last[f] .. Len(program)
         /\ Closed(b, Extended(b)[f])
         /\ \A e \in BackEdges : e <= b /\ Closed(e, last[f]) => Closed(e, Extended(b)[f])
         /\ Closed(b, last[f]) => Extended(b)[f] = last[f]
  BY Positions DEF IInv, TypeOK, Extended, Closed

LEMMA VisitIInv ==
  ASSUME IInv, NEW b \in Position, Visit(b)
  PROVE  IInv'
<1> USE DEF Visit, NextEdge
<1>1. b \in BackEdges
  OBVIOUS
<1>2. /\ InProgram' /\ Position' = Position /\ BackEdges' = BackEdges
      /\ \A f : Readers(f)' = Readers(f)
      /\ Settling /\ Settling'
  BY DEF IInv, InProgram, Position, BackEdges, Readers, Settling
<1>3. TypeOK'
  BY <1>1, ExtensionCloses, Positions DEF IInv, TypeOK, Extended
<1>4. VisitedClosed'
  <2> SUFFICES ASSUME NEW e \in BackEdges, NEW f \in Flag, e <= b \/ round > 0
               PROVE  Closed(e, Extended(b)[f])
    BY <1>2 DEF VisitedClosed, Closed
  <2>1. CASE e = b
    BY <2>1, ExtensionCloses
  <2>2. CASE e # b /\ e <= b
    <3>1. e <= visited
      BY <2>2, <1>1, Positions DEF IInv, TypeOK
    <3> QED
      BY <3>1, <2>2, <1>1, ExtensionCloses DEF IInv, VisitedClosed
  <2>3. CASE round > 0
    BY <2>3, <1>1, ExtensionCloses DEF IInv, VisitedClosed
  <2> QED
    BY <2>1, <2>2, <2>3
<1>5. ReadersCovered'
  <2> SUFFICES ASSUME NEW f \in Flag, NEW i \in Readers(f)
               PROVE  i <= Extended(b)[f]
    BY <1>2 DEF ReadersCovered
  <2>1. i <= last[f] /\ i \in Nat /\ last[f] \in Nat
    BY Positions DEF IInv, TypeOK, ReadersCovered, Readers
  <2> QED
    BY <2>1, <1>1, ExtensionCloses, Positions DEF IInv
<1>6. NeverPastBound'
  <2> SUFFICES ASSUME NEW f \in Flag, NEW n \in 0 .. Len(program), LiveBound(f, n)
               PROVE  Extended(b)[f] <= n
    BY <1>2 DEF NeverPastBound, LiveBound, Closed
  <2>1. last[f] <= n /\ Closed(b, n)
    BY <1>1 DEF IInv, NeverPastBound, LiveBound
  <2> QED
    BY <2>1, <1>1, Positions DEF Extended, Closed, IInv, TypeOK
<1>7. SettledInOneRound'
  <2> SUFFICES ASSUME round > 0 PROVE Extended(b) = last /\ ~changed
    BY DEF SettledInOneRound
  <2>1. \A f \in Flag : Extended(b)[f] = last[f]
    BY <1>1, ExtensionCloses DEF IInv, VisitedClosed
  <2>2. Extended(b) = [f \in Flag |-> last[f]]
    BY <2>1 DEF Extended
  <2> QED
    BY <2>2 DEF IInv, TypeOK, SettledInOneRound
<1> QED
  BY <1>2, <1>3, <1>4, <1>5, <1>6, <1>7 DEF IInv

(* Once a round is over, no back edge can come back into a live flag. *)
LEMMA RoundOverClosed ==
  ASSUME IInv, RoundOver
  PROVE  \A b \in BackEdges : \A f \in Flag : Closed(b, last[f])
BY DEF IInv, VisitedClosed, RoundOver

LEMMA UnchangedIInv ==
  ASSUME IInv, UNCHANGED <<program, last>>, TypeOK', InProgram', SettledInOneRound',
         \A b \in BackEdges : \A f \in Flag : Closed(b, last[f])
  PROVE  IInv'
<1>1. BackEdges' = BackEdges /\ \A f : Readers(f)' = Readers(f)
  BY DEF BackEdges, Readers, Position
<1> QED
  BY <1>1 DEF IInv, VisitedClosed, ReadersCovered, NeverPastBound, LiveBound, Closed

LEMMA NextIInv == IInv /\ [Next]_vars => IInv'
<1> SUFFICES ASSUME IInv, [Next]_vars PROVE IInv'
  OBVIOUS
<1>1. ASSUME NEW b \in Position, Visit(b) PROVE IInv'
  BY <1>1, VisitIInv
<1>2. CASE NextRound
  <2>1. InProgram' /\ SettledInOneRound'
    BY <1>2 DEF NextRound, IInv, InProgram, SettledInOneRound, Settling, Position
  <2>2. 0 \in 0 .. Len(program) /\ round + 1 \in 0 .. RoundLimit - 1
    BY <1>2, Positions, RoundAssumption DEF NextRound, Again, IInv, TypeOK
  <2>3. TypeOK'
    BY <1>2, <2>2 DEF NextRound, IInv, TypeOK
  <2> QED
    BY <1>2, <2>1, <2>3, RoundOverClosed, UnchangedIInv DEF NextRound
<1>3. ASSUME NEW i \in Position, Leave(i) PROVE IInv'
  <2>1. TypeOK' /\ InProgram' /\ SettledInOneRound'
    BY <1>3, Positions
       DEF Leave, Successors, analysis, IInv, TypeOK, InProgram, SettledInOneRound, Settling, Position
  <2> QED
    BY <1>3, <2>1, RoundOverClosed, UnchangedIInv DEF Leave, analysis
<1>4. CASE Run
  <2>1. TypeOK' /\ InProgram' /\ SettledInOneRound'
    BY <1>4, Positions
       DEF Run, Successors, analysis, IInv, TypeOK, InProgram, SettledInOneRound, Settling, Position
  <2>2. \A b \in BackEdges : \A f \in Flag : Closed(b, last[f])
    BY <1>4 DEF Run, IInv, VisitedClosed
  <2> QED
    BY <1>4, <2>1, <2>2, UnchangedIInv DEF Run, analysis
<1>5. CASE UNCHANGED vars
  BY <1>5 DEF vars, IInv, TypeOK, InProgram, VisitedClosed, ReadersCovered, NeverPastBound,
              SettledInOneRound, LiveBound, Closed, BackEdges, Readers, Position, Settling
<1> QED
  BY <1>1, <1>2, <1>3, <1>4, <1>5 DEF Next

(* The strengthened invariant of the analysis holds of every program. *)
THEOREM FlagLivenessIInv == Spec => []IInv
BY InitIInv, NextIInv, PTL DEF Spec

(* The state of the analysis keeps its type. *)
THEOREM FlagLivenessType == Spec => []TypeOK
BY FlagLivenessIInv, PTL DEF IInv

(* However its loops nest or overlap, one round settles a program: the limit *)
(* of 64 rounds is never what ends the extension.                            *)
THEOREM FlagLivenessSettles == Spec => []SettledInOneRound
BY FlagLivenessIInv, PTL DEF IInv

(* The bound is the least one past every reader and every loop that can come *)
(* back to one.                                                              *)
THEOREM FlagLivenessLeast == Spec => []LeastBound
<1>1. IInv => LeastBound
  <2> SUFFICES ASSUME IInv, ~Settling, NEW f \in Flag
               PROVE  /\ LiveBound(f, last[f])
                      /\ \A n \in 0 .. Len(program) : LiveBound(f, n) => last[f] <= n
    BY DEF LeastBound
  <2> QED
    BY DEF IInv, LiveBound, VisitedClosed, ReadersCovered, NeverPastBound
<1> QED
  BY <1>1, FlagLivenessIInv, PTL

(* A step behind a live range stays behind it. *)
LEMMA StepPast ==
  ASSUME LabelsOnly, InProgram, NEW f \in Flag, last[f] \in Nat,
         \A b \in BackEdges : Closed(b, last[f]),
         NEW i \in Position, i > last[f], NEW j \in Successors(i)
  PROVE  j > last[f]
<1>1. i \in Nat /\ j \in Nat /\ program[i].branch # "RETURN"
  BY Positions DEF Successors, LabelsOnly, InProgram, Position
<1>2. CASE j = i + 1
  BY <1>1, <1>2
<1>3. CASE program[i].branch \in {"CONDITIONAL", "JUMP", "CALL"} /\ j = program[i].target
  <2>1. CASE j <= i
    <3>1. i \in BackEdges
      BY <1>3, <2>1 DEF BackEdges
    <3> QED
      BY <3>1, <1>1, <1>3 DEF Closed
  <2>2. CASE ~(j <= i)
    BY <2>2, <1>1
  <2> QED
    BY <2>1, <2>2
<1> QED
  BY <1>1, <1>2, <1>3 DEF Successors

(* In a program without returns, no path from the end of a segment meets a   *)
(* reader of a flag the segment was scheduled without.                       *)
THEOREM FlagLivenessSound == LabelsOnly /\ Spec => []DeadFlagsUnread
<1> SUFFICES ASSUME LabelsOnly PROVE Spec => []DeadFlagsUnread
  OBVIOUS
<1>1. Init => PastTheReaders
  BY DEF Init, PastTheReaders, Settling
<1>2. PastTheReaders /\ IInv /\ [Next]_vars => PastTheReaders'
  <2> SUFFICES ASSUME PastTheReaders, IInv, [Next]_vars, ~Settling',
                      NEW f \in IgnoredFlags(from)'
               PROVE  at' > last'[f]
    BY DEF PastTheReaders
  <2>1. f \in Flag /\ last[f] \in Nat /\ from' > last'[f]
    BY DEF IgnoredFlags, IInv, TypeOK
  <2>2. ASSUME NEW i \in Position, Leave(i) PROVE at' > last'[f]
    BY <2>1, <2>2, RoundOverClosed, StepPast DEF Leave, analysis, IInv
  <2>3. CASE Run
    <3>1. f \in IgnoredFlags(from) /\ at \in Position /\ at > last[f] /\ last' = last
      BY <2>3 DEF Run, analysis, IgnoredFlags, PastTheReaders, IInv, InProgram
    <3> QED
      BY <2>1, <2>3, <3>1, StepPast DEF Run, IInv, VisitedClosed
  <2>4. CASE UNCHANGED vars
    BY <2>4 DEF vars, PastTheReaders, Settling, IgnoredFlags
  <2>5. ASSUME NEW b \in Position, Visit(b) PROVE FALSE
    BY <2>5 DEF Visit, Settling
  <2>6. CASE NextRound
    BY <2>6 DEF NextRound, Settling
  <2> QED
    BY <2>2, <2>3, <2>4, <2>5, <2>6 DEF Next
<1>3. PastTheReaders /\ IInv => DeadFlagsUnread
  <2> SUFFICES ASSUME PastTheReaders, IInv, ~Settling, NEW f \in IgnoredFlags(from),
                      at \in Readers(f)
               PROVE  FALSE
    BY DEF DeadFlagsUnread
  <2>1. f \in Flag /\ last[f] \in Nat /\ at \in Nat
    BY DEF IgnoredFlags, IInv, TypeOK
  <2>2. at > last[f] /\ at <= last[f]
    BY <2>1 DEF PastTheReaders, IInv, ReadersCovered
  <2> QED
    BY <2>1, <2>2
<1> QED
  BY <1>1, <1>2, <1>3, FlagLivenessIInv, PTL DEF Spec
===============================================================================
