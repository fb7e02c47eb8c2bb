--------------------------- MODULE VuLatencyTracker ---------------------------
(***************************************************************************)
(* The readiness model of the scheduler and of the code generator          *)
(* (VuLatencyTracker.cpp).  A tracker holds the cycle each register, Q and *)
(* P can be read in and the cycle of the last write of each flag; a read   *)
(* waits for the latest of what it needs.  An instruction is a token of    *)
(* the dependency graph with what its row of the instruction table says    *)
(* about time.                                                             *)
(***************************************************************************)
EXTENDS VuDependencyGraph, FiniteSets, FiniteSetsExt

CONSTANTS
  FloatRegister,     \* the VF keys of Register
  FlagLatency,       \* vuFlagVisibilityLatency, of MAC and STATUS
  ClipLatency,       \* vuClipFlagSchedulingLatency
  IntegerLoadReady,  \* vuIntegerLoadReadyCycles, 0 when not calibrated
  FmacInterlock,     \* --fmac-interlock
  BranchInterlock    \* --branch-interlock

ASSUME RegisterAssumption == IsFiniteSet(Register)
ASSUME FloatAssumption == FloatRegister \subseteq Register
ASSUME LatencyAssumption == {FlagLatency, ClipLatency, IntegerLoadReady} \subseteq Nat
ASSUME InterlockAssumption == {FmacInterlock, BranchInterlock} \subseteq BOOLEAN

(* The mnemonics the tracker tells apart. *)
Form == {"FTOI", "MTIR", "MINI", "MOVE", "LQ", "ILW", "WAIT", "BRANCH", "CALL", "OTHER"}

Instruction ==
  [ access    : TokenType,
    form      : Form,
    latency   : Nat,
    lower     : BOOLEAN,    \* isVuLowerPipe
    candidate : BOOLEAN ]   \* isVuReadyScheduleCandidate

(* -10 for whatever is not in flight, as reset() leaves it. *)
Idle == -10

Tracker ==
  [ ready    : [Register -> Int],
    producer : [Register -> Form \cup {"NONE"}],
    q : Int, p : Int, mac : Int, status : Int, clip : Int ]

ResetTracker ==
  [ ready    |-> [r \in Register |-> Idle],
    producer |-> [r \in Register |-> "NONE"],
    q |-> Idle, p |-> Idle, mac |-> Idle, status |-> Idle, clip |-> Idle ]

TokenReads(t, res)  == res \in t.access.implicitReads
TokenWrites(t, res) == res \in t.access.implicitWrites
RowReads(tokens, res) == \E t \in tokens : TokenReads(t, res)

-----------------------------------------------------------------------------
(* Waiting *)

(* The forwarding paths: an FTOI into an MTIR, a load into an FTOI or a MINIi. *)
BypassReduction(producer, consumer) ==
  CASE producer = "FTOI" /\ consumer = "MTIR" -> 3
    [] producer = "LQ"   /\ consumer = "FTOI" -> 3
    [] producer = "LQ"   /\ consumer = "MINI" -> 2
    [] OTHER -> 0

(* The registers the hardware stalls for by itself: VF, and a loaded integer *)
(* a branch reads.                                                           *)
Interlocked(tracker, tokens, r) ==
  \/ r \in FloatRegister
  \/ /\ BranchInterlock
     /\ tracker.producer[r] \in {"ILW", "LQ"}
     /\ \E t \in tokens : t.form \in {"BRANCH", "CALL"}

RegisterReads(tokens) == UNION {t.access.registerReads : t \in tokens}

RegisterReady(tracker, tokens, r) ==
  tracker.ready[r]
    - Max({BypassReduction(tracker.producer[r], t.form)
             : t \in {u \in tokens : r \in u.access.registerReads}})

(* What one resource adds to the wait of a row. *)
Gap(needed, ready, cycle) == IF needed THEN ready - cycle ELSE 0

(* Mutant: a row that reads Q or P asks for nothing else. *)
OperandDelayPipelinedFirst(tracker, tokens, cycle, manual) ==
  LET registers == {r \in RegisterReads(tokens) : ~(manual /\ Interlocked(tracker, tokens, r))}
  IN  IF RowReads(tokens, "Q") \/ RowReads(tokens, "P")
        THEN Max({ 0,
                   Gap(RowReads(tokens, "Q"), tracker.q, cycle),
                   Gap(RowReads(tokens, "P"), tracker.p, cycle) })
        ELSE Max({0} \cup {RegisterReady(tracker, tokens, r) - cycle : r \in registers})

(* Cycles until every register, Q and P the row reads is ready.  The manual  *)
(* variant leaves out what the hardware stalls for.                          *)
OperandDelay(tracker, tokens, cycle, manual) ==
  LET registers == {r \in RegisterReads(tokens) : ~(manual /\ Interlocked(tracker, tokens, r))}
  IN  Max({ 0,
            Gap(RowReads(tokens, "Q"), tracker.q, cycle),
            Gap(RowReads(tokens, "P"), tracker.p, cycle) }
          \cup {RegisterReady(tracker, tokens, r) - cycle : r \in registers})

(* Cycles until every flag the row reads has been visible long enough. *)
FlagDelay(tracker, tokens, cycle) ==
  Max({ 0,
        Gap(RowReads(tokens, "MAC"),    tracker.mac + FlagLatency,    cycle),
        Gap(RowReads(tokens, "STATUS"), tracker.status + FlagLatency, cycle),
        Gap(RowReads(tokens, "CLIP"),   tracker.clip + ClipLatency,   cycle) })

HazardDelay(tracker, tokens, cycle, manual) ==
  LET needed == OperandDelay(tracker, tokens, cycle, manual)
  IN  needed + FlagDelay(tracker, tokens, cycle + needed)

ReadHazardDelay(tracker, tokens, cycle)       == HazardDelay(tracker, tokens, cycle, FALSE)
ManualReadHazardDelay(tracker, tokens, cycle) == HazardDelay(tracker, tokens, cycle, TRUE)

(* Which wait covers the hazard (vuScheduledPaddingKindForReadHazard). *)
PaddingKind(tracker, tokens, cycle) ==
  LET qGap == Gap(RowReads(tokens, "Q"), tracker.q, cycle)
      pGap == Gap(RowReads(tokens, "P"), tracker.p, cycle)
  IN  IF qGap > 1 /\ qGap >= pGap THEN "WAITQ"
      ELSE IF pGap > 1 THEN "WAITP"
      ELSE "NOP"

-----------------------------------------------------------------------------
(* Recording *)

(* The cycle after issue + latency; an integer load may be calibrated. *)
ReadyCycle(t, issue) ==
  LET table == issue + t.latency + 1
  IN  IF IntegerLoadReady > 0 /\ t.access.memoryKind = "LOAD"
        THEN Min({table, issue + IntegerLoadReady})
        ELSE table

(* recordWrites: a latency of one or less leaves the registers, Q and P as   *)
(* they were recorded.                                                       *)
RecordWrites(tracker, t, issue) ==
  LET slow == t.latency > 1
      At(res, old) == IF TokenWrites(t, res) THEN issue ELSE old
      Ready(res, old) == IF slow /\ TokenWrites(t, res) THEN ReadyCycle(t, issue) ELSE old
      written == IF slow THEN t.access.registerWrites ELSE {}
  IN  [ ready    |-> [r \in Register |-> IF r \in written THEN ReadyCycle(t, issue)
                                                          ELSE tracker.ready[r]],
        producer |-> [r \in Register |-> IF r \in written THEN t.form ELSE tracker.producer[r]],
        q        |-> Ready("Q", tracker.q),
        p        |-> Ready("P", tracker.p),
        mac      |-> At("MAC", tracker.mac),
        status   |-> At("STATUS", tracker.status),
        clip     |-> At("CLIP", tracker.clip) ]

(* The tokens of a row, one after the other. *)
RecordRow(tracker, row, issue) ==
  FoldSet(LAMBDA t, recorded : RecordWrites(recorded, t, issue), tracker, row)

(* Mutant: cycles that became no word count against a division. *)
DelayNothing(tracker, cycles) == tracker

(* delayPipelinedResultsBy: Q and P move out, if anything was recorded. *)
DelayPipelinedResultsBy(tracker, cycles) ==
  IF cycles <= 0 THEN tracker
  ELSE [tracker EXCEPT !.q = IF @ >= 0 THEN @ + cycles ELSE @,
                       !.p = IF @ >= 0 THEN @ + cycles ELSE @]
=============================================================================
