-------------------------- MODULE VuBlockTimingProofs --------------------------
(* Proofs about the clock of VuBlockSchedule, for every block, every latency  *)
(* and every option: what the tracker of the scheduler says of Q and P, and   *)
(* where nothing is left to the FMAC interlock of every register and flag, is *)
(* never ahead of the machine that runs the slots; and where something is, in *)
(* a schedule without waits, the machine stalls as that interlock promises.   *)
EXTENDS VuBlockScheduleProofs, WellFoundedInduction

-----------------------------------------------------------------------------
(* Numbers *)

LEMMA LeastNumber ==
  ASSUME NEW S \in SUBSET Nat, S # {}
  PROVE  \E m \in S : \A k \in S : m <= k
<1>1. PICK m \in S : \A k \in S : <<k, m>> \notin OpToRel(<, Nat)
  BY NatLessThanWellFounded, WFMin
<1>2. \A k \in S : ~(k < m)
  BY <1>1, Zenon DEF OpToRel
<1> QED
  BY <1>2

(* A finite set of numbers has a greatest one.                                *)
LEMMA GreatestOf ==
  ASSUME NEW S \in SUBSET Int, IsFiniteSet(S), S # {}
  PROVE  Max(S) \in S /\ \A y \in S : y <= Max(S)
<1> DEFINE HasGreatest(U) == \E x \in U : \A y \in U : x >= y
           Sized(U, n) == IsFiniteSet(U) /\ U # {} /\ Cardinality(U) = n
           Bad == {n \in Nat : \E U \in SUBSET Int : Sized(U, n) /\ ~HasGreatest(U)}
<1>1. Bad = {}
  <2> SUFFICES ASSUME Bad # {} PROVE FALSE
    OBVIOUS
  <2>1. PICK m \in Bad : \A k \in Bad : m <= k
    BY LeastNumber
  <2>2. PICK U \in SUBSET Int : Sized(U, m) /\ ~HasGreatest(U)
    BY <2>1
  <2>3. PICK u \in U : TRUE
    BY <2>2
  <2> DEFINE V == U \ {u}
  <2>4. IsFiniteSet(V) /\ Cardinality(V) = m - 1
    BY <2>2, <2>3, FS_RemoveElement
  <2>5. V # {}
    <3>1. ASSUME V = {} PROVE FALSE
      <4>1. U = {u} /\ u \in Int
        BY <2>3, <3>1
      <4>2. HasGreatest(U)
        BY <4>1
      <4> QED
        BY <4>2, <2>2
    <3> QED
      BY <3>1
  <2>6. m - 1 \in Nat
    BY <2>4, FS_CardinalityType
  <2>7. V \in SUBSET Int
    OBVIOUS
  <2>8. HasGreatest(V)
    <3>1. m - 1 \notin Bad
      BY <2>1, <2>6
    <3>2. Sized(V, m - 1)
      BY <2>4, <2>5
    <3> QED
      BY <3>1, <3>2, <2>6, <2>7
  <2>9. PICK v \in V : \A y \in V : v >= y
    BY <2>8
  <2>10. HasGreatest(U)
    <3>1. u \in Int /\ v \in Int /\ \A y \in V : y \in Int
      BY <2>3, <2>9
    <3>2. CASE u >= v
      <4>1. \A y \in V : u >= y
        BY <3>1, <3>2, <2>9
      <4>2. \A y \in U : u >= y
        BY <4>1, <3>1
      <4> QED
        BY <4>2, <2>3
    <3>3. CASE v >= u
      <4>1. \A y \in U : v >= y
        BY <3>3, <2>9
      <4> QED
        BY <4>1, <2>9
    <3> QED
      BY <3>1, <3>2, <3>3
  <2> QED
    BY <2>2, <2>10
<1>2. Cardinality(S) \in Nat /\ Sized(S, Cardinality(S))
  BY FS_CardinalityType
<1>3. HasGreatest(S)
  BY <1>1, <1>2
<1> QED
  BY <1>3 DEF Max

LEMMA FinitePair ==
  ASSUME NEW a, NEW b
  PROVE  IsFiniteSet({a, b})
<1>1. {a, b} = {a} \cup {b}
  OBVIOUS
<1>2. IsFiniteSet({a})
  BY FS_Singleton
<1>3. IsFiniteSet({a} \cup {b})
  BY <1>2, FS_AddElement
<1> QED
  BY <1>1, <1>3

(* A maximum of two, the form the clock uses.                                 *)
LEMMA MaxOfTwo ==
  ASSUME NEW a \in Int, NEW b \in Int
  PROVE  Max({a, b}) = IF a >= b THEN a ELSE b
<1>1. {a, b} \in SUBSET Int /\ {a, b} # {} /\ IsFiniteSet({a, b})
  BY FinitePair
<1>2. Max({a, b}) \in {a, b} /\ \A y \in {a, b} : y <= Max({a, b})
  BY <1>1, GreatestOf
<1> HIDE DEF Max
<1> QED
  BY <1>2

LEMMA MinOfTwo ==
  ASSUME NEW a \in Int, NEW b \in Int
  PROVE  Min({a, b}) = IF a <= b THEN a ELSE b
<1>1. \E x \in {a, b} : \A y \in {a, b} : x <= y
  <2>1. a <= b \/ b <= a
    OBVIOUS
  <2> QED
    BY <2>1
<1>2. Min({a, b}) \in {a, b} /\ \A y \in {a, b} : Min({a, b}) <= y
  BY <1>1 DEF Min
<1> HIDE DEF Min
<1> QED
  BY <1>2

-----------------------------------------------------------------------------
(* What a row records *)

(* No token, no change; and two tokens of a row are recorded in an order that *)
(* depends on neither tracker nor cycle.                                      *)
LEMMA RowUnrolled ==
  ASSUME NEW S
  PROVE  \A T, at :
           RecordRow(T, S, at)
             = (CHOOSE g : g = [s \in SUBSET S |->
                  IF s = {} THEN T
                  ELSE LET x == CHOOSE x \in s : TRUE IN RecordWrites(g[s \ {x}], x, at)])[S]
BY DEF RecordRow, FoldSet, MapThenFoldSet

LEMMA EmptyRow ==
  ASSUME NEW T, NEW at
  PROVE  RecordRow(T, {}, at) = T
<1> DEFINE Fits(g) == g = [s \in SUBSET {} |->
                 IF s = {} THEN T
                 ELSE LET x == CHOOSE x \in s : TRUE IN RecordWrites(g[s \ {x}], x, at)]
           f == [s \in SUBSET {} |-> T]
           h == CHOOSE g : Fits(g)
<1>1. Fits(f)
  OBVIOUS
<1>2. Fits(h)
  BY <1>1
<1>3. RecordRow(T, {}, at) = h[{}]
  BY RowUnrolled
<1> QED
  BY <1>2, <1>3

RecordsInOrder(row, y, x) ==
  /\ row = {x, y}
  /\ \/ /\ x = y
        /\ \A T, at : RecordRow(T, row, at) = RecordWrites(T, x, at)
     \/ /\ x # y
        /\ \A T, at : RecordRow(T, row, at) = RecordWrites(RecordWrites(T, y, at), x, at)

LEMMA RowOrder ==
  ASSUME NEW a, NEW b
  PROVE  \E x, y : RecordsInOrder({a, b}, y, x)
<1> DEFINE S == {a, b}
           First(s) == CHOOSE x \in s : TRUE
           Fits(T, at, g) == g = [s \in SUBSET S |->
                IF s = {} THEN T
                ELSE LET x == CHOOSE x \in s : TRUE IN RecordWrites(g[s \ {x}], x, at)]
           f(T, at) == [s \in SUBSET S |->
                IF s = {} THEN T
                ELSE IF s \ {First(s)} = {} THEN RecordWrites(T, First(s), at)
                ELSE RecordWrites(RecordWrites(T, First(s \ {First(s)}), at), First(s), at)]
           h(T, at) == CHOOSE g : Fits(T, at, g)
<1>1. \A s \in SUBSET S : s # {} => First(s) \in s
  OBVIOUS
<1>2. ASSUME NEW T, NEW at PROVE Fits(T, at, f(T, at))
  <2>1. ASSUME NEW s \in SUBSET S, s # {}
        PROVE  f(T, at)[s] = RecordWrites(f(T, at)[s \ {First(s)}], First(s), at)
    <3>1. s \ {First(s)} \in SUBSET S /\ First(s) \in s
      BY <1>1, <2>1
    <3>2. CASE s \ {First(s)} = {}
      <4>1. f(T, at)[s \ {First(s)}] = T
        BY <3>2
      <4> QED
        BY <4>1, <2>1, <3>2
    <3>3. CASE s \ {First(s)} # {}
      <4> DEFINE r == s \ {First(s)}
      <4>1. First(r) \in r
        BY <1>1, <3>1, <3>3
      <4>2. r \ {First(r)} = {}
        BY <4>1, <3>1
      <4>3. f(T, at)[r] = RecordWrites(T, First(r), at)
        BY <3>1, <3>3, <4>2
      <4> QED
        BY <4>3, <2>1, <3>3
    <3> QED
      BY <3>2, <3>3
  <2>2. f(T, at)[{}] = T
    OBVIOUS
  <2> DEFINE F == f(T, at)
  <2>3. F = [s \in SUBSET S |-> F[s]]
    OBVIOUS
  <2>4. \A s \in SUBSET S : F[s] = IF s = {} THEN T
                ELSE LET x == CHOOSE x \in s : TRUE IN RecordWrites(F[s \ {x}], x, at)
    BY <2>1, <2>2
  <2> HIDE DEF F
  <2>5. Fits(T, at, F)
    BY <2>3, <2>4
  <2> QED
    BY <2>5 DEF F
<1>3. ASSUME NEW T, NEW at
      PROVE  /\ RecordRow(T, S, at) = h(T, at)[S]
             /\ Fits(T, at, h(T, at))
  <2>1. RecordRow(T, S, at) = h(T, at)[S]
    BY RowUnrolled
  <2>2. Fits(T, at, f(T, at))
    BY <1>2
  <2> HIDE DEF Fits, f
  <2>3. Fits(T, at, h(T, at))
    BY <2>2
  <2> QED
    BY <2>1, <2>3
<1> HIDE DEF h, Fits
<1>7. ASSUME NEW T, NEW at
      PROVE  /\ h(T, at)[{}] = T
             /\ \A s \in SUBSET S : s # {} => h(T, at)[s] = RecordWrites(h(T, at)[s \ {First(s)}], First(s), at)
  <2> DEFINE H == h(T, at)
  <2>1. Fits(T, at, H)
    BY <1>3
  <2> HIDE DEF H
  <2>2. /\ H[{}] = T
        /\ \A s \in SUBSET S : s # {} => H[s] = RecordWrites(H[s \ {First(s)}], First(s), at)
    BY <2>1 DEF Fits
  <2> QED
    BY <2>2 DEF H
<1> DEFINE x == First(S)
<1>4. x \in S
  BY <1>1
<1>5. CASE S = {x}
  <2>1. S \ {x} = {}
    BY <1>5
  <2>2. ASSUME NEW T, NEW at PROVE RecordRow(T, S, at) = RecordWrites(T, x, at)
    <3>1. h(T, at)[S] = RecordWrites(h(T, at)[S \ {x}], x, at)
      BY <1>7
    <3>2. h(T, at)[{}] = T
      BY <1>7
    <3> QED
      BY <3>1, <3>2, <2>1, <1>3
  <2>3. {x, x} = {a, b}
    BY <1>5
  <2> HIDE DEF x
  <2> QED
    BY <2>2, <2>3 DEF RecordsInOrder
<1>6. CASE S # {x}
  <2> DEFINE y == First(S \ {x})
  <2>1. S \ {x} \in SUBSET S /\ S \ {x} # {}
    BY <1>4, <1>6
  <2>2. y \in S /\ y # x
    BY <1>1, <2>1
  <2>3. S = {x, y} /\ (S \ {x}) \ {y} = {}
    BY <1>4, <2>2
  <2>4. ASSUME NEW T, NEW at PROVE RecordRow(T, S, at) = RecordWrites(RecordWrites(T, y, at), x, at)
    <3>1. h(T, at)[S] = RecordWrites(h(T, at)[S \ {x}], x, at)
      BY <1>7
    <3>2. h(T, at)[S \ {x}] = RecordWrites(h(T, at)[(S \ {x}) \ {y}], y, at)
      BY <1>7, <2>1
    <3>3. h(T, at)[{}] = T
      BY <1>7
    <3> QED
      BY <3>1, <3>2, <3>3, <2>3, <1>3
  <2> QED
    BY <2>2, <2>3, <2>4 DEF RecordsInOrder
<1> QED
  BY <1>5, <1>6

(* A result is as many cycles behind its row as the instruction says, wherever *)
(* the row stands.                                                            *)
LEMMA ReadyAhead ==
  ASSUME NEW t \in Instruction
  PROVE  \E d \in Int : \A at \in Int : ReadyCycle(t, at) = at + d
<1>1. t.latency \in Nat /\ IntegerLoadReady \in Nat
  BY LatencyAssumption DEF Instruction
<1>2. CASE IntegerLoadReady > 0 /\ t.access.memoryKind = "LOAD"
  <2> DEFINE d == IF t.latency + 1 <= IntegerLoadReady THEN t.latency + 1 ELSE IntegerLoadReady
  <2>1. d \in Int
    BY <1>1
  <2>2. ASSUME NEW at \in Int PROVE ReadyCycle(t, at) = at + d
    <3>1. at + t.latency + 1 \in Int /\ at + IntegerLoadReady \in Int
      BY <1>1
    <3>2. Min({at + t.latency + 1, at + IntegerLoadReady})
            = IF at + t.latency + 1 <= at + IntegerLoadReady
                THEN at + t.latency + 1 ELSE at + IntegerLoadReady
      BY <3>1, MinOfTwo
    <3> QED
      BY <1>1, <1>2, <3>2 DEF ReadyCycle
  <2> QED
    BY <2>1, <2>2
<1>3. CASE ~(IntegerLoadReady > 0 /\ t.access.memoryKind = "LOAD")
  <2>1. \A at \in Int : ReadyCycle(t, at) = at + (t.latency + 1)
    BY <1>1, <1>3 DEF ReadyCycle
  <2>2. t.latency + 1 \in Int
    BY <1>1
  <2> QED
    BY <2>1, <2>2
<1> QED
  BY <1>2, <1>3

LEMMA InstructionTyped ==
  ASSUME NEW t \in Instruction
  PROVE  /\ t.access \in TokenType
         /\ t.access.registerReads \subseteq Register
         /\ t.access.registerWrites \subseteq Register
         /\ t.form \in Form /\ t.latency \in Nat
BY DEF Instruction, TokenType, TokenRecord

LEMMA RecordTyped ==
  ASSUME NEW T \in Tracker, NEW t \in Instruction, NEW at \in Int
  PROVE  RecordWrites(T, t, at) \in Tracker
<1>1. ReadyCycle(t, at) \in Int
  BY ReadyAhead
<1>2. t.form \in Form
  BY DEF Instruction
<1> DEFINE written == IF t.latency > 1 THEN t.access.registerWrites ELSE {}
           ready == [r \in Register |-> IF r \in written THEN ReadyCycle(t, at) ELSE T.ready[r]]
           producer == [r \in Register |-> IF r \in written THEN t.form ELSE T.producer[r]]
<1>3. T.ready \in [Register -> Int] /\ T.producer \in [Register -> Form \cup {"NONE"}]
  BY DEF Tracker
<1>4. ready \in [Register -> Int]
  BY <1>1, <1>3
<1>5. producer \in [Register -> Form \cup {"NONE"}]
  BY <1>2, <1>3
<1>6. T.q \in Int /\ T.p \in Int /\ T.mac \in Int /\ T.status \in Int /\ T.clip \in Int
  BY DEF Tracker
<1> DEFINE At(res, old) == IF TokenWrites(t, res) THEN at ELSE old
           Ready1(res, old) == IF t.latency > 1 /\ TokenWrites(t, res) THEN ReadyCycle(t, at) ELSE old
<1>7. RecordWrites(T, t, at)
        = [ ready |-> ready, producer |-> producer,
            q |-> Ready1("Q", T.q), p |-> Ready1("P", T.p),
            mac |-> At("MAC", T.mac), status |-> At("STATUS", T.status), clip |-> At("CLIP", T.clip) ]
  BY DEF RecordWrites
<1>8. /\ Ready1("Q", T.q) \in Int /\ Ready1("P", T.p) \in Int
      /\ At("MAC", T.mac) \in Int /\ At("STATUS", T.status) \in Int /\ At("CLIP", T.clip) \in Int
  BY <1>1, <1>6
<1> HIDE DEF ready, producer, At, Ready1
<1> QED
  BY <1>4, <1>5, <1>7, <1>8 DEF Tracker

-----------------------------------------------------------------------------
(* Two clocks                                                                 *)

(* What is still to wait on the machine is no more than on the tracker; and   *)
(* is the same, or over on both.                                              *)
NotLater(real, known) == real <= known \/ real <= 0
SameWait(real, known) == real = known \/ (real <= 0 /\ known <= 0)

(* The machine m stands with tracker M where the scheduler stands at cycle c   *)
(* with tracker T.  The two clocks count the same words where no stall of the  *)
(* machine is left out of them: exact.                                        *)
InStep(exact, T, c, M, m) ==
  /\ NotLater(M.q - m, T.q - c) /\ NotLater(M.p - m, T.p - c)
  /\ exact => SameWait(M.q - m, T.q - c) /\ SameWait(M.p - m, T.p - c)
  /\ ~FmacInterlock =>
       /\ M.producer = T.producer
       /\ \A r \in Register : NotLater(M.ready[r] - m, T.ready[r] - c)
       /\ NotLater(M.mac + FlagLatency - m, T.mac + FlagLatency - c)
       /\ NotLater(M.status + FlagLatency - m, T.status + FlagLatency - c)
       /\ NotLater(M.clip + ClipLatency - m, T.clip + ClipLatency - c)

LEMMA TrackerFields ==
  ASSUME NEW T \in Tracker
  PROVE  /\ T.q \in Int /\ T.p \in Int /\ T.mac \in Int /\ T.status \in Int /\ T.clip \in Int
         /\ \A r \in Register : T.ready[r] \in Int
         /\ \A r \in Register : T.producer[r] \in Form \cup {"NONE"}
BY DEF Tracker

(* As many cycles on both.                                                    *)
LEMMA InStepTick ==
  ASSUME NEW exact, NEW T \in Tracker, NEW M \in Tracker, NEW c \in Int, NEW m \in Int,
         InStep(exact, T, c, M, m), NEW d \in Nat
  PROVE  InStep(exact, T, c + d, M, m + d)
<1>1. FlagLatency \in Nat /\ ClipLatency \in Nat
  BY LatencyAssumption
<1>2. ASSUME NEW a \in Int, NEW b \in Int, NotLater(a - m, b - c) PROVE NotLater(a - (m + d), b - (c + d))
  BY <1>2 DEF NotLater
<1>3. ASSUME NEW a \in Int, NEW b \in Int, SameWait(a - m, b - c) PROVE SameWait(a - (m + d), b - (c + d))
  BY <1>3 DEF SameWait
<1> HIDE DEF NotLater, SameWait
<1>5. NotLater(M.q - (m + d), T.q - (c + d)) /\ NotLater(M.p - (m + d), T.p - (c + d))
  BY <1>2, TrackerFields DEF InStep
<1>6. exact => SameWait(M.q - (m + d), T.q - (c + d)) /\ SameWait(M.p - (m + d), T.p - (c + d))
  BY <1>3, TrackerFields DEF InStep
<1>7. ASSUME ~FmacInterlock
      PROVE  /\ M.producer = T.producer
             /\ \A r \in Register : NotLater(M.ready[r] - (m + d), T.ready[r] - (c + d))
             /\ NotLater(M.mac + FlagLatency - (m + d), T.mac + FlagLatency - (c + d))
             /\ NotLater(M.status + FlagLatency - (m + d), T.status + FlagLatency - (c + d))
             /\ NotLater(M.clip + ClipLatency - (m + d), T.clip + ClipLatency - (c + d))
  <2>1. ASSUME NEW r \in Register PROVE NotLater(M.ready[r] - (m + d), T.ready[r] - (c + d))
    BY <1>2, <1>7, TrackerFields DEF InStep
  <2>2. /\ NotLater(M.mac + FlagLatency - (m + d), T.mac + FlagLatency - (c + d))
        /\ NotLater(M.status + FlagLatency - (m + d), T.status + FlagLatency - (c + d))
        /\ NotLater(M.clip + ClipLatency - (m + d), T.clip + ClipLatency - (c + d))
    BY <1>1, <1>7, TrackerFields DEF InStep, NotLater
  <2> QED
    BY <1>7, <2>1, <2>2 DEF InStep
<1> QED
  BY <1>5, <1>6, <1>7 DEF InStep

(* The machine stalls.                                                        *)
LEMMA InStepStall ==
  ASSUME NEW exact, NEW T \in Tracker, NEW M \in Tracker, NEW c \in Int, NEW m \in Int,
         InStep(exact, T, c, M, m), NEW at \in Int, at >= m,
         exact => at = m \/ (T.q <= c /\ T.p <= c)
  PROVE  InStep(exact, T, c, M, at)
<1>1. FlagLatency \in Nat /\ ClipLatency \in Nat
  BY LatencyAssumption
<1>2. ASSUME NEW a \in Int, NEW b \in Int, NotLater(a - m, b - c) PROVE NotLater(a - at, b - c)
  BY <1>2 DEF NotLater
<1>3. ASSUME NEW a \in Int, NEW b \in Int, SameWait(a - m, b - c), at = m \/ b <= c
      PROVE  SameWait(a - at, b - c)
  BY <1>3 DEF SameWait
<1> HIDE DEF NotLater, SameWait
<1>5. NotLater(M.q - at, T.q - c) /\ NotLater(M.p - at, T.p - c)
  BY <1>2, TrackerFields DEF InStep
<1>6. exact => SameWait(M.q - at, T.q - c) /\ SameWait(M.p - at, T.p - c)
  BY <1>3, TrackerFields DEF InStep
<1>7. ASSUME ~FmacInterlock
      PROVE  /\ M.producer = T.producer
             /\ \A r \in Register : NotLater(M.ready[r] - at, T.ready[r] - c)
             /\ NotLater(M.mac + FlagLatency - at, T.mac + FlagLatency - c)
             /\ NotLater(M.status + FlagLatency - at, T.status + FlagLatency - c)
             /\ NotLater(M.clip + ClipLatency - at, T.clip + ClipLatency - c)
  <2>1. ASSUME NEW r \in Register PROVE NotLater(M.ready[r] - at, T.ready[r] - c)
    BY <1>2, <1>7, TrackerFields DEF InStep
  <2>2. /\ NotLater(M.mac + FlagLatency - at, T.mac + FlagLatency - c)
        /\ NotLater(M.status + FlagLatency - at, T.status + FlagLatency - c)
        /\ NotLater(M.clip + ClipLatency - at, T.clip + ClipLatency - c)
    BY <1>1, <1>7, TrackerFields DEF InStep, NotLater
  <2> QED
    BY <1>7, <2>1, <2>2 DEF InStep
<1> QED
  BY <1>5, <1>6, <1>7 DEF InStep

(* Both record the same instruction.                                          *)
LEMMA InStepRecord ==
  ASSUME NEW exact, NEW T \in Tracker, NEW M \in Tracker, NEW c \in Int, NEW m \in Int,
         InStep(exact, T, c, M, m), NEW t \in Instruction
  PROVE  InStep(exact, RecordWrites(T, t, c), c, RecordWrites(M, t, m), m)
<1>1. PICK d \in Int : \A at \in Int : ReadyCycle(t, at) = at + d
  BY ReadyAhead
<1>2. ReadyCycle(t, m) - m = d /\ ReadyCycle(t, c) - c = d
  BY <1>1
<1>3. FlagLatency \in Nat /\ ClipLatency \in Nat
  BY LatencyAssumption
<1>4. \A a \in Int : NotLater(a, a) /\ SameWait(a, a)
  BY DEF NotLater, SameWait
<1> DEFINE R == RecordWrites(T, t, c)
           N == RecordWrites(M, t, m)
<1>13. R = RecordWrites(T, t, c) /\ N = RecordWrites(M, t, m)
  OBVIOUS
<1> HIDE DEF R, N
<1>5. /\ R.q = IF t.latency > 1 /\ TokenWrites(t, "Q") THEN ReadyCycle(t, c) ELSE T.q
      /\ R.p = IF t.latency > 1 /\ TokenWrites(t, "P") THEN ReadyCycle(t, c) ELSE T.p
      /\ R.mac = IF TokenWrites(t, "MAC") THEN c ELSE T.mac
      /\ R.status = IF TokenWrites(t, "STATUS") THEN c ELSE T.status
      /\ R.clip = IF TokenWrites(t, "CLIP") THEN c ELSE T.clip
  BY <1>13 DEF RecordWrites
<1>6. /\ N.q = IF t.latency > 1 /\ TokenWrites(t, "Q") THEN ReadyCycle(t, m) ELSE M.q
      /\ N.p = IF t.latency > 1 /\ TokenWrites(t, "P") THEN ReadyCycle(t, m) ELSE M.p
      /\ N.mac = IF TokenWrites(t, "MAC") THEN m ELSE M.mac
      /\ N.status = IF TokenWrites(t, "STATUS") THEN m ELSE M.status
      /\ N.clip = IF TokenWrites(t, "CLIP") THEN m ELSE M.clip
  BY <1>13 DEF RecordWrites
<1>7. /\ R.ready = [r \in Register |-> IF t.latency > 1 /\ r \in t.access.registerWrites
                                         THEN ReadyCycle(t, c) ELSE T.ready[r]]
      /\ R.producer = [r \in Register |-> IF t.latency > 1 /\ r \in t.access.registerWrites
                                            THEN t.form ELSE T.producer[r]]
  BY <1>13 DEF RecordWrites
<1>8. /\ N.ready = [r \in Register |-> IF t.latency > 1 /\ r \in t.access.registerWrites
                                         THEN ReadyCycle(t, m) ELSE M.ready[r]]
      /\ N.producer = [r \in Register |-> IF t.latency > 1 /\ r \in t.access.registerWrites
                                            THEN t.form ELSE M.producer[r]]
  BY <1>13 DEF RecordWrites
<1> HIDE DEF NotLater, SameWait
<1>9. NotLater(N.q - m, R.q - c) /\ NotLater(N.p - m, R.p - c)
  BY <1>2, <1>4, <1>5, <1>6 DEF InStep
<1>10. exact => SameWait(N.q - m, R.q - c) /\ SameWait(N.p - m, R.p - c)
  BY <1>2, <1>4, <1>5, <1>6 DEF InStep
<1>11. ASSUME ~FmacInterlock
       PROVE  /\ N.producer = R.producer
              /\ \A r \in Register : NotLater(N.ready[r] - m, R.ready[r] - c)
              /\ NotLater(N.mac + FlagLatency - m, R.mac + FlagLatency - c)
              /\ NotLater(N.status + FlagLatency - m, R.status + FlagLatency - c)
              /\ NotLater(N.clip + ClipLatency - m, R.clip + ClipLatency - c)
  <2>1. N.producer = R.producer
    BY <1>7, <1>8, <1>11 DEF InStep
  <2>2. ASSUME NEW r \in Register PROVE NotLater(N.ready[r] - m, R.ready[r] - c)
    <3>1. NotLater(M.ready[r] - m, T.ready[r] - c)
      BY <1>11 DEF InStep
    <3> QED
      BY <3>1, <1>2, <1>4, <1>7, <1>8
  <2>3. m + FlagLatency - m = FlagLatency /\ c + FlagLatency - c = FlagLatency
    BY <1>3
  <2>4. m + ClipLatency - m = ClipLatency /\ c + ClipLatency - c = ClipLatency
    BY <1>3
  <2>5. /\ NotLater(N.mac + FlagLatency - m, R.mac + FlagLatency - c)
        /\ NotLater(N.status + FlagLatency - m, R.status + FlagLatency - c)
    BY <1>3, <1>4, <1>5, <1>6, <1>11, <2>3 DEF InStep
  <2>6. NotLater(N.clip + ClipLatency - m, R.clip + ClipLatency - c)
    BY <1>3, <1>4, <1>5, <1>6, <1>11, <2>4 DEF InStep
  <2> QED
    BY <2>1, <2>2, <2>5, <2>6
<1> QED
  BY <1>9, <1>10, <1>11, <1>13 DEF InStep

(* Both record the same row, whichever of its two tokens comes first.         *)
Row == {{a, b} : a, b \in Instruction}

LEMMA RowTyped ==
  ASSUME NEW row \in Row, NEW T \in Tracker, NEW at \in Int
  PROVE  RecordRow(T, row, at) \in Tracker
<1>1. PICK a \in Instruction, b \in Instruction : row = {a, b}
  BY DEF Row
<1>2. PICK x, y : RecordsInOrder(row, y, x)
  BY <1>1, RowOrder
<1>3. x \in Instruction /\ y \in Instruction
  BY <1>1, <1>2 DEF RecordsInOrder
<1>4. RecordWrites(T, x, at) \in Tracker /\ RecordWrites(T, y, at) \in Tracker
  BY <1>3, RecordTyped
<1>5. RecordWrites(RecordWrites(T, y, at), x, at) \in Tracker
  BY <1>3, <1>4, RecordTyped
<1> QED
  BY <1>2, <1>4, <1>5 DEF RecordsInOrder

LEMMA InStepRow ==
  ASSUME NEW exact, NEW T \in Tracker, NEW M \in Tracker, NEW c \in Int, NEW m \in Int,
         InStep(exact, T, c, M, m), NEW row \in Row
  PROVE  InStep(exact, RecordRow(T, row, c), c, RecordRow(M, row, m), m)
<1>1. PICK a \in Instruction, b \in Instruction : row = {a, b}
  BY DEF Row
<1>2. PICK x, y : RecordsInOrder(row, y, x)
  BY <1>1, RowOrder
<1>3. x \in Instruction /\ y \in Instruction
  BY <1>1, <1>2 DEF RecordsInOrder
<1>4. CASE \A U, at : RecordRow(U, row, at) = RecordWrites(U, x, at)
  <2>1. InStep(exact, RecordWrites(T, x, c), c, RecordWrites(M, x, m), m)
    BY <1>3, InStepRecord
  <2> QED
    BY <1>4, <2>1
<1>5. CASE \A U, at : RecordRow(U, row, at) = RecordWrites(RecordWrites(U, y, at), x, at)
  <2> DEFINE U == RecordWrites(T, y, c)
             N == RecordWrites(M, y, m)
  <2>1. InStep(exact, U, c, N, m)
    BY <1>3, InStepRecord
  <2>2. U \in Tracker /\ N \in Tracker
    BY <1>3, RecordTyped
  <2> HIDE DEF U, N
  <2>3. InStep(exact, RecordWrites(U, x, c), c, RecordWrites(N, x, m), m)
    BY <1>3, <2>1, <2>2, InStepRecord
  <2> QED
    BY <1>5, <2>3 DEF U, N
<1> QED
  BY <1>2, <1>4, <1>5 DEF RecordsInOrder

-----------------------------------------------------------------------------
(* What a row waits for *)

(* The forwarding paths of a row into a register it reads.                    *)
Bypasses(producer, row, r) ==
  {BypassReduction(producer, t.form) : t \in {u \in row : r \in u.access.registerReads}}

LEMMA BypassFacts ==
  ASSUME NEW row, NEW r \in RegisterReads(row), NEW producer
  PROVE  /\ Max(Bypasses(producer, row, r)) \in Nat
         /\ \A t \in row : r \in t.access.registerReads =>
              BypassReduction(producer, t.form) <= Max(Bypasses(producer, row, r))
         /\ \E t \in row : /\ r \in t.access.registerReads
                           /\ Max(Bypasses(producer, row, r)) = BypassReduction(producer, t.form)
<1> DEFINE B == Bypasses(producer, row, r)
<1>1. \A form : BypassReduction(producer, form) \in {0, 2, 3}
  BY DEF BypassReduction
<1>2. B \in SUBSET (0 .. 3)
  BY <1>1 DEF Bypasses
<1>3. B # {}
  BY DEF RegisterReads, Bypasses
<1>4. IsFiniteSet(B)
  <2>1. IsFiniteSet(0 .. 3)
    <3>1. 0 \in Int /\ 3 \in Int
      OBVIOUS
    <3> QED
      BY <3>1, FS_Interval
  <2> HIDE DEF B
  <2> QED
    BY <1>2, <2>1, FS_Subset
<1>5. B \in SUBSET Int
  BY <1>2
<1>6. Max(B) \in B /\ \A y \in B : y <= Max(B)
  BY <1>3, <1>4, <1>5, GreatestOf
<1>7. Max(B) \in Nat
  BY <1>2, <1>6
<1>8. \A t \in row : r \in t.access.registerReads => BypassReduction(producer, t.form) \in B
  BY DEF Bypasses
<1>9. \E t \in row : r \in t.access.registerReads /\ Max(B) = BypassReduction(producer, t.form)
  <2>1. \A y \in B : \E t \in row : r \in t.access.registerReads /\ y = BypassReduction(producer, t.form)
    BY DEF Bypasses
  <2> HIDE DEF B
  <2> QED
    BY <2>1, <1>6
<1> HIDE DEF B
<1> QED
  BY <1>6, <1>7, <1>8, <1>9 DEF B

LEMMA ReadyTyped ==
  ASSUME NEW row \in Row, NEW T \in Tracker, NEW r \in RegisterReads(row)
  PROVE  /\ r \in Register
         /\ RegisterReady(T, row, r) = T.ready[r] - Max(Bypasses(T.producer[r], row, r))
         /\ RegisterReady(T, row, r) \in Int
<1>1. r \in Register
  BY InstructionTyped DEF Row, RegisterReads
<1>2. RegisterReady(T, row, r) = T.ready[r] - Max(Bypasses(T.producer[r], row, r))
  BY DEF RegisterReady, Bypasses
<1>3. Max(Bypasses(T.producer[r], row, r)) \in Nat
  BY BypassFacts
<1>4. T.ready[r] \in Int
  BY <1>1, TrackerFields
<1> QED
  BY <1>1, <1>2, <1>3, <1>4

LEMMA FiniteImage ==
  ASSUME NEW f, NEW S, IsFiniteSet(S)
  PROVE  IsFiniteSet({f[x] : x \in S})
<1> DEFINE T == {f[x] : x \in S}
           g == [x \in S |-> f[x]]
<1>1. g \in Surjection(S, T)
  BY DEF Surjection
<1> HIDE DEF g, T
<1>2. IsFiniteSet(T)
  BY <1>1, FS_Surjection
<1> QED
  BY <1>2 DEF T

(* A row is ready once the wait the code computes for it is over: for all it   *)
(* reads, or, of the registers, for those the hardware does not stall for.    *)
PipeReady(T, row, c) ==
  /\ RowReads(row, "Q") => T.q <= c
  /\ RowReads(row, "P") => T.p <= c

FlagReady(T, row, c) ==
  /\ RowReads(row, "MAC") => T.mac + FlagLatency <= c
  /\ RowReads(row, "STATUS") => T.status + FlagLatency <= c
  /\ RowReads(row, "CLIP") => T.clip + ClipLatency <= c

RegistersReady(T, row, c) == \A r \in RegisterReads(row) : RegisterReady(T, row, r) <= c

LEMMA GapFacts ==
  ASSUME NEW needed \in BOOLEAN, NEW ready \in Int, NEW c \in Int
  PROVE  /\ Gap(needed, ready, c) \in Int
         /\ Gap(needed, ready, c) <= 0 <=> (needed => ready <= c)
BY DEF Gap

(* The registers the row reads are ready; the manual variant leaves out those *)
(* the hardware stalls for.                                                   *)
ReadyBut(T, row, c, manual) ==
  \A r \in RegisterReads(row) : (manual /\ Interlocked(T, row, r)) \/ RegisterReady(T, row, r) <= c

LEMMA OperandWait ==
  ASSUME NEW row \in Row, NEW T \in Tracker, NEW c \in Int, NEW manual
  PROVE  /\ OperandDelay(T, row, c, manual) \in Nat
         /\ OperandDelay(T, row, c, manual) <= 0
              <=> PipeReady(T, row, c) /\ ReadyBut(T, row, c, manual)
<1> DEFINE R == {r \in RegisterReads(row) : ~(manual /\ Interlocked(T, row, r))}
           f == [r \in R |-> RegisterReady(T, row, r) - c]
           A == {f[r] : r \in R}
           G == {0, Gap(RowReads(row, "Q"), T.q, c), Gap(RowReads(row, "P"), T.p, c)}
           S == G \cup A
<1>1. A = {RegisterReady(T, row, r) - c : r \in R}
  OBVIOUS
<1>2. OperandDelay(T, row, c, manual) = Max(S)
  BY <1>1 DEF OperandDelay
<1>3. R \in SUBSET Register
  BY ReadyTyped
<1>4. IsFiniteSet(A)
  <2>1. IsFiniteSet(R)
    BY <1>3, RegisterAssumption, FS_Subset
  <2> HIDE DEF f, R
  <2> QED
    BY <2>1, FiniteImage
<1>5. A \in SUBSET Int
  BY ReadyTyped
<1>6. T.q \in Int /\ T.p \in Int
  BY TrackerFields
<1>7. G \in SUBSET Int
  BY <1>6 DEF Gap
<1>8. IsFiniteSet(G)
  <2> DEFINE q == Gap(RowReads(row, "Q"), T.q, c)
             p == Gap(RowReads(row, "P"), T.p, c)
  <2>1. IsFiniteSet({0, q})
    BY FinitePair
  <2>2. IsFiniteSet({0, q} \cup {p})
    BY <2>1, FS_AddElement
  <2>3. G = {0, q} \cup {p}
    OBVIOUS
  <2> HIDE DEF G, q, p
  <2> QED
    BY <2>2, <2>3
<1>9. IsFiniteSet(S) /\ S \in SUBSET Int /\ 0 \in S
  <2> HIDE DEF A
  <2>1. 0 \in G
    OBVIOUS
  <2> HIDE DEF G
  <2> QED
    BY <1>4, <1>5, <1>7, <1>8, <2>1, FS_Union
<1>10. Max(S) \in S /\ \A y \in S : y <= Max(S)
  <2> HIDE DEF S
  <2> QED
    BY <1>9, GreatestOf
<1>11. Max(S) \in Nat
  BY <1>9, <1>10
<1>12. Max(S) <= 0 <=> \A y \in S : y <= 0
  <2> HIDE DEF S
  <2>1. \A y \in S : y \in Int
    BY <1>9
  <2> QED
    BY <1>10, <1>11, <2>1
<1>13. (\A y \in G : y <= 0) <=> PipeReady(T, row, c)
  <2>1. (\A y \in G : y <= 0) <=> /\ Gap(RowReads(row, "Q"), T.q, c) <= 0
                                 /\ Gap(RowReads(row, "P"), T.p, c) <= 0
    OBVIOUS
  <2> QED
    BY <2>1, <1>6 DEF Gap, PipeReady
<1>14. (\A y \in A : y <= 0) <=> ReadyBut(T, row, c, manual)
  <2>1. \A r \in RegisterReads(row) :
          r \in Register /\ (RegisterReady(T, row, r) - c <= 0 <=> RegisterReady(T, row, r) <= c)
    BY ReadyTyped
  <2>2. (\A y \in A : y <= 0) <=> \A r \in R : RegisterReady(T, row, r) - c <= 0
    BY <1>1
  <2>3. \A r : r \in R <=> r \in RegisterReads(row) /\ ~(manual /\ Interlocked(T, row, r))
    OBVIOUS
  <2> HIDE DEF R, A
  <2> QED
    BY <2>1, <2>2, <2>3 DEF ReadyBut
<1>15. (\A y \in S : y <= 0) <=> (\A y \in G : y <= 0) /\ (\A y \in A : y <= 0)
  <2> HIDE DEF G, A
  <2> QED
    OBVIOUS
<1> HIDE DEF S, G, A
<1> QED
  BY <1>2, <1>11, <1>12, <1>13, <1>14, <1>15

LEMMA FlagWait ==
  ASSUME NEW row, NEW T \in Tracker, NEW c \in Int
  PROVE  /\ FlagDelay(T, row, c) \in Nat
         /\ FlagDelay(T, row, c) <= 0 <=> FlagReady(T, row, c)
<1> DEFINE m == Gap(RowReads(row, "MAC"), T.mac + FlagLatency, c)
           s == Gap(RowReads(row, "STATUS"), T.status + FlagLatency, c)
           l == Gap(RowReads(row, "CLIP"), T.clip + ClipLatency, c)
           S == {0, m, s, l}
<1>1. FlagDelay(T, row, c) = Max(S)
  BY DEF FlagDelay
<1>2. FlagLatency \in Nat /\ ClipLatency \in Nat
  BY LatencyAssumption
<1>3. T.mac \in Int /\ T.status \in Int /\ T.clip \in Int
  BY TrackerFields
<1>4. \A res : RowReads(row, res) \in BOOLEAN
  BY DEF RowReads
<1>5. /\ m \in Int /\ (m <= 0 <=> (RowReads(row, "MAC") => T.mac + FlagLatency <= c))
      /\ s \in Int /\ (s <= 0 <=> (RowReads(row, "STATUS") => T.status + FlagLatency <= c))
      /\ l \in Int /\ (l <= 0 <=> (RowReads(row, "CLIP") => T.clip + ClipLatency <= c))
  <2>1. T.mac + FlagLatency \in Int /\ T.status + FlagLatency \in Int /\ T.clip + ClipLatency \in Int
    BY <1>2, <1>3
  <2> QED
    BY <2>1, <1>4, GapFacts
<1> HIDE DEF m, s, l
<1>6. S = {0, m} \cup {s, l}
  OBVIOUS
<1>7. IsFiniteSet(S)
  <2>1. IsFiniteSet({0, m}) /\ IsFiniteSet({s, l})
    BY FinitePair
  <2>2. IsFiniteSet({0, m} \cup {s, l})
    BY <2>1, FS_Union
  <2> QED
    BY <1>6, <2>2
<1>8. S \in SUBSET Int /\ S # {} /\ 0 \in S
  BY <1>5
<1>9. Max(S) \in S /\ \A y \in S : y <= Max(S)
  BY <1>7, <1>8, GreatestOf
<1>10. Max(S) \in Nat
  BY <1>8, <1>9
<1>11. Max(S) <= 0 <=> m <= 0 /\ s <= 0 /\ l <= 0
  BY <1>5, <1>9, <1>10
<1>12. m <= 0 /\ s <= 0 /\ l <= 0 <=> FlagReady(T, row, c)
  BY <1>5 DEF FlagReady
<1> QED
  BY <1>1, <1>10, <1>11, <1>12

LEMMA HazardWait ==
  ASSUME NEW row \in Row, NEW T \in Tracker, NEW c \in Int, NEW manual
  PROVE  /\ HazardDelay(T, row, c, manual) \in Nat
         /\ HazardDelay(T, row, c, manual) <= 0
              <=> PipeReady(T, row, c) /\ FlagReady(T, row, c) /\ ReadyBut(T, row, c, manual)
<1> DEFINE needed == OperandDelay(T, row, c, manual)
<1>1. needed \in Nat
  BY OperandWait
<1>2. HazardDelay(T, row, c, manual) = needed + FlagDelay(T, row, c + needed)
  BY DEF HazardDelay
<1> HIDE DEF needed
<1>3. FlagDelay(T, row, c + needed) \in Nat
  BY <1>1, FlagWait
<1>4. HazardDelay(T, row, c, manual) <= 0 <=> needed = 0 /\ FlagDelay(T, row, c + needed) = 0
  BY <1>1, <1>2, <1>3
<1>5. needed = 0 => c + needed = c
  OBVIOUS
<1>6. needed = 0 <=> PipeReady(T, row, c) /\ ReadyBut(T, row, c, manual)
  <2>1. needed <= 0 <=> PipeReady(T, row, c) /\ ReadyBut(T, row, c, manual)
    BY OperandWait DEF needed
  <2> QED
    BY <1>1, <2>1
<1>7. FlagDelay(T, row, c) = 0 <=> FlagReady(T, row, c)
  <2>1. FlagDelay(T, row, c) \in Nat /\ (FlagDelay(T, row, c) <= 0 <=> FlagReady(T, row, c))
    BY FlagWait
  <2> QED
    BY <2>1
<1> QED
  BY <1>1, <1>2, <1>3, <1>4, <1>5, <1>6, <1>7

(* Where nothing is left out, all registers are ready.                        *)
LEMMA ReadyAll ==
  ASSUME NEW T, NEW row, NEW c, NEW manual, manual = FALSE
  PROVE  ReadyBut(T, row, c, manual) <=> RegistersReady(T, row, c)
BY DEF ReadyBut, RegistersReady

-----------------------------------------------------------------------------
(* A slot on the machine *)

MachineState == [tracker : Tracker, cycle : Int]

AnyRow == Row \cup {{}}

LEMMA StallFacts ==
  ASSUME NEW M \in MachineState, NEW row \in AnyRow
  PROVE  /\ StallEnds(M, row) \in SUBSET Int
         /\ IsFiniteSet(StallEnds(M, row))
         /\ row = {} => StallEnds(M, row) = {}
<1> DEFINE R == {s \in RegisterReads(row) : Interlocked(M.tracker, row, s)}
           f == [r \in R |-> RegisterReady(M.tracker, row, r)]
<1>1. StallEnds(M, row) = {f[r] : r \in R}
  BY DEF StallEnds
<1>2. M.tracker \in Tracker
  BY DEF MachineState
<1>3. row = {} => RegisterReads(row) = {}
  BY DEF RegisterReads
<1>4. \A r \in RegisterReads(row) : r \in Register /\ RegisterReady(M.tracker, row, r) \in Int
  BY <1>2, <1>3, ReadyTyped DEF AnyRow
<1>5. IsFiniteSet(R)
  <2>1. R \in SUBSET Register
    BY <1>4
  <2> HIDE DEF R
  <2> QED
    BY <2>1, RegisterAssumption, FS_Subset
<1>6. {f[r] : r \in R} \in SUBSET Int
  BY <1>4
<1>7. row = {} => {f[r] : r \in R} = {}
  BY <1>3
<1> HIDE DEF f, R
<1>8. IsFiniteSet({f[r] : r \in R})
  BY <1>5, FiniteImage
<1> QED
  BY <1>1, <1>6, <1>7, <1>8

(* When a row issues: when its wait is over, or later if the machine stalls.  *)
LEMMA WaitFacts ==
  ASSUME NEW M \in MachineState, NEW padding
  PROVE  /\ WaitEnd(M, padding) \in Int
         /\ WaitEnd(M, padding) >= M.cycle
         /\ padding = "WAITQ" => WaitEnd(M, padding) = IF M.cycle >= M.tracker.q THEN M.cycle ELSE M.tracker.q
         /\ padding = "WAITP" => WaitEnd(M, padding) = IF M.cycle >= M.tracker.p THEN M.cycle ELSE M.tracker.p
         /\ padding \notin {"WAITQ", "WAITP"} => WaitEnd(M, padding) = M.cycle
<1>1. M.cycle \in Int /\ M.tracker.q \in Int /\ M.tracker.p \in Int
  BY TrackerFields DEF MachineState
<1>2. Max({M.cycle, M.tracker.q}) = IF M.cycle >= M.tracker.q THEN M.cycle ELSE M.tracker.q
  BY <1>1, MaxOfTwo
<1>3. Max({M.cycle, M.tracker.p}) = IF M.cycle >= M.tracker.p THEN M.cycle ELSE M.tracker.p
  BY <1>1, MaxOfTwo
<1> HIDE DEF Max
<1> QED
  BY <1>1, <1>2, <1>3 DEF WaitEnd

LEMMA IssueFacts ==
  ASSUME NEW M \in MachineState, NEW row \in AnyRow, NEW padding, NEW s \in BOOLEAN
  PROVE  /\ IssueAt(M, row, padding, s) \in Int
         /\ IssueAt(M, row, padding, s) >= WaitEnd(M, padding)
         /\ ~s => IssueAt(M, row, padding, s) = WaitEnd(M, padding)
         /\ (\A e \in StallEnds(M, row) : e <= WaitEnd(M, padding))
              => IssueAt(M, row, padding, s) = WaitEnd(M, padding)
<1> DEFINE w == WaitEnd(M, padding)
           E == IF s THEN StallEnds(M, row) ELSE {}
           S == {w} \cup E
<1>1. w \in Int
  BY WaitFacts
<1>2. E \in SUBSET Int /\ IsFiniteSet(E)
  BY StallFacts, FS_EmptySet
<1>3. IssueAt(M, row, padding, s) = Max(S)
  BY DEF IssueAt
<1>4. ~s => E = {}
  OBVIOUS
<1>5. (\A e \in StallEnds(M, row) : e <= w) => \A e \in E : e <= w
  OBVIOUS
<1> HIDE DEF w, E
<1>6. IsFiniteSet(S)
  <2>1. IsFiniteSet({w})
    BY FS_Singleton
  <2> QED
    BY <1>2, <2>1, FS_Union
<1>7. S \in SUBSET Int /\ S # {}
  BY <1>1, <1>2
<1>8. Max(S) \in S /\ \A y \in S : y <= Max(S)
  <2> HIDE DEF S
  <2> QED
    BY <1>6, <1>7, GreatestOf
<1> DEFINE m == Max(S)
<1>9. m \in S /\ (\A y \in S : y <= m) /\ m = IssueAt(M, row, padding, s)
  BY <1>3, <1>8
<1> HIDE DEF m
<1>10. m \in Int /\ w <= m
  BY <1>7, <1>9
<1>11. (\A e \in E : e <= w) => m = w
  BY <1>1, <1>2, <1>9, <1>10
<1>12. w = WaitEnd(M, padding)
  BY DEF w
<1> QED
  BY <1>1, <1>4, <1>5, <1>9, <1>10, <1>11, <1>12

LEMMA AnyRowTyped ==
  ASSUME NEW row \in AnyRow, NEW T \in Tracker, NEW at \in Int
  PROVE  RecordRow(T, row, at) \in Tracker
<1>1. CASE row \in Row
  BY <1>1, RowTyped
<1>2. CASE row = {}
  BY <1>2, EmptyRow
<1> QED
  BY <1>1, <1>2 DEF AnyRow

LEMMA RunFacts ==
  ASSUME NEW M \in MachineState, NEW row \in AnyRow, NEW slot, slot.padding # "NOP",
         NEW s \in BOOLEAN, NEW at, at = IssueAt(M, row, slot.padding, s)
  PROVE  /\ RunSlot(M, row, slot, s) \in MachineState
         /\ RunSlot(M, row, slot, s).tracker = RecordRow(M.tracker, row, at)
         /\ row \in Row => RunSlot(M, row, slot, s).cycle = at + 1
         /\ row = {} => RunSlot(M, row, slot, s).cycle = IF at >= M.cycle + 1 THEN at ELSE M.cycle + 1
<1>1. M.cycle \in Int /\ M.tracker \in Tracker
  BY DEF MachineState
<1>2. at \in Int /\ at >= M.cycle
  BY <1>1, IssueFacts, WaitFacts
<1>3. RunSlot(M, row, slot, s)
        = [ tracker |-> RecordRow(M.tracker, row, at),
            cycle   |-> Max({at, M.cycle + 1} \cup {at + 1 : t \in row}) ]
  BY DEF RunSlot
<1>4. RecordRow(M.tracker, row, at) \in Tracker
  BY <1>1, <1>2, AnyRowTyped
<1> DEFINE S == {at, M.cycle + 1} \cup {at + 1 : t \in row}
<1>5. CASE row \in Row
  <2>1. row # {}
    BY <1>5 DEF Row
  <2>2. S = {at, M.cycle + 1} \cup {at + 1}
    BY <2>1
  <2>3. IsFiniteSet({at, M.cycle + 1})
    BY FinitePair
  <2>4. IsFiniteSet(S)
    BY <2>2, <2>3, FS_AddElement
  <2>5. S \in SUBSET Int /\ S # {}
    BY <1>1, <1>2, <2>2
  <2>6. Max(S) \in S /\ \A y \in S : y <= Max(S)
    <3> HIDE DEF S
    <3> QED
      BY <2>4, <2>5, GreatestOf
  <2>7. Max(S) = at + 1
    <3> DEFINE m == Max(S)
    <3>1. m \in {at, M.cycle + 1, at + 1} /\ at + 1 <= m
      BY <2>2, <2>6
    <3> HIDE DEF m
    <3>2. m = at + 1
      BY <1>1, <1>2, <3>1
    <3> QED
      BY <3>2 DEF m
  <2> HIDE DEF S
  <2> QED
    BY <1>2, <1>3, <1>4, <2>1, <2>7 DEF S, MachineState
<1>6. CASE row = {}
  <2>1. S = {at, M.cycle + 1}
    BY <1>6
  <2>2. Max(S) = IF at >= M.cycle + 1 THEN at ELSE M.cycle + 1
    BY <1>1, <1>2, <2>1, MaxOfTwo
  <2>3. Max(S) \in Int
    BY <1>1, <1>2, <2>2
  <2>4. row \notin Row
    BY <1>6 DEF Row
  <2> HIDE DEF S
  <2> QED
    BY <1>3, <1>4, <2>2, <2>3, <2>4 DEF S, MachineState
<1> QED
  BY <1>5, <1>6 DEF AnyRow

(* What is ready on the tracker is ready on the machine.                      *)
LEMMA PipesOnMachine ==
  ASSUME NEW exact, NEW T \in Tracker, NEW M \in Tracker, NEW c \in Int, NEW m \in Int,
         InStep(exact, T, c, M, m), NEW row, PipeReady(T, row, c)
  PROVE  PipeReady(M, row, m)
<1>1. T.q \in Int /\ T.p \in Int /\ M.q \in Int /\ M.p \in Int
  BY TrackerFields
<1>2. NotLater(M.q - m, T.q - c) /\ NotLater(M.p - m, T.p - c)
  BY DEF InStep
<1>3. (T.q <= c => M.q <= m) /\ (T.p <= c => M.p <= m)
  BY <1>1, <1>2 DEF NotLater
<1> QED
  BY <1>3 DEF PipeReady

LEMMA RestOnMachine ==
  ASSUME ~FmacInterlock,
         NEW exact, NEW T \in Tracker, NEW M \in Tracker, NEW c \in Int, NEW m \in Int,
         InStep(exact, T, c, M, m), NEW row \in Row
  PROVE  /\ RegistersReady(T, row, c) => RegistersReady(M, row, m)
         /\ FlagReady(T, row, c) => FlagReady(M, row, m)
<1>1. ASSUME RegistersReady(T, row, c), NEW r \in RegisterReads(row)
      PROVE  RegisterReady(M, row, r) <= m
  <2> DEFINE b == Max(Bypasses(T.producer[r], row, r))
  <2>1. r \in Register /\ RegisterReady(T, row, r) = T.ready[r] - b
    BY ReadyTyped
  <2>2. RegisterReady(M, row, r) = M.ready[r] - b
    <3>1. RegisterReady(M, row, r) = M.ready[r] - Max(Bypasses(M.producer[r], row, r))
      BY ReadyTyped
    <3>2. M.producer = T.producer
      BY DEF InStep
    <3> QED
      BY <3>1, <3>2
  <2>3. b \in Nat
    BY BypassFacts
  <2> HIDE DEF b
  <2>4. T.ready[r] \in Int /\ M.ready[r] \in Int
    BY <2>1, TrackerFields
  <2>5. NotLater(M.ready[r] - m, T.ready[r] - c)
    BY <2>1 DEF InStep
  <2>6. RegisterReady(T, row, r) <= c
    BY <1>1 DEF RegistersReady
  <2> QED
    BY <2>1, <2>2, <2>3, <2>4, <2>5, <2>6 DEF NotLater
<1>2. ASSUME FlagReady(T, row, c) PROVE FlagReady(M, row, m)
  <2>1. FlagLatency \in Nat /\ ClipLatency \in Nat
    BY LatencyAssumption
  <2>2. /\ T.mac \in Int /\ T.status \in Int /\ T.clip \in Int
        /\ M.mac \in Int /\ M.status \in Int /\ M.clip \in Int
    BY TrackerFields
  <2>3. /\ NotLater(M.mac + FlagLatency - m, T.mac + FlagLatency - c)
        /\ NotLater(M.status + FlagLatency - m, T.status + FlagLatency - c)
        /\ NotLater(M.clip + ClipLatency - m, T.clip + ClipLatency - c)
    BY DEF InStep
  <2>4. T.mac + FlagLatency <= c => M.mac + FlagLatency <= m
    BY <2>1, <2>2, <2>3 DEF NotLater
  <2>5. T.status + FlagLatency <= c => M.status + FlagLatency <= m
    BY <2>1, <2>2, <2>3 DEF NotLater
  <2>6. T.clip + ClipLatency <= c => M.clip + ClipLatency <= m
    BY <2>1, <2>2, <2>3 DEF NotLater
  <2> QED
    BY <1>2, <2>4, <2>5, <2>6 DEF FlagReady
<1> QED
  BY <1>1, <1>2 DEF RegistersReady

(* A slot is in time on the machine: the results of Q and P are there; and,   *)
(* where nothing is left to the FMAC interlock, all the row reads.            *)
InTime(M, row, padding, s) ==
  LET at == IssueAt(M, row, padding, s)
  IN  /\ row \in AnyRow
      /\ PipeReady(M.tracker, row, at)
      /\ s /\ ~FmacInterlock =>
           /\ \A r \in RegisterReads(row) :
                Interlocked(M.tracker, row, r) \/ RegisterReady(M.tracker, row, r) <= at
           /\ FlagDelay(M.tracker, row, at) <= 0

(* With the stalls left out both clocks count the same, and with them too     *)
(* where the words alone are enough.                                          *)
Exact(s) == ~s \/ ~FmacInterlock

ReadyRow(T, row, c) ==
  /\ PipeReady(T, row, c)
  /\ ~FmacInterlock => RegistersReady(T, row, c) /\ FlagReady(T, row, c)

LEMMA LaterIsReady ==
  ASSUME NEW row \in AnyRow, NEW M \in Tracker, NEW m \in Int, NEW at \in Int, at >= m
  PROVE  /\ PipeReady(M, row, m) => PipeReady(M, row, at)
         /\ FlagReady(M, row, m) => FlagReady(M, row, at)
         /\ RegistersReady(M, row, m) => RegistersReady(M, row, at)
<1>1. FlagLatency \in Nat /\ ClipLatency \in Nat
  BY LatencyAssumption
<1>2. M.q \in Int /\ M.p \in Int /\ M.mac \in Int /\ M.status \in Int /\ M.clip \in Int
  BY TrackerFields
<1>3. PipeReady(M, row, m) => PipeReady(M, row, at)
  BY <1>2 DEF PipeReady
<1>4. FlagReady(M, row, m) => FlagReady(M, row, at)
  BY <1>1, <1>2 DEF FlagReady
<1>5. ASSUME RegistersReady(M, row, m), NEW r \in RegisterReads(row)
      PROVE  RegisterReady(M, row, r) <= at
  <2>1. row \in Row
    BY DEF AnyRow, RegisterReads
  <2>2. RegisterReady(M, row, r) \in Int
    BY <2>1, ReadyTyped
  <2>3. RegisterReady(M, row, r) <= m
    BY <1>5 DEF RegistersReady
  <2> QED
    BY <2>2, <2>3
<1> QED
  BY <1>3, <1>4, <1>5 DEF RegistersReady

(* A row without a wait goes out on both.                                     *)
LEMMA IssueStep ==
  ASSUME NEW s \in BOOLEAN, NEW T \in Tracker, NEW c \in Int, NEW M \in MachineState,
         InStep(Exact(s), T, c, M.tracker, M.cycle),
         NEW row \in Row, ReadyRow(T, row, c),
         NEW slot, slot.padding = "NONE"
  PROVE  /\ RunSlot(M, row, slot, s) \in MachineState
         /\ InStep(Exact(s), RecordRow(T, row, c), c + 1,
                   RunSlot(M, row, slot, s).tracker, RunSlot(M, row, slot, s).cycle)
         /\ InTime(M, row, slot.padding, s)
<1> DEFINE at == IssueAt(M, row, slot.padding, s)
           m == M.cycle
           N == RunSlot(M, row, slot, s)
<1>1. m \in Int /\ M.tracker \in Tracker /\ row \in AnyRow
  BY DEF MachineState, AnyRow
<1>2. at \in Int /\ at >= m
  BY <1>1, IssueFacts, WaitFacts
<1>3. WaitEnd(M, slot.padding) = m
  BY WaitFacts
<1>4. PipeReady(M.tracker, row, m)
  BY <1>1, PipesOnMachine DEF ReadyRow
<1>5. ASSUME ~FmacInterlock
      PROVE  /\ RegistersReady(M.tracker, row, m) /\ FlagReady(M.tracker, row, m)
             /\ at = m
  <2>1. RegistersReady(M.tracker, row, m) /\ FlagReady(M.tracker, row, m)
    BY <1>1, <1>5, RestOnMachine DEF ReadyRow
  <2>2. \A e \in StallEnds(M, row) : e <= m
    BY <2>1 DEF StallEnds, RegistersReady
  <2> QED
    BY <1>1, <1>3, <2>1, <2>2, IssueFacts
<1>6. Exact(s) => at = m
  BY <1>1, <1>3, <1>5, IssueFacts DEF Exact
<1>7. N \in MachineState /\ N.tracker = RecordRow(M.tracker, row, at) /\ N.cycle = at + 1
  BY <1>1, RunFacts
<1>8. InTime(M, row, slot.padding, s)
  <2>1. PipeReady(M.tracker, row, at)
    BY <1>1, <1>2, <1>4, LaterIsReady
  <2>2. ASSUME ~FmacInterlock
        PROVE  /\ \A r \in RegisterReads(row) : RegisterReady(M.tracker, row, r) <= at
               /\ FlagDelay(M.tracker, row, at) <= 0
    <3>1. FlagDelay(M.tracker, row, at) <= 0
      BY <1>1, <1>2, <1>5, <2>2, FlagWait
    <3> QED
      BY <1>5, <2>2, <3>1 DEF RegistersReady
  <2> QED
    BY <1>1, <2>1, <2>2 DEF InTime
<1> HIDE DEF at, N
<1>9. InStep(Exact(s), T, c, M.tracker, at)
  BY <1>1, <1>2, <1>6, InStepStall
<1>10. InStep(Exact(s), RecordRow(T, row, c), c, RecordRow(M.tracker, row, at), at)
  BY <1>1, <1>2, <1>9, InStepRow
<1>11. RecordRow(T, row, c) \in Tracker /\ RecordRow(M.tracker, row, at) \in Tracker
  BY <1>1, <1>2, RowTyped
<1>12. InStep(Exact(s), RecordRow(T, row, c), c + 1, RecordRow(M.tracker, row, at), at + 1)
  BY <1>2, <1>10, <1>11, InStepTick
<1> QED
  BY <1>7, <1>8, <1>12 DEF N

(* What a wait is for, and the other result that may be in flight.            *)
Waited(T, kind) == IF kind = "WAITQ" THEN T.q ELSE T.p
Other(T, kind)  == IF kind = "WAITQ" THEN T.p ELSE T.q

(* A wait ends on both when the result is there.  Where the machine stalls    *)
(* the other result must not be in flight.                                    *)
LEMMA WaitEnds ==
  ASSUME NEW s \in BOOLEAN, NEW T \in Tracker, NEW c \in Int, NEW M \in MachineState,
         InStep(Exact(s), T, c, M.tracker, M.cycle),
         NEW kind \in {"WAITQ", "WAITP"}, NEW w \in Nat, w = Waited(T, kind) - c, w > 1,
         s => Other(T, kind) <= c,
         NEW at \in Int, at >= WaitEnd(M, kind), ~s => at = WaitEnd(M, kind)
  PROVE  /\ InStep(Exact(s), T, c + w, M.tracker, at)
         /\ Exact(s) => WaitEnd(M, kind) = M.cycle + w
         /\ Waited(M.tracker, kind) <= at
         /\ s => Other(M.tracker, kind) <= M.cycle
<1> DEFINE m == M.cycle
           e == WaitEnd(M, kind)
<1>1. m \in Int /\ M.tracker \in Tracker
  BY DEF MachineState
<1>2. T.q \in Int /\ T.p \in Int /\ M.tracker.q \in Int /\ M.tracker.p \in Int
  BY <1>1, TrackerFields
<1>3. e = IF m >= Waited(M.tracker, kind) THEN m ELSE Waited(M.tracker, kind)
  BY WaitFacts DEF Waited
<1>4. /\ Waited(T, kind) \in Int /\ Waited(M.tracker, kind) \in Int
      /\ Other(T, kind) \in Int /\ Other(M.tracker, kind) \in Int
  BY <1>2 DEF Waited, Other
<1>5. /\ NotLater(Waited(M.tracker, kind) - m, Waited(T, kind) - c)
      /\ NotLater(Other(M.tracker, kind) - m, Other(T, kind) - c)
      /\ Exact(s) => SameWait(Waited(M.tracker, kind) - m, Waited(T, kind) - c)
  BY DEF InStep, Waited, Other
<1>6. Exact(s) => e = m + w
  BY <1>1, <1>3, <1>4, <1>5 DEF SameWait
<1>7. Waited(M.tracker, kind) <= at
  BY <1>1, <1>3, <1>4
<1>8. s => Other(M.tracker, kind) <= m
  BY <1>1, <1>4, <1>5 DEF NotLater
<1>9. CASE Exact(s)
  <2>1. InStep(Exact(s), T, c + w, M.tracker, m + w)
    BY <1>1, InStepTick
  <2>2. at >= m + w /\ (~s => at = m + w)
    BY <1>6, <1>9
  <2>3. s => T.q <= c + w /\ T.p <= c + w
    BY <1>2, <1>4 DEF Waited, Other
  <2>4. c + w \in Int /\ m + w \in Int
    BY <1>1
  <2> HIDE DEF e, m
  <2>5. InStep(Exact(s), T, c + w, M.tracker, at)
    BY <1>1, <2>1, <2>2, <2>3, <2>4, InStepStall
  <2> QED
    BY <2>5, <1>6, <1>7, <1>8 DEF e, m
<1>10. CASE ~Exact(s)
  <2>1. s /\ FmacInterlock
    BY <1>10 DEF Exact
  <2>2. Waited(M.tracker, kind) - at <= 0 /\ Other(M.tracker, kind) - at <= 0
    BY <1>1, <1>3, <1>4, <1>7, <1>8, <2>1
  <2>3. M.tracker.q - at <= 0 /\ M.tracker.p - at <= 0
    BY <2>2 DEF Waited, Other
  <2> QED
    BY <1>7, <1>8, <1>10, <2>1, <2>3 DEF InStep, NotLater
<1> QED
  BY <1>9, <1>10

(* Padding that waits.                                                        *)
LEMMA WaitStep ==
  ASSUME NEW s \in BOOLEAN, NEW T \in Tracker, NEW c \in Int, NEW M \in MachineState,
         InStep(Exact(s), T, c, M.tracker, M.cycle),
         NEW kind \in {"WAITQ", "WAITP"}, NEW w \in Nat, w = Waited(T, kind) - c, w > 1,
         s => Other(T, kind) <= c,
         NEW slot, slot.padding = kind
  PROVE  /\ RunSlot(M, {}, slot, s) \in MachineState
         /\ InStep(Exact(s), T, c + w, RunSlot(M, {}, slot, s).tracker, RunSlot(M, {}, slot, s).cycle)
<1> DEFINE at == IssueAt(M, {}, slot.padding, s)
           N == RunSlot(M, {}, slot, s)
           n == IF at >= M.cycle + 1 THEN at ELSE M.cycle + 1
<1>1. M.cycle \in Int /\ M.tracker \in Tracker /\ {} \in AnyRow
  BY DEF MachineState, AnyRow
<1>2. at \in Int /\ at = WaitEnd(M, kind)
  BY <1>1, StallFacts, IssueFacts
<1>3. N \in MachineState /\ N.cycle = n /\ N.tracker = M.tracker
  BY <1>1, RunFacts, EmptyRow
<1>4. at >= M.cycle
  BY <1>2, WaitFacts
<1>5. Exact(s) => at = M.cycle + w
  <2>1. at >= WaitEnd(M, kind) /\ (~s => at = WaitEnd(M, kind))
    BY <1>2
  <2> HIDE DEF at
  <2>2. /\ InStep(Exact(s), T, c + w, M.tracker, at)
        /\ Exact(s) => WaitEnd(M, kind) = M.cycle + w
    BY <1>2, <2>1, WaitEnds
  <2> QED
    BY <1>2, <2>2
<1>6. n \in Int /\ n >= WaitEnd(M, kind) /\ (~s => n = WaitEnd(M, kind))
  BY <1>1, <1>2, <1>4, <1>5 DEF Exact
<1> HIDE DEF at, N, n
<1>7. InStep(Exact(s), T, c + w, M.tracker, n)
  BY <1>6, WaitEnds
<1> QED
  BY <1>3, <1>7 DEF N

(* An upper token beside the wait: it was ready when the wait began, or it is  *)
(* the one that waits, and then what it reads besides stalls by itself.       *)
LEMMA WaitRowStep ==
  ASSUME NEW s \in BOOLEAN, NEW T \in Tracker, NEW c \in Int, NEW M \in MachineState,
         InStep(Exact(s), T, c, M.tracker, M.cycle),
         NEW kind \in {"WAITQ", "WAITP"}, NEW w \in Nat, w = Waited(T, kind) - c, w > 1,
         s => Other(T, kind) <= c,
         NEW row \in Row, PipeReady(T, row, c + w),
         \/ FmacInterlock
         \/ RegistersReady(T, row, c) /\ FlagReady(T, row, c)
         \/ /\ RegisterReads(row) \subseteq FloatRegister
            /\ \A f \in {"MAC", "CLIP", "STATUS"} : ~RowReads(row, f),
         NEW slot, slot.padding = kind
  PROVE  /\ RunSlot(M, row, slot, s) \in MachineState
         /\ InStep(Exact(s), RecordRow(T, row, c + w), c + w + 1,
                   RunSlot(M, row, slot, s).tracker, RunSlot(M, row, slot, s).cycle)
         /\ InTime(M, row, slot.padding, s)
<1> DEFINE at == IssueAt(M, row, slot.padding, s)
           N == RunSlot(M, row, slot, s)
<1>1. M.cycle \in Int /\ M.tracker \in Tracker /\ row \in AnyRow
  BY DEF MachineState, AnyRow
<1>2. at \in Int /\ at >= WaitEnd(M, kind) /\ (~s => at = WaitEnd(M, kind)) /\ at >= M.cycle
  BY <1>1, IssueFacts, WaitFacts
<1>3. N \in MachineState /\ N.tracker = RecordRow(M.tracker, row, at) /\ N.cycle = at + 1
  BY <1>1, RunFacts
<1>4. InStep(Exact(s), T, c + w, M.tracker, at)
  <2> HIDE DEF at
  <2> QED
    BY <1>2, WaitEnds
<1>5. c + w \in Int
  OBVIOUS
<1>6. InTime(M, row, slot.padding, s)
  <2>1. PipeReady(M.tracker, row, at)
    <3> HIDE DEF at
    <3> QED
      BY <1>1, <1>2, <1>4, <1>5, PipesOnMachine
  <2>2. ASSUME ~FmacInterlock
        PROVE  /\ \A r \in RegisterReads(row) :
                    Interlocked(M.tracker, row, r) \/ RegisterReady(M.tracker, row, r) <= at
               /\ FlagDelay(M.tracker, row, at) <= 0
    <3>1. CASE RegistersReady(T, row, c) /\ FlagReady(T, row, c)
      <4>1. RegistersReady(M.tracker, row, M.cycle) /\ FlagReady(M.tracker, row, M.cycle)
        BY <1>1, <2>2, <3>1, RestOnMachine
      <4> HIDE DEF at
      <4>2. RegistersReady(M.tracker, row, at) /\ FlagReady(M.tracker, row, at)
        BY <1>1, <1>2, <4>1, LaterIsReady
      <4> QED
        BY <1>1, <1>2, <4>2, FlagWait DEF RegistersReady
    <3>2. CASE /\ RegisterReads(row) \subseteq FloatRegister
               /\ \A f \in {"MAC", "CLIP", "STATUS"} : ~RowReads(row, f)
      <4> HIDE DEF at
      <4>1. FlagReady(M.tracker, row, at)
        BY <3>2 DEF FlagReady
      <4>2. FlagDelay(M.tracker, row, at) <= 0
        BY <1>1, <1>2, <4>1, FlagWait
      <4> QED
        BY <3>2, <4>2 DEF Interlocked
    <3> QED
      BY <2>2, <3>1, <3>2
  <2> QED
    BY <1>1, <2>1, <2>2 DEF InTime
<1> HIDE DEF at, N
<1>7. InStep(Exact(s), RecordRow(T, row, c + w), c + w, RecordRow(M.tracker, row, at), at)
  BY <1>1, <1>2, <1>4, <1>5, InStepRow
<1>8. RecordRow(T, row, c + w) \in Tracker /\ RecordRow(M.tracker, row, at) \in Tracker
  BY <1>1, <1>2, <1>5, RowTyped
<1>9. InStep(Exact(s), RecordRow(T, row, c + w), c + w + 1, RecordRow(M.tracker, row, at), at + 1)
  BY <1>2, <1>5, <1>7, <1>8, InStepTick
<1> QED
  BY <1>3, <1>6, <1>9 DEF N

(* A word of padding.                                                         *)
LEMMA NopStep ==
  ASSUME NEW exact, NEW s, NEW T \in Tracker, NEW c \in Int, NEW M \in MachineState,
         InStep(exact, T, c, M.tracker, M.cycle),
         NEW slot, slot.padding = "NOP", slot.words = 1
  PROVE  /\ RunSlot(M, {}, slot, s) \in MachineState
         /\ InStep(exact, T, c + 1, RunSlot(M, {}, slot, s).tracker, RunSlot(M, {}, slot, s).cycle)
<1>1. M.cycle \in Int /\ M.tracker \in Tracker
  BY DEF MachineState
<1>2. RunSlot(M, {}, slot, s) = [tracker |-> M.tracker, cycle |-> M.cycle + 1]
  BY DEF RunSlot, MachineState
<1>3. InStep(exact, T, c + 1, M.tracker, M.cycle + 1)
  BY <1>1, InStepTick
<1> QED
  BY <1>1, <1>2, <1>3 DEF MachineState

LEMMA EmptyInTime ==
  ASSUME NEW M \in MachineState, NEW padding, NEW s \in BOOLEAN
  PROVE  InTime(M, {}, padding, s)
<1>1. RegisterReads({}) = {} /\ \A res : ~RowReads({}, res)
  BY DEF RegisterReads, RowReads
<1> DEFINE at == IssueAt(M, {}, padding, s)
<1>2. at \in Int /\ M.tracker \in Tracker
  BY IssueFacts DEF AnyRow, MachineState
<1> HIDE DEF at
<1>3. PipeReady(M.tracker, {}, at) /\ FlagReady(M.tracker, {}, at)
  BY <1>1 DEF PipeReady, FlagReady
<1>4. FlagDelay(M.tracker, {}, at) <= 0
  BY <1>2, <1>3, FlagWait
<1> QED
  BY <1>1, <1>3, <1>4 DEF InTime, AnyRow, at

(* Q and P moved out by a cycle, or idle as they were.                        *)
LEMMA PushTyped ==
  ASSUME NEW T \in Tracker
  PROVE  DelayPipelinedResultsBy(T, 1) \in Tracker
<1> DEFINE D == DelayPipelinedResultsBy(T, 1)
<1>1. T.q \in Int /\ T.p \in Int
  BY TrackerFields
<1>2. D = [T EXCEPT !.q = IF @ >= 0 THEN @ + 1 ELSE @, !.p = IF @ >= 0 THEN @ + 1 ELSE @]
  BY DEF DelayPipelinedResultsBy
<1>3. D = [ ready |-> T.ready, producer |-> T.producer,
            q |-> IF T.q >= 0 THEN T.q + 1 ELSE T.q,
            p |-> IF T.p >= 0 THEN T.p + 1 ELSE T.p,
            mac |-> T.mac, status |-> T.status, clip |-> T.clip ]
  BY <1>2 DEF Tracker
<1>4. /\ (IF T.q >= 0 THEN T.q + 1 ELSE T.q) \in Int
      /\ (IF T.p >= 0 THEN T.p + 1 ELSE T.p) \in Int
  BY <1>1
<1>5. /\ T.ready \in [Register -> Int] /\ T.producer \in [Register -> Form \cup {"NONE"}]
      /\ T.mac \in Int /\ T.status \in Int /\ T.clip \in Int
  BY DEF Tracker
<1> HIDE DEF D
<1>6. D \in Tracker
  BY <1>3, <1>4, <1>5 DEF Tracker
<1> QED
  BY <1>6 DEF D

(* A stall that becomes no word.                                              *)
LEMMA PushStep ==
  ASSUME FmacInterlock,
         NEW exact, NEW T \in Tracker, NEW c \in Nat, NEW M \in Tracker, NEW m \in Int,
         InStep(exact, T, c, M, m)
  PROVE  /\ DelayPipelinedResultsBy(T, 1) \in Tracker
         /\ InStep(exact, DelayPipelinedResultsBy(T, 1), c + 1, M, m)
<1>1. T.q \in Int /\ T.p \in Int /\ M.q \in Int /\ M.p \in Int
  BY TrackerFields
<1> DEFINE D == DelayPipelinedResultsBy(T, 1)
<1>2. D = [T EXCEPT !.q = IF @ >= 0 THEN @ + 1 ELSE @, !.p = IF @ >= 0 THEN @ + 1 ELSE @]
  BY DEF DelayPipelinedResultsBy
<1>3. /\ D.q = IF T.q >= 0 THEN T.q + 1 ELSE T.q
      /\ D.p = IF T.p >= 0 THEN T.p + 1 ELSE T.p
  BY <1>2 DEF Tracker
<1>4. D \in Tracker
  BY PushTyped
<1> HIDE DEF D
<1>5. NotLater(M.q - m, D.q - (c + 1)) /\ NotLater(M.p - m, D.p - (c + 1))
  BY <1>1, <1>3 DEF InStep, NotLater
<1>6. exact => SameWait(M.q - m, D.q - (c + 1)) /\ SameWait(M.p - m, D.p - (c + 1))
  <2>1. exact => SameWait(M.q - m, T.q - c) /\ SameWait(M.p - m, T.p - c)
    BY DEF InStep
  <2>2. ASSUME SameWait(M.q - m, T.q - c) PROVE SameWait(M.q - m, D.q - (c + 1))
    BY <1>1, <1>3, <2>2 DEF SameWait
  <2>3. ASSUME SameWait(M.p - m, T.p - c) PROVE SameWait(M.p - m, D.p - (c + 1))
    BY <1>1, <1>3, <2>3 DEF SameWait
  <2> QED
    BY <2>1, <2>2, <2>3
<1> QED
  BY <1>4, <1>5, <1>6 DEF InStep, D

-----------------------------------------------------------------------------
(* A tail slips into the last row                                             *)

LEMMA SingleRow ==
  ASSUME NEW t, NEW T, NEW at
  PROVE  RecordRow(T, {t}, at) = RecordWrites(T, t, at)
<1>1. PICK x, y : RecordsInOrder({t, t}, y, x)
  BY RowOrder
<1>2. {t, t} = {t}
  OBVIOUS
<1>3. RecordsInOrder({t}, y, x)
  BY <1>1, <1>2
<1>4. x = t /\ y = t
  BY <1>3 DEF RecordsInOrder
<1> QED
  BY <1>3, <1>4 DEF RecordsInOrder

(* Two tokens that write nothing in common are recorded in either order.      *)
LEMMA RecordsCommute ==
  ASSUME NEW a, NEW b, NEW T, NEW at,
         a.access.registerWrites \cap b.access.registerWrites = {},
         a.access.implicitWrites \cap b.access.implicitWrites = {}
  PROVE  RecordWrites(RecordWrites(T, a, at), b, at) = RecordWrites(RecordWrites(T, b, at), a, at)
<1> DEFINE A == RecordWrites(T, a, at)
           B == RecordWrites(T, b, at)
           AB == RecordWrites(A, b, at)
           BA == RecordWrites(B, a, at)
<1>1. \A res : ~(TokenWrites(a, res) /\ TokenWrites(b, res))
  BY DEF TokenWrites
<1>2. \A r : ~(r \in a.access.registerWrites /\ r \in b.access.registerWrites)
  OBVIOUS
<1>3. /\ AB.q = BA.q /\ AB.p = BA.p /\ AB.mac = BA.mac /\ AB.status = BA.status /\ AB.clip = BA.clip
  BY <1>1 DEF RecordWrites
<1>4. AB.ready = BA.ready
  <2>1. AB.ready = [r \in Register |-> IF b.latency > 1 /\ r \in b.access.registerWrites
                                         THEN ReadyCycle(b, at) ELSE A.ready[r]]
    BY DEF RecordWrites
  <2>2. BA.ready = [r \in Register |-> IF a.latency > 1 /\ r \in a.access.registerWrites
                                         THEN ReadyCycle(a, at) ELSE B.ready[r]]
    BY DEF RecordWrites
  <2>3. \A r \in Register : A.ready[r] = IF a.latency > 1 /\ r \in a.access.registerWrites
                                           THEN ReadyCycle(a, at) ELSE T.ready[r]
    BY DEF RecordWrites
  <2>4. \A r \in Register : B.ready[r] = IF b.latency > 1 /\ r \in b.access.registerWrites
                                           THEN ReadyCycle(b, at) ELSE T.ready[r]
    BY DEF RecordWrites
  <2> HIDE DEF A, B, AB, BA
  <2> QED
    BY <1>2, <2>1, <2>2, <2>3, <2>4
<1>5. AB.producer = BA.producer
  <2>1. AB.producer = [r \in Register |-> IF b.latency > 1 /\ r \in b.access.registerWrites
                                            THEN b.form ELSE A.producer[r]]
    BY DEF RecordWrites
  <2>2. BA.producer = [r \in Register |-> IF a.latency > 1 /\ r \in a.access.registerWrites
                                            THEN a.form ELSE B.producer[r]]
    BY DEF RecordWrites
  <2>3. \A r \in Register : A.producer[r] = IF a.latency > 1 /\ r \in a.access.registerWrites
                                              THEN a.form ELSE T.producer[r]
    BY DEF RecordWrites
  <2>4. \A r \in Register : B.producer[r] = IF b.latency > 1 /\ r \in b.access.registerWrites
                                              THEN b.form ELSE T.producer[r]
    BY DEF RecordWrites
  <2> HIDE DEF A, B, AB, BA
  <2> QED
    BY <1>2, <2>1, <2>2, <2>3, <2>4
<1>6. AB = [ready |-> AB.ready, producer |-> AB.producer, q |-> AB.q, p |-> AB.p,
            mac |-> AB.mac, status |-> AB.status, clip |-> AB.clip]
  BY DEF RecordWrites
<1>7. BA = [ready |-> BA.ready, producer |-> BA.producer, q |-> BA.q, p |-> BA.p,
            mac |-> BA.mac, status |-> BA.status, clip |-> BA.clip]
  BY DEF RecordWrites
<1> HIDE DEF AB, BA
<1>8. AB = BA
  BY <1>3, <1>4, <1>5, <1>6, <1>7
<1> QED
  BY <1>8 DEF AB, BA, A, B

LEMMA JoinRecords ==
  ASSUME NEW a, NEW b, a # b, NEW T, NEW at,
         a.access.registerWrites \cap b.access.registerWrites = {},
         a.access.implicitWrites \cap b.access.implicitWrites = {}
  PROVE  RecordRow(T, {a, b}, at) = RecordWrites(RecordWrites(T, a, at), b, at)
<1>1. PICK x, y : RecordsInOrder({a, b}, y, x)
  BY RowOrder
<1>2. (x = a /\ y = b) \/ (x = b /\ y = a)
  BY <1>1 DEF RecordsInOrder
<1>3. RecordRow(T, {a, b}, at) = RecordWrites(RecordWrites(T, y, at), x, at)
  BY <1>1, <1>2 DEF RecordsInOrder
<1> QED
  BY <1>2, <1>3, RecordsCommute

(* What waits for nothing behind a row it does not read from waited for       *)
(* nothing when the row went out.                                             *)
LEMMA JoinReady ==
  ASSUME NEW a \in Instruction, NEW b \in Instruction, NEW T \in Tracker, NEW at \in Int,
         a.access.registerWrites \cap b.access.registerReads = {},
         a.access.implicitWrites \cap b.access.implicitReads = {},
         ReadyRow(T, {a}, at), ReadyRow(RecordWrites(T, a, at), {b}, at)
  PROVE  ReadyRow(T, {a, b}, at)
<1> DEFINE A == RecordWrites(T, a, at)
<1>1. \A res : ~(TokenWrites(a, res) /\ TokenReads(b, res))
  BY DEF TokenWrites, TokenReads
<1>2. \A t, res : RowReads({t}, res) <=> TokenReads(t, res)
  BY DEF RowReads
<1>3. \A res : RowReads({a, b}, res) <=> TokenReads(a, res) \/ TokenReads(b, res)
  BY DEF RowReads
<1>4. /\ A.q = IF a.latency > 1 /\ TokenWrites(a, "Q") THEN ReadyCycle(a, at) ELSE T.q
      /\ A.p = IF a.latency > 1 /\ TokenWrites(a, "P") THEN ReadyCycle(a, at) ELSE T.p
      /\ A.mac = IF TokenWrites(a, "MAC") THEN at ELSE T.mac
      /\ A.status = IF TokenWrites(a, "STATUS") THEN at ELSE T.status
      /\ A.clip = IF TokenWrites(a, "CLIP") THEN at ELSE T.clip
  BY DEF RecordWrites
<1>5. /\ \A r \in Register : r \notin a.access.registerWrites => A.ready[r] = T.ready[r]
      /\ \A r \in Register : r \notin a.access.registerWrites => A.producer[r] = T.producer[r]
  BY DEF RecordWrites
<1>6. A \in Tracker /\ {a} \in Row /\ {b} \in Row /\ {a, b} \in Row
  BY RecordTyped DEF Row
<1> HIDE DEF A
<1>7. PipeReady(T, {a, b}, at)
  BY <1>1, <1>2, <1>3, <1>4 DEF PipeReady, ReadyRow, A
<1>8. ASSUME ~FmacInterlock PROVE FlagReady(T, {a, b}, at)
  BY <1>1, <1>2, <1>3, <1>4, <1>8 DEF FlagReady, ReadyRow, A
<1>9. ASSUME ~FmacInterlock, NEW r \in RegisterReads({a, b})
      PROVE  RegisterReady(T, {a, b}, r) <= at
  <2> DEFINE Wait(row) == Max(Bypasses(T.producer[r], row, r))
  <2>1. r \in Register /\ RegisterReady(T, {a, b}, r) = T.ready[r] - Wait({a, b})
    BY <1>6, ReadyTyped
  <2>2. T.ready[r] \in Int
    BY <2>1, TrackerFields
  <2>3. Wait({a, b}) \in Nat
    BY BypassFacts
  <2>4. ASSUME NEW t \in {a, b}, r \in t.access.registerReads, NEW U \in Tracker,
               U.ready[r] = T.ready[r], U.producer[r] = T.producer[r], RegistersReady(U, {t}, at)
        PROVE  RegisterReady(T, {a, b}, r) <= at
    <3>1. r \in RegisterReads({t}) /\ {t} \in Row
      BY <1>6, <2>4 DEF RegisterReads
    <3>2. RegisterReady(U, {t}, r) = T.ready[r] - Wait({t})
      BY <2>4, <3>1, ReadyTyped
    <3>3. Wait({t}) = BypassReduction(T.producer[r], t.form)
      BY <3>1, BypassFacts
    <3>4. BypassReduction(T.producer[r], t.form) <= Wait({a, b})
      BY <2>4, BypassFacts
    <3>5. Wait({t}) \in Nat
      BY <3>1, BypassFacts
    <3>6. RegisterReady(U, {t}, r) <= at
      BY <2>4, <3>1 DEF RegistersReady
    <3> HIDE DEF Wait
    <3> QED
      BY <2>1, <2>2, <2>3, <3>2, <3>3, <3>4, <3>5, <3>6
  <2>5. CASE r \in a.access.registerReads
    <3>1. RegistersReady(T, {a}, at)
      BY <1>9 DEF ReadyRow
    <3> QED
      BY <2>4, <2>5, <3>1
  <2>6. CASE r \in b.access.registerReads
    <3>1. RegistersReady(A, {b}, at)
      BY <1>9 DEF ReadyRow, A
    <3>2. A.ready[r] = T.ready[r] /\ A.producer[r] = T.producer[r]
      BY <1>5, <2>1, <2>6
    <3> QED
      BY <1>6, <2>4, <2>6, <3>1, <3>2
  <2> QED
    BY <2>5, <2>6 DEF RegisterReads
<1> QED
  BY <1>7, <1>8, <1>9 DEF ReadyRow, RegistersReady

-----------------------------------------------------------------------------
(* The machine behind every slot                                              *)

Taken(b, slot) == {b[i] : i \in slot.tokens}

(* f is the machine behind the first m slots of sl, taken from block b.       *)
RunsTo(b, sl, m, s, f) ==
  f = [n \in 0 .. m |->
         IF n = 0 THEN [tracker |-> ResetTracker, cycle |-> 0]
                  ELSE RunSlot(f[n - 1], Taken(b, sl[n]), sl[n], s)]

Unrolls(b, sl, m, s, f) == \A n \in 1 .. m : f[n] = RunSlot(f[n - 1], Taken(b, sl[n]), sl[n], s)

LEMMA RunsUnrolled ==
  ASSUME NEW b, NEW sl, NEW m \in Nat, NEW s, NEW f, RunsTo(b, sl, m, s, f)
  PROVE  /\ f[0] = [tracker |-> ResetTracker, cycle |-> 0]
         /\ Unrolls(b, sl, m, s, f)
<1> DEFINE e(n) == IF n = 0 THEN [tracker |-> ResetTracker, cycle |-> 0]
                   ELSE RunSlot(f[n - 1], Taken(b, sl[n]), sl[n], s)
<1>1. f = [n \in 0 .. m |-> e(n)]
  BY DEF RunsTo
<1> HIDE DEF e
<1>2. \A n \in 0 .. m : f[n] = e(n)
  BY <1>1
<1>3. 0 \in 0 .. m /\ \A n \in 1 .. m : n \in 0 .. m /\ n # 0
  OBVIOUS
<1>4. f[0] = e(0) /\ \A n \in 1 .. m : f[n] = e(n) /\ n # 0
  BY <1>2, <1>3
<1> QED
  BY <1>4 DEF e, Unrolls

LEMMA RunsExist ==
  ASSUME NEW b, NEW sl, NEW m \in Nat, NEW s
  PROVE  \E f : RunsTo(b, sl, m, s, f)
<1> DEFINE Bad == {k \in Nat : ~ \E f : RunsTo(b, sl, k, s, f)}
<1> SUFFICES ASSUME Bad # {} PROVE FALSE
  OBVIOUS
<1>1. PICK k \in Bad : \A j \in Bad : k <= j
  BY LeastNumber
<1> DEFINE start == [tracker |-> ResetTracker, cycle |-> 0]
<1>2. CASE k = 0
  <2> DEFINE f == [n \in 0 .. 0 |-> start]
  <2>1. f = [n \in 0 .. 0 |->
                    IF n = 0 THEN [tracker |-> ResetTracker, cycle |-> 0]
                    ELSE RunSlot(f[n - 1], Taken(b, sl[n]), sl[n], s)]
    <3>1. \A n \in 0 .. 0 : n = 0
      OBVIOUS
    <3> QED
      BY <3>1
  <2> HIDE DEF f
  <2>2. RunsTo(b, sl, 0, s, f)
    BY <2>1 DEF RunsTo
  <2> QED
    BY <1>1, <1>2, <2>2
<1>3. CASE k # 0
  <2>1. k - 1 \in Nat /\ k - 1 \notin Bad
    BY <1>1, <1>3
  <2>2. PICK f : RunsTo(b, sl, k - 1, s, f)
    BY <2>1
  <2> DEFINE last == RunSlot(f[k - 1], Taken(b, sl[k]), sl[k], s)
             e(n) == IF n = k THEN last ELSE f[n]
             g == [n \in 0 .. k |-> e(n)]
  <2> HIDE DEF last
  <2>3. \A n \in 0 .. k : g[n] = e(n)
    OBVIOUS
  <2> DEFINE G(n) == IF n = 0 THEN [tracker |-> ResetTracker, cycle |-> 0]
                     ELSE RunSlot(g[n - 1], Taken(b, sl[n]), sl[n], s)
  <2>4. ASSUME NEW n \in 0 .. k PROVE e(n) = G(n)
    <3> HIDE DEF g
    <3>1. CASE n = 0
      <4>1. f[0] = [tracker |-> ResetTracker, cycle |-> 0]
        BY <2>1, <2>2, RunsUnrolled
      <4> QED
        BY <3>1, <4>1, <1>3
    <3>2. CASE n # 0 /\ n # k
      <4>1. n \in 1 .. k - 1 /\ n - 1 \in 0 .. k /\ n - 1 # k
        BY <3>2, <2>1
      <4>2. f[n] = RunSlot(f[n - 1], Taken(b, sl[n]), sl[n], s)
        BY <4>1, <2>1, <2>2, RunsUnrolled DEF Unrolls
      <4>3. g[n - 1] = f[n - 1]
        BY <4>1, <2>3
      <4> QED
        BY <3>2, <4>2, <4>3
    <3>3. CASE n = k
      <4>1. k - 1 \in 0 .. k /\ k - 1 # k
        BY <2>1
      <4>2. g[k - 1] = f[k - 1]
        BY <4>1, <2>3
      <4> QED
        BY <3>3, <4>2, <1>3 DEF last
    <3> QED
      BY <3>1, <3>2, <3>3
  <2>5. g = [n \in 0 .. k |-> G(n)]
    <3> HIDE DEF e, G
    <3>1. g = [n \in 0 .. k |-> e(n)]
      OBVIOUS
    <3> HIDE DEF g
    <3> QED
      BY <2>4, <3>1
  <2> HIDE DEF g
  <2>6. RunsTo(b, sl, k, s, g)
    BY <2>5 DEF RunsTo
  <2> QED
    BY <1>1, <2>6
<1> QED
  BY <1>2, <1>3

Agree(f, g, j) == \A n \in 0 .. j : g[n] = f[n]

SameSlots(sl, tl, j) == \A n \in 1 .. j : sl[n] = tl[n]

(* The same slots, the same machine.                                          *)
LEMMA SameRun ==
  ASSUME NEW b, NEW sl, NEW tl, NEW m \in Nat, NEW k \in Nat, NEW s, NEW f, NEW g,
         RunsTo(b, sl, m, s, f), RunsTo(b, tl, k, s, g),
         NEW j \in Nat, j <= m, j <= k, SameSlots(sl, tl, j)
  PROVE  Agree(f, g, j)
<1> DEFINE Bad == {n \in Nat : n <= j /\ f[n] # g[n]}
<1> SUFFICES ASSUME Bad # {} PROVE FALSE
  BY DEF Agree
<1>1. PICK n \in Bad : \A i \in Bad : n <= i
  BY LeastNumber
<1>2. n # 0
  <2>1. f[0] = [tracker |-> ResetTracker, cycle |-> 0]
    BY RunsUnrolled
  <2>2. g[0] = [tracker |-> ResetTracker, cycle |-> 0]
    BY RunsUnrolled
  <2> QED
    BY <1>1, <2>1, <2>2
<1>3. n - 1 \in Nat /\ n - 1 \notin Bad /\ n - 1 <= j
  BY <1>1, <1>2
<1>4. f[n - 1] = g[n - 1]
  BY <1>3
<1>5. n \in 1 .. m /\ n \in 1 .. k /\ n \in 1 .. j
  BY <1>1, <1>2
<1>6. f[n] = RunSlot(f[n - 1], Taken(b, sl[n]), sl[n], s)
  <2>1. Unrolls(b, sl, m, s, f)
    BY RunsUnrolled
  <2> QED
    BY <1>5, <2>1 DEF Unrolls
<1>7. g[n] = RunSlot(g[n - 1], Taken(b, tl[n]), tl[n], s)
  <2>1. Unrolls(b, tl, k, s, g)
    BY RunsUnrolled
  <2> QED
    BY <1>5, <2>1 DEF Unrolls
<1>8. sl[n] = tl[n]
  BY <1>5 DEF SameSlots
<1> QED
  BY <1>1, <1>4, <1>6, <1>7, <1>8

(* One slot more.                                                             *)
LEMMA LongerRun ==
  ASSUME NEW b, NEW sl, NEW tl, NEW m \in Nat, NEW k \in Nat, NEW j \in Nat, NEW s, NEW f, NEW g,
         RunsTo(b, sl, m, s, f), RunsTo(b, tl, k, s, g), j <= m, k = j + 1, SameSlots(sl, tl, j)
  PROVE  /\ Agree(f, g, j)
         /\ g[k] = RunSlot(f[j], Taken(b, tl[k]), tl[k], s)
<1>6. Agree(f, g, j)
  BY SameRun
<1>2. Unrolls(b, tl, k, s, g)
  BY RunsUnrolled
<1>3. k \in 1 .. k /\ k - 1 = j /\ j \in 0 .. j
  OBVIOUS
<1>4. g[k] = RunSlot(g[j], Taken(b, tl[k]), tl[k], s)
  BY <1>2, <1>3 DEF Unrolls
<1>7. g[j] = f[j]
  BY <1>3, <1>6 DEF Agree
<1> QED
  BY <1>4, <1>6, <1>7

MachinesRun == \A s : Len(slots) \in Nat => RunsTo(block, slots, Len(slots), s, Machine(s))

LEMMA MachineRuns == MachinesRun
<1> SUFFICES ASSUME Len(slots) \in Nat, NEW s PROVE RunsTo(block, slots, Len(slots), s, Machine(s))
  BY DEF MachinesRun
<1>1. PICK f : RunsTo(block, slots, Len(slots), s, f)
  BY RunsExist
<1> DEFINE Fits(g) == g = [n \in 0 .. Len(slots) |->
             IF n = 0 THEN [tracker |-> ResetTracker, cycle |-> 0]
             ELSE RunSlot(g[n - 1], Operands(slots[n]), slots[n], s)]
<1>2. Fits(f)
  BY <1>1 DEF RunsTo, Operands, Taken
<1>3. Machine(s) = CHOOSE g : Fits(g)
  BY DEF Machine
<1> HIDE DEF Fits
<1>4. Fits(Machine(s))
  BY <1>2, <1>3
<1> DEFINE F == Machine(s)
<1> HIDE DEF F
<1>5. Fits(F)
  BY <1>4 DEF F
<1>6. RunsTo(block, slots, Len(slots), s, F)
  BY <1>5 DEF Fits, RunsTo, Operands, Taken
<1> QED
  BY <1>6 DEF F

-----------------------------------------------------------------------------
(* The invariant                                                              *)

(* With the stalls of the machine only blocks that write one of Q and P are    *)
(* judged, as OnePipeline says.                                               *)
Judged(s) == s => OnePipeline

PipesIdle(T) ==
  /\ (\A i \in Position : ~TokenWrites(block[i], "Q")) => T.q = Idle
  /\ (\A i \in Position : ~TokenWrites(block[i], "P")) => T.p = Idle

MachineTyped(s) == \A n \in 0 .. Len(slots) : Machine(s)[n] \in MachineState

ClocksInStep(s) ==
  InStep(Exact(s), tracker, cycle, Machine(s)[Len(slots)].tracker, Machine(s)[Len(slots)].cycle)

SlotsInTime(s) ==
  \A n \in DOMAIN slots : InTime(Machine(s)[n - 1], Operands(slots[n]), slots[n].padding, s)

(* Scheduler and machine stand behind the last slot together.                 *)
Clocked ==
  /\ slots \in Seq(Slot)
  /\ tracker \in Tracker
  /\ cycle \in Nat
  /\ PipesIdle(tracker)
  /\ \A s \in BOOLEAN : Judged(s) => MachineTyped(s) /\ ClocksInStep(s) /\ SlotsInTime(s)

(* And in front of it, as long as a tail may still slip into it.              *)
BeforeLastRow(p) ==
  LET row == slots[Len(slots)]
  IN  \E T \in Tracker :
        /\ tracker = RecordWrites(T, block[p], row.issue)
        /\ cycle = row.issue + 1
        /\ ReadyRow(T, {block[p]}, row.issue)
        /\ \A s \in BOOLEAN : Judged(s) =>
             InStep(Exact(s), T, row.issue,
                    Machine(s)[Len(slots) - 1].tracker, Machine(s)[Len(slots) - 1].cycle)

LastRow ==
  chosen = NoRow /\ slots # <<>> /\ slots[Len(slots)].padding = "NONE" =>
    \A p \in Position : slots[Len(slots)].tokens = {p} => BeforeLastRow(p)

TimingInv == block \in Blocks /\ Clocked /\ LastRow

(* The state the scheduler and the machine start in.                          *)
LEMMA StartState ==
  /\ ResetTracker \in Tracker
  /\ [tracker |-> ResetTracker, cycle |-> 0] \in MachineState
  /\ \A exact : InStep(exact, ResetTracker, 0, ResetTracker, 0)
<1>1. Idle \in Int
  BY DEF Idle
<1>2. ResetTracker \in Tracker
  BY <1>1 DEF ResetTracker, Tracker
<1>3. [tracker |-> ResetTracker, cycle |-> 0] \in MachineState
  BY <1>2 DEF MachineState
<1>4. \A exact : InStep(exact, ResetTracker, 0, ResetTracker, 0)
  <2>1. FlagLatency \in Nat /\ ClipLatency \in Nat
    BY LatencyAssumption
  <2> DEFINE T == ResetTracker
  <2> HIDE DEF T
  <2>2. T \in Tracker
    BY <1>2 DEF T
  <2>3. \A exact : InStep(exact, T, 0, T, 0)
    BY <2>1, <2>2, TrackerFields DEF InStep, NotLater, SameWait
  <2> QED
    BY <2>3 DEF T
<1> QED
  BY <1>2, <1>3, <1>4

(* The machine runs as before and then the new slot.                          *)
LEMMA MachineAppended ==
  ASSUME slots \in Seq(Slot), block' = block, NEW x \in Slot, slots' = Append(slots, x), NEW s
  PROVE  /\ Len(slots') = Len(slots) + 1 /\ Len(slots) \in Nat
         /\ \A n \in 0 .. Len(slots) : Machine(s)'[n] = Machine(s)[n]
         /\ Machine(s)'[Len(slots) + 1] = RunSlot(Machine(s)[Len(slots)], Operands(x), x, s)
         /\ \A n \in DOMAIN slots : slots'[n] = slots[n]
         /\ slots'[Len(slots) + 1] = x
<1> DEFINE F == Machine(s)
           G == Machine(s)'
           n == Len(slots)
           tl == slots'
<1>1. /\ n \in Nat /\ n + 1 \in Nat /\ n <= n /\ Len(tl) = n + 1
      /\ \A i \in 1 .. n : tl[i] = slots[i]
      /\ tl[n + 1] = x
      /\ DOMAIN slots = 1 .. n
  OBVIOUS
<1>2. RunsTo(block, slots, n, s, F)
  BY <1>1, MachineRuns DEF MachinesRun
<1>3. MachinesRun'
  BY MachineRuns, PTL
<1>4. RunsTo(block', tl, Len(tl), s, G)
  BY <1>1, <1>3 DEF MachinesRun
<1> HIDE DEF F, G, n, tl
<1>5. RunsTo(block, tl, n + 1, s, G)
  BY <1>1, <1>4
<1>8. SameSlots(slots, tl, n)
  BY <1>1 DEF SameSlots
<1>6. /\ Agree(F, G, n)
      /\ G[n + 1] = RunSlot(F[n], Taken(block, tl[n + 1]), tl[n + 1], s)
  BY <1>1, <1>2, <1>5, <1>8, LongerRun
<1>7. G[n + 1] = RunSlot(F[n], Operands(x), x, s)
  BY <1>1, <1>6 DEF Operands, Taken
<1> QED
  BY <1>1, <1>6, <1>7 DEF F, G, n, tl, Agree

(* The machine runs as before up to the last slot, and then that one anew.    *)
LEMMA MachineJoined ==
  ASSUME slots \in Seq(Slot), slots # <<>>, block' = block, slots' \in Seq(Slot),
         Len(slots') = Len(slots), \A n \in 1 .. Len(slots) - 1 : slots'[n] = slots[n], NEW s
  PROVE  /\ \A n \in 0 .. Len(slots) - 1 : Machine(s)'[n] = Machine(s)[n]
         /\ Machine(s)'[Len(slots)]
              = RunSlot(Machine(s)[Len(slots) - 1], Operands(slots'[Len(slots)]), slots'[Len(slots)], s)
<1> DEFINE F == Machine(s)
           G == Machine(s)'
           n == Len(slots)
           tl == slots'
<1>1. /\ n \in Nat /\ n - 1 \in Nat /\ n - 1 <= n /\ n = (n - 1) + 1 /\ Len(tl) = n
      /\ \A i \in 1 .. n - 1 : slots[i] = tl[i]
  OBVIOUS
<1>2. RunsTo(block, slots, n, s, F)
  BY <1>1, MachineRuns DEF MachinesRun
<1>3. MachinesRun'
  BY MachineRuns, PTL
<1>4. RunsTo(block', tl, Len(tl), s, G)
  BY <1>1, <1>3 DEF MachinesRun
<1> HIDE DEF F, G, n, tl
<1>5. RunsTo(block, tl, n, s, G)
  BY <1>1, <1>4
<1> DEFINE j == n - 1
<1>8. j \in Nat /\ j <= n /\ n = j + 1 /\ SameSlots(slots, tl, j)
  BY <1>1 DEF SameSlots
<1> HIDE DEF j
<1>6. /\ Agree(F, G, j)
      /\ G[n] = RunSlot(F[j], Taken(block, tl[n]), tl[n], s)
  BY <1>1, <1>2, <1>5, <1>8, LongerRun
<1>7. G[n] = RunSlot(F[j], Operands(tl[n]), tl[n], s)
  BY <1>6 DEF Operands, Taken
<1> QED
  BY <1>6, <1>7 DEF F, G, n, tl, j, Agree

LEMMA MachineStays ==
  ASSUME slots \in Seq(Slot), block' = block, slots' = slots, NEW s
  PROVE  \A n \in 0 .. Len(slots) : Machine(s)'[n] = Machine(s)[n]
<1> DEFINE F == Machine(s)
           G == Machine(s)'
           n == Len(slots)
<1>1. n \in Nat /\ n <= n
  OBVIOUS
<1>2. RunsTo(block, slots, n, s, F)
  BY <1>1, MachineRuns DEF MachinesRun
<1>3. MachinesRun'
  BY MachineRuns, PTL
<1>4. Len(slots') \in Nat => RunsTo(block', slots', Len(slots'), s, G)
  BY <1>3 DEF MachinesRun
<1>5. RunsTo(block, slots, n, s, G)
  BY <1>1, <1>4
<1> HIDE DEF F, G, n
<1>6. SameSlots(slots, slots, n)
  BY DEF SameSlots
<1>7. Agree(F, G, n)
  BY <1>1, <1>2, <1>5, <1>6, SameRun
<1> QED
  BY <1>7 DEF F, G, n, Agree

(* A slot s does what the scheduler thinks it does.                           *)
Keeps(s, M, row, slot, T, c) ==
  /\ RunSlot(M, row, slot, s) \in MachineState
  /\ InStep(Exact(s), T, c, RunSlot(M, row, slot, s).tracker, RunSlot(M, row, slot, s).cycle)
  /\ InTime(M, row, slot.padding, s)

LEMMA ClockedAppended ==
  ASSUME Clocked, block' = block, NEW x \in Slot, slots' = Append(slots, x),
         tracker' \in Tracker, cycle' \in Nat, PipesIdle(tracker'),
         \A s \in BOOLEAN : Judged(s) =>
           Keeps(s, Machine(s)[Len(slots)], Operands(x), x, tracker', cycle')
  PROVE  Clocked'
<1>1. slots \in Seq(Slot) /\ Len(slots) \in Nat /\ DOMAIN slots = 1 .. Len(slots)
  BY DEF Clocked
<1>2. slots' \in Seq(Slot) /\ Len(slots') = Len(slots) + 1 /\ DOMAIN slots' = 1 .. Len(slots) + 1
  BY <1>1
<1>3. PipesIdle(tracker)'
  BY DEF PipesIdle, Position
<1>4. ASSUME NEW s \in BOOLEAN, Judged(s)'
      PROVE  MachineTyped(s)' /\ ClocksInStep(s)' /\ SlotsInTime(s)'
  <2> DEFINE F == Machine(s)
             G == Machine(s)'
             n == Len(slots)
  <2>1. Judged(s)
    BY <1>4 DEF Judged, OnePipeline, Position
  <2>2. /\ \A i \in 0 .. n : F[i] \in MachineState
        /\ \A i \in DOMAIN slots : InTime(F[i - 1], Operands(slots[i]), slots[i].padding, s)
    BY <2>1 DEF Clocked, MachineTyped, SlotsInTime
  <2>3. /\ \A i \in 0 .. n : G[i] = F[i]
        /\ G[n + 1] = RunSlot(F[n], Operands(x), x, s)
        /\ \A i \in DOMAIN slots : slots'[i] = slots[i]
        /\ slots'[n + 1] = x
    BY <1>1, MachineAppended
  <2>4. Keeps(s, F[n], Operands(x), x, tracker', cycle')
    BY <2>1
  <2>5. \A i : Operands(slots[i])' = Taken(block, slots'[i])
    BY DEF Operands, Taken
  <2>6. \A i \in DOMAIN slots : Taken(block, slots'[i]) = Operands(slots[i])
    BY <2>3 DEF Operands, Taken
  <2>7. Taken(block, slots'[n + 1]) = Operands(x)
    BY <2>3 DEF Operands, Taken
  <2> HIDE DEF F, G, n
  <2>8. n \in Nat /\ n \in 0 .. n /\ (n + 1) - 1 = n
    BY <1>1 DEF n
  <2>9. \A i \in 0 .. n + 1 : G[i] \in MachineState
    <3>1. \A i \in 0 .. n + 1 : i \in 0 .. n \/ i = n + 1
      BY <2>8
    <3>2. G[n + 1] \in MachineState
      BY <2>3, <2>4 DEF Keeps
    <3> QED
      BY <2>2, <2>3, <3>1, <3>2
  <2>10. InStep(Exact(s), tracker', cycle', G[n + 1].tracker, G[n + 1].cycle)
    BY <2>3, <2>4 DEF Keeps
  <2>11. \A i \in 1 .. n + 1 : InTime(G[i - 1], Taken(block, slots'[i]), slots'[i].padding, s)
    <3>1. ASSUME NEW i \in 1 .. n PROVE InTime(G[i - 1], Taken(block, slots'[i]), slots'[i].padding, s)
      <4>1. i \in DOMAIN slots /\ i - 1 \in 0 .. n
        BY <1>1, <2>8 DEF n
      <4>2. G[i - 1] = F[i - 1] /\ slots'[i] = slots[i] /\ Taken(block, slots'[i]) = Operands(slots[i])
        BY <2>3, <2>6, <4>1
      <4>3. InTime(F[i - 1], Operands(slots[i]), slots[i].padding, s)
        BY <2>2, <4>1
      <4> QED
        BY <4>2, <4>3
    <3>2. InTime(G[n], Operands(x), x.padding, s)
      BY <2>3, <2>4, <2>8 DEF Keeps
    <3>3. InTime(G[(n + 1) - 1], Taken(block, slots'[n + 1]), slots'[n + 1].padding, s)
      BY <2>3, <2>7, <2>8, <3>2
    <3>4. \A i \in 1 .. n + 1 : i \in 1 .. n \/ i = n + 1
      BY <2>8
    <3> QED
      BY <3>1, <3>3, <3>4
  <2> QED
    BY <1>2, <2>5, <2>9, <2>10, <2>11 DEF F, G, n, MachineTyped, ClocksInStep, SlotsInTime
<1> QED
  BY <1>2, <1>3, <1>4 DEF Clocked

LEMMA ClockedJoined ==
  ASSUME Clocked, slots # <<>>, block' = block, slots' \in Seq(Slot), Len(slots') = Len(slots),
         \A n \in 1 .. Len(slots) - 1 : slots'[n] = slots[n],
         tracker' \in Tracker, cycle' \in Nat, PipesIdle(tracker'),
         \A s \in BOOLEAN : Judged(s) =>
           Keeps(s, Machine(s)[Len(slots) - 1], Operands(slots'[Len(slots)]),
                 slots'[Len(slots)], tracker', cycle')
  PROVE  Clocked'
<1>1. /\ slots \in Seq(Slot) /\ Len(slots) \in Nat /\ DOMAIN slots = 1 .. Len(slots)
      /\ Len(slots) - 1 \in Nat /\ DOMAIN slots' = 1 .. Len(slots)
  BY DEF Clocked
<1>3. PipesIdle(tracker)'
  BY DEF PipesIdle, Position
<1>4. ASSUME NEW s \in BOOLEAN, Judged(s)'
      PROVE  MachineTyped(s)' /\ ClocksInStep(s)' /\ SlotsInTime(s)'
  <2> DEFINE F == Machine(s)
             G == Machine(s)'
             n == Len(slots)
             x == slots'[Len(slots)]
  <2>1. Judged(s)
    BY <1>4 DEF Judged, OnePipeline, Position
  <2>2. /\ \A i \in 0 .. n : F[i] \in MachineState
        /\ \A i \in DOMAIN slots : InTime(F[i - 1], Operands(slots[i]), slots[i].padding, s)
    BY <2>1 DEF Clocked, MachineTyped, SlotsInTime
  <2>3. /\ \A i \in 0 .. n - 1 : G[i] = F[i]
        /\ G[n] = RunSlot(F[n - 1], Operands(x), x, s)
    BY <1>1, MachineJoined
  <2>4. Keeps(s, F[n - 1], Operands(x), x, tracker', cycle')
    BY <2>1
  <2>5. \A i : Operands(slots[i])' = Taken(block, slots'[i])
    BY DEF Operands, Taken
  <2>6. \A i \in 1 .. n - 1 : slots'[i] = slots[i] /\ Taken(block, slots'[i]) = Operands(slots[i])
    BY DEF Operands, Taken
  <2>7. Taken(block, x) = Operands(x)
    BY DEF Operands, Taken
  <2>12. x = slots'[n]
    OBVIOUS
  <2> HIDE DEF F, G, n, x
  <2>8. n \in Nat /\ n - 1 \in Nat /\ n - 1 \in 0 .. n - 1
    BY <1>1 DEF n
  <2>9. \A i \in 0 .. n : G[i] \in MachineState
    <3>1. \A i \in 0 .. n : (i \in 0 .. n - 1 /\ i \in 0 .. n) \/ i = n
      BY <2>8
    <3>2. G[n] \in MachineState
      BY <2>3, <2>4 DEF Keeps
    <3> QED
      BY <2>2, <2>3, <3>1, <3>2
  <2>10. InStep(Exact(s), tracker', cycle', G[n].tracker, G[n].cycle)
    BY <2>3, <2>4 DEF Keeps
  <2>11. \A i \in 1 .. n : InTime(G[i - 1], Taken(block, slots'[i]), slots'[i].padding, s)
    <3>1. ASSUME NEW i \in 1 .. n - 1 PROVE InTime(G[i - 1], Taken(block, slots'[i]), slots'[i].padding, s)
      <4>1. i \in DOMAIN slots /\ i - 1 \in 0 .. n - 1
        BY <1>1, <2>8 DEF n
      <4>2. G[i - 1] = F[i - 1] /\ slots'[i] = slots[i] /\ Taken(block, slots'[i]) = Operands(slots[i])
        BY <2>3, <2>6, <4>1
      <4>3. InTime(F[i - 1], Operands(slots[i]), slots[i].padding, s)
        BY <2>2, <4>1
      <4> QED
        BY <4>2, <4>3
    <3>2. InTime(G[n - 1], Operands(x), x.padding, s)
      BY <2>3, <2>4, <2>8 DEF Keeps
    <3>3. InTime(G[n - 1], Taken(block, slots'[n]), slots'[n].padding, s)
      BY <2>7, <2>12, <3>2
    <3>4. \A i \in 1 .. n : i \in 1 .. n - 1 \/ i = n
      BY <2>8
    <3> QED
      BY <3>1, <3>3, <3>4
  <2> QED
    BY <1>1, <2>5, <2>9, <2>10, <2>11 DEF F, G, n, MachineTyped, ClocksInStep, SlotsInTime
<1> QED
  BY <1>1, <1>3, <1>4 DEF Clocked

LEMMA ClockedStays ==
  ASSUME Clocked, block' = block, slots' = slots,
         tracker' \in Tracker, cycle' \in Nat, PipesIdle(tracker'),
         \A s \in BOOLEAN : Judged(s) =>
           InStep(Exact(s), tracker', cycle', Machine(s)[Len(slots)].tracker, Machine(s)[Len(slots)].cycle)
  PROVE  Clocked'
<1>1. /\ slots \in Seq(Slot) /\ Len(slots) \in Nat /\ DOMAIN slots = 1 .. Len(slots)
  BY DEF Clocked
<1>3. PipesIdle(tracker)'
  BY DEF PipesIdle, Position
<1>4. ASSUME NEW s \in BOOLEAN, Judged(s)'
      PROVE  MachineTyped(s)' /\ ClocksInStep(s)' /\ SlotsInTime(s)'
  <2> DEFINE F == Machine(s)
             G == Machine(s)'
             n == Len(slots)
  <2>1. Judged(s)
    BY <1>4 DEF Judged, OnePipeline, Position
  <2>2. /\ \A i \in 0 .. n : F[i] \in MachineState
        /\ \A i \in DOMAIN slots : InTime(F[i - 1], Operands(slots[i]), slots[i].padding, s)
    BY <2>1 DEF Clocked, MachineTyped, SlotsInTime
  <2>3. \A i \in 0 .. n : G[i] = F[i]
    BY <1>1, MachineStays
  <2>4. InStep(Exact(s), tracker', cycle', F[n].tracker, F[n].cycle)
    BY <2>1
  <2>5. \A i : Operands(slots[i])' = Operands(slots[i])
    BY DEF Operands
  <2> HIDE DEF F, G, n
  <2>8. n \in Nat /\ n \in 0 .. n /\ \A i \in 1 .. n : i - 1 \in 0 .. n
    BY <1>1 DEF n
  <2>9. \A i \in 0 .. n : G[i] \in MachineState
    BY <2>2, <2>3
  <2>10. InStep(Exact(s), tracker', cycle', G[n].tracker, G[n].cycle)
    BY <2>3, <2>4, <2>8
  <2>11. \A i \in DOMAIN slots : InTime(G[i - 1], Operands(slots[i]), slots[i].padding, s)
    BY <1>1, <2>2, <2>3, <2>8 DEF n
  <2> QED
    BY <1>1, <2>5, <2>9, <2>10, <2>11 DEF F, G, n, MachineTyped, ClocksInStep, SlotsInTime
<1> QED
  BY <1>1, <1>3, <1>4 DEF Clocked

-----------------------------------------------------------------------------
(* Waits                                                                      *)

(* A wait is for a result the row reads, two or more cycles off, and nothing   *)
(* the row reads of the other pipeline is further off.                        *)
LEMMA KindFacts ==
  ASSUME NEW row, NEW T \in Tracker, NEW c \in Int, NEW kind, kind = PaddingKind(T, row, c)
  PROVE  /\ kind \in {"WAITQ", "WAITP", "NOP"}
         /\ kind # "NOP" =>
              /\ Waited(T, kind) - c > 1
              /\ PipeReady(T, row, Waited(T, kind))
<1> DEFINE q == Gap(RowReads(row, "Q"), T.q, c)
           p == Gap(RowReads(row, "P"), T.p, c)
<1>1. T.q \in Int /\ T.p \in Int
  BY TrackerFields
<1>2. /\ RowReads(row, "Q") => q = T.q - c
      /\ RowReads(row, "P") => p = T.p - c
      /\ ~RowReads(row, "Q") => q = 0
      /\ ~RowReads(row, "P") => p = 0
  BY DEF Gap
<1>3. q \in Int /\ p \in Int
  BY <1>1, <1>2
<1>4. kind = IF q > 1 /\ q >= p THEN "WAITQ" ELSE IF p > 1 THEN "WAITP" ELSE "NOP"
  BY DEF PaddingKind
<1> HIDE DEF q, p
<1>5. CASE q > 1 /\ q >= p
  <2>1. kind = "WAITQ"
    BY <1>4, <1>5
  <2>2. RowReads(row, "Q")
    BY <1>2, <1>5
  <2>3. RowReads(row, "P") => T.p <= T.q
    BY <1>1, <1>2, <1>5, <2>2
  <2>4. T.q - c > 1 /\ T.q <= T.q
    BY <1>1, <1>2, <1>5, <2>2
  <2> QED
    BY <2>1, <2>3, <2>4 DEF Waited, PipeReady
<1>6. CASE ~(q > 1 /\ q >= p) /\ p > 1
  <2>1. kind = "WAITP"
    BY <1>4, <1>6
  <2>2. RowReads(row, "P")
    BY <1>2, <1>6
  <2>3. RowReads(row, "Q") => T.q <= T.p
    BY <1>1, <1>2, <1>3, <1>6, <2>2
  <2>4. T.p - c > 1 /\ T.p <= T.p
    BY <1>1, <1>2, <1>6, <2>2
  <2> QED
    BY <2>1, <2>3, <2>4 DEF Waited, PipeReady
<1>7. CASE ~(q > 1 /\ q >= p) /\ ~(p > 1)
  BY <1>4, <1>7
<1> QED
  BY <1>5, <1>6, <1>7

LEMMA CyclesOfWait ==
  ASSUME tracker \in Tracker, cycle \in Nat,
         NEW kind \in {"WAITQ", "WAITP"}, Waited(tracker, kind) - cycle > 1
  PROVE  /\ WaitCycles(kind) = Waited(tracker, kind) - cycle
         /\ WaitCycles(kind) \in Nat
<1>1. tracker.q \in Int /\ tracker.p \in Int
  BY TrackerFields
<1>2. Max({tracker.q, cycle + 1}) = IF tracker.q >= cycle + 1 THEN tracker.q ELSE cycle + 1
  BY <1>1, MaxOfTwo
<1>3. Max({tracker.p, cycle + 1}) = IF tracker.p >= cycle + 1 THEN tracker.p ELSE cycle + 1
  BY <1>1, MaxOfTwo
<1> HIDE DEF Max
<1>4. CASE kind = "WAITQ"
  <2>1. WaitCycles(kind) = Max({tracker.q, cycle + 1}) - cycle
    BY <1>4 DEF WaitCycles
  <2> QED
    BY <1>1, <1>2, <1>4, <2>1 DEF Waited
<1>5. CASE kind = "WAITP"
  <2>1. WaitCycles(kind) = Max({tracker.p, cycle + 1}) - cycle
    BY <1>5 DEF WaitCycles
  <2> QED
    BY <1>1, <1>3, <1>5, <2>1 DEF Waited
<1> QED
  BY <1>4, <1>5

(* Where one of the two is never written, it is not in flight.                *)
LEMMA OtherIdle ==
  ASSUME PipesIdle(tracker), OnePipeline, cycle \in Nat, tracker \in Tracker,
         NEW kind \in {"WAITQ", "WAITP"}, Waited(tracker, kind) - cycle > 1
  PROVE  Other(tracker, kind) <= cycle
<1>1. tracker.q \in Int /\ tracker.p \in Int
  BY TrackerFields
<1>2. CASE kind = "WAITQ"
  <2>1. tracker.q # Idle
    BY <1>1, <1>2 DEF Waited, Idle
  <2>2. tracker.p = Idle
    BY <2>1 DEF PipesIdle, OnePipeline
  <2> QED
    BY <1>2, <2>2 DEF Other, Idle
<1>3. CASE kind = "WAITP"
  <2>1. tracker.p # Idle
    BY <1>1, <1>3 DEF Waited, Idle
  <2>2. tracker.q = Idle
    BY <2>1 DEF PipesIdle, OnePipeline
  <2> QED
    BY <1>3, <2>2 DEF Other, Idle
<1> QED
  BY <1>2, <1>3

(* Recording the tokens of the block leaves an unused pipeline alone.         *)
LEMMA IdleRecorded ==
  ASSUME NEW T, PipesIdle(T), NEW i \in Position, NEW at
  PROVE  PipesIdle(RecordWrites(T, block[i], at))
<1> DEFINE R == RecordWrites(T, block[i], at)
<1>1. /\ ~TokenWrites(block[i], "Q") => R.q = T.q
      /\ ~TokenWrites(block[i], "P") => R.p = T.p
  BY DEF RecordWrites
<1> HIDE DEF R
<1>2. PipesIdle(R)
  BY <1>1 DEF PipesIdle
<1> QED
  BY <1>2 DEF R

LEMMA IdleRow ==
  ASSUME NEW T, PipesIdle(T), NEW i \in Position, NEW j \in Position, NEW at
  PROVE  PipesIdle(RecordRow(T, {block[i], block[j]}, at))
<1>1. PICK x, y : RecordsInOrder({block[i], block[j]}, y, x)
  BY RowOrder
<1>2. (x = block[i] \/ x = block[j]) /\ (y = block[i] \/ y = block[j])
  BY <1>1 DEF RecordsInOrder
<1>3. PipesIdle(RecordWrites(T, x, at)) /\ PipesIdle(RecordWrites(T, y, at))
  BY <1>2, IdleRecorded
<1>4. PipesIdle(RecordWrites(RecordWrites(T, y, at), x, at))
  BY <1>2, <1>3, IdleRecorded
<1> QED
  BY <1>1, <1>3, <1>4 DEF RecordsInOrder

LEMMA IdlePushed ==
  ASSUME NEW T \in Tracker, PipesIdle(T)
  PROVE  PipesIdle(DelayPipelinedResultsBy(T, 1))
<1> DEFINE D == DelayPipelinedResultsBy(T, 1)
<1>1. D = [T EXCEPT !.q = IF @ >= 0 THEN @ + 1 ELSE @, !.p = IF @ >= 0 THEN @ + 1 ELSE @]
  BY DEF DelayPipelinedResultsBy
<1>2. /\ D.q = IF T.q >= 0 THEN T.q + 1 ELSE T.q
      /\ D.p = IF T.p >= 0 THEN T.p + 1 ELSE T.p
  BY <1>1 DEF Tracker
<1> HIDE DEF D
<1>3. (T.q = Idle => D.q = Idle) /\ (T.p = Idle => D.p = Idle)
  BY <1>2 DEF Idle
<1>4. PipesIdle(D)
  BY <1>3 DEF PipesIdle
<1> QED
  BY <1>4 DEF D
-----------------------------------------------------------------------------
(* The rounds keep the clocks in step *)

(* The tokens a round works with are instructions of the block.               *)
LEMMA PositionFacts ==
  ASSUME BlockInv
  PROVE  /\ Position \in SUBSET Nat
         /\ \A i \in Position : block[i] \in Instruction
         /\ \A i, j \in Position : {block[i], block[j]} \in Row
         /\ segment.ignored \in SUBSET {"MAC", "CLIP", "STATUS"}
<1>1. Len(block) \in Nat /\ Position = 1 .. Len(block)
  BY InvFacts DEF BlockInv
<1>2. block \in Seq(Instruction)
  BY DEF BlockInv, Segmented
<1>3. \A i \in Position : block[i] \in Instruction
  BY <1>1, <1>2
<1>4. \A i, j \in Position : {block[i], block[j]} \in Row
  BY <1>3 DEF Row
<1>5. segment.ignored \in SUBSET {"MAC", "CLIP", "STATUS"}
  <2>1. segment = SegmentFrom(segment.first)
    BY DEF BlockInv, Segmented
  <2>2. SegmentFrom(segment.first).ignored \in SUBSET {"MAC", "CLIP", "STATUS"}
    BY DEF SegmentFrom, IgnoredFlags
  <2> QED
    BY <2>1, <2>2
<1> QED
  BY <1>1, <1>3, <1>4, <1>5

(* What a round chose is a row of one or two of them.                         *)
LEMMA ChosenFacts ==
  ASSUME BlockInv, chosen # {}
  PROVE  \E i, j \in Position : chosen = {i, j}
<1>1. CASE \E i, j : Ready(i) /\ Ready(j) /\ chosen = {i, j}
  <2>1. PICK i, j : Ready(i) /\ Ready(j) /\ chosen = {i, j}
    BY <1>1
  <2>2. i \in Segment /\ j \in Segment
    BY <2>1 DEF Ready, Remaining
  <2>3. Segment \subseteq Position
    BY InvFacts DEF BlockInv, Segmented, Segment
  <2> QED
    BY <2>1, <2>2, <2>3
<1>2. CASE AtLastTail
  <2>1. segment.last + 1 \in Position /\ chosen = {segment.last + 1, segment.last + 1}
    BY <1>2, TailIsNext DEF AtLastTail
  <2> QED
    BY <2>1
<1> QED
  BY <1>1, <1>2 DEF BlockInv, ChosenRow

(* Nothing has run when the loop begins.                                      *)
LEMMA InitTiming == Init => TimingInv
<1> SUFFICES ASSUME Init PROVE TimingInv
  OBVIOUS
<1>1. slots = <<>> /\ tracker = ResetTracker /\ cycle = 0 /\ block \in Blocks
  BY DEF Init
<1>2. slots \in Seq(Slot) /\ Len(slots) = 0 /\ DOMAIN slots = {}
  BY <1>1
<1>3. ResetTracker \in Tracker /\ PipesIdle(ResetTracker)
  BY StartState DEF PipesIdle, ResetTracker
<1>4. ASSUME NEW s \in BOOLEAN
      PROVE  MachineTyped(s) /\ ClocksInStep(s) /\ SlotsInTime(s)
  <2> DEFINE start == [tracker |-> ResetTracker, cycle |-> 0]
             F == Machine(s)
  <2>1. RunsTo(block, slots, 0, s, F)
    BY <1>2, MachineRuns DEF MachinesRun
  <2> HIDE DEF F
  <2>2. F[0] = start
    BY <2>1, RunsUnrolled
  <2>3. start \in MachineState /\ start.tracker = ResetTracker /\ start.cycle = 0
    BY StartState
  <2>4. InStep(Exact(s), ResetTracker, 0, ResetTracker, 0)
    BY StartState
  <2> HIDE DEF start
  <2>5. MachineTyped(s)
    BY <1>2, <2>2, <2>3 DEF MachineTyped, F
  <2>6. ClocksInStep(s)
    BY <1>1, <1>2, <2>2, <2>3, <2>4 DEF ClocksInStep, F
  <2>7. SlotsInTime(s)
    BY <1>2 DEF SlotsInTime
  <2> QED
    BY <2>5, <2>6, <2>7
<1>5. Clocked
  BY <1>1, <1>2, <1>3, <1>4 DEF Clocked
<1>6. LastRow
  BY <1>1 DEF LastRow
<1> QED
  BY <1>1, <1>5, <1>6 DEF TimingInv

(* A token beside a wait issues in its last cycle.                            *)
LEMMA WaitRowTiming ==
  ASSUME BlockInv, TimingInv, NEW i \in Position,
         NEW kind \in {"WAITQ", "WAITP"}, Waited(tracker, kind) - cycle > 1,
         PipeReady(tracker, {block[i]}, Waited(tracker, kind)),
         \/ FmacInterlock
         \/ RegistersReady(tracker, {block[i]}, cycle) /\ FlagReady(tracker, {block[i]}, cycle)
         \/ /\ RegisterReads({block[i]}) \subseteq FloatRegister
            /\ \A f \in {"MAC", "CLIP", "STATUS"} : ~RowReads({block[i]}, f),
         WaitRow(i, kind)
  PROVE  TimingInv'
<1> DEFINE w == WaitCycles(kind)
           x == [ tokens |-> {i}, padding |-> kind, issue |-> cycle, cycles |-> w + 1,
                  words |-> 1, ignored |-> segment.ignored ]
           row == {block[i]}
<1>1. Clocked /\ tracker \in Tracker /\ cycle \in Nat /\ PipesIdle(tracker) /\ slots \in Seq(Slot)
  BY DEF TimingInv, Clocked
<1>2. w = Waited(tracker, kind) - cycle /\ w \in Nat
  BY <1>1, CyclesOfWait
<1>3. /\ slots' = Append(slots, x)
      /\ tracker' = RecordWrites(tracker, block[i], cycle + w)
      /\ cycle' = cycle + w + 1
      /\ UNCHANGED <<block, live, segment, chosen>>
  BY DEF WaitRow
<1>4. block[i] \in Instruction /\ {block[i], block[i]} \in Row /\ i \in Nat
      /\ segment.ignored \in SUBSET {"MAC", "CLIP", "STATUS"}
  BY PositionFacts
<1> HIDE DEF w
<1>5. x \in Slot
  BY <1>1, <1>2, <1>4 DEF Slot
<1>6. Operands(x) = row /\ row \in Row /\ x.padding = kind
  BY <1>4 DEF Operands
<1>7. Waited(tracker, kind) = cycle + w
  <2>1. Waited(tracker, kind) \in Int
    BY <1>1, TrackerFields DEF Waited
  <2> QED
    BY <2>1, <1>1, <1>2
<1>8. PipeReady(tracker, row, cycle + w)
  BY <1>7
<1>9. RecordRow(tracker, row, cycle + w) = tracker'
  BY <1>3, SingleRow
<1>10. tracker' \in Tracker /\ cycle' \in Nat /\ PipesIdle(tracker')
  <2>1. RecordWrites(tracker, block[i], cycle + w) \in Tracker
    BY <1>1, <1>2, <1>4, RecordTyped
  <2>2. PipesIdle(RecordWrites(tracker, block[i], cycle + w))
    BY <1>1, IdleRecorded
  <2> QED
    BY <1>1, <1>2, <1>3, <2>1, <2>2
<1> HIDE DEF x, row
<1>11. ASSUME NEW s \in BOOLEAN, Judged(s)
       PROVE  Keeps(s, Machine(s)[Len(slots)], Operands(x), x, tracker', cycle')
  <2> DEFINE M == Machine(s)[Len(slots)]
  <2>1. M \in MachineState
    <3>1. MachineTyped(s) /\ Len(slots) \in Nat
      BY <1>1, <1>11 DEF Clocked
    <3> QED
      BY <3>1 DEF MachineTyped
  <2>2. InStep(Exact(s), tracker, cycle, M.tracker, M.cycle)
    BY <1>1, <1>11 DEF Clocked, ClocksInStep
  <2>3. s => Other(tracker, kind) <= cycle
    BY <1>1, <1>11, OtherIdle DEF Judged
  <2> HIDE DEF M
  <2>4. cycle \in Int /\ w > 1
    BY <1>1, <1>2
  <2>5. \/ FmacInterlock
        \/ RegistersReady(tracker, row, cycle) /\ FlagReady(tracker, row, cycle)
        \/ /\ RegisterReads(row) \subseteq FloatRegister
           /\ \A f \in {"MAC", "CLIP", "STATUS"} : ~RowReads(row, f)
    BY DEF row
  <2>6. /\ RunSlot(M, row, x, s) \in MachineState
        /\ InStep(Exact(s), RecordRow(tracker, row, cycle + w), cycle + w + 1,
                  RunSlot(M, row, x, s).tracker, RunSlot(M, row, x, s).cycle)
        /\ InTime(M, row, x.padding, s)
    BY <1>1, <1>2, <1>6, <1>8, <2>1, <2>2, <2>3, <2>4, <2>5, WaitRowStep
  <2>7. Keeps(s, M, row, x, tracker', cycle')
    BY <1>3, <1>9, <2>6 DEF Keeps
  <2> QED
    BY <1>6, <2>7 DEF M
<1>12. Clocked'
  BY <1>1, <1>3, <1>5, <1>10, <1>11, ClockedAppended
<1>13. LastRow'
  <2>1. slots'[Len(slots')] = x
    BY <1>1, <1>3
  <2>2. x.padding # "NONE"
    BY <1>6
  <2> QED
    BY <2>1, <2>2 DEF LastRow
<1> QED
  BY <1>3, <1>12, <1>13 DEF TimingInv

(* A row that waits for nothing reads what is ready.                          *)
LEMMA NoWait ==
  ASSUME NEW row \in Row, NEW T \in Tracker, NEW c \in Nat, HazardDelay(T, row, c, FALSE) <= 0
  PROVE  PipeReady(T, row, c) /\ FlagReady(T, row, c) /\ RegistersReady(T, row, c)
<1> DEFINE no == FALSE
<1>1. c \in Int
  OBVIOUS
<1>2. no = FALSE
  BY Zenon
<1>3. HazardDelay(T, row, c, no) <= 0
  BY Zenon
<1> HIDE DEF no
<1>4. PipeReady(T, row, c) /\ FlagReady(T, row, c) /\ ReadyBut(T, row, c, no)
  BY <1>1, <1>3, HazardWait
<1> QED
  BY <1>2, <1>4, ReadyAll

(* The filler waits for nothing, not even in the last cycle of the wait.      *)
LEMMA FillWaitTiming ==
  ASSUME BlockInv, TimingInv, NEW w \in Remaining, NEW u \in Remaining, FillWait(w, u)
  PROVE  TimingInv'
<1> DEFINE kind == KindOf({w})
           row == {block[u]}
<1>1. tracker \in Tracker /\ cycle \in Nat
  BY DEF TimingInv, Clocked
<1>2. kind # "NOP" /\ DelayOf({u}) <= 0 /\ WaitRow(u, kind)
  BY DEF FillWait, Filler
<1>3. u \in Position
  <2>1. Segment \subseteq Position
    BY InvFacts DEF BlockInv, Segmented, Segment
  <2> QED
    BY <2>1 DEF Remaining
<1>4. kind = PaddingKind(tracker, {block[w]}, cycle)
  BY DEF KindOf
<1>5. DelayOf({u}) = HazardDelay(tracker, row, cycle, FALSE)
  BY DEF DelayOf, ReadHazardDelay
<1>6. row \in Row
  <2>1. {block[u], block[u]} \in Row
    BY <1>3, PositionFacts
  <2> QED
    BY <2>1
<1> HIDE DEF kind, row
<1>7. kind \in {"WAITQ", "WAITP"} /\ Waited(tracker, kind) - cycle > 1
  BY <1>1, <1>2, <1>4, KindFacts
<1>8. PipeReady(tracker, row, cycle) /\ FlagReady(tracker, row, cycle) /\ RegistersReady(tracker, row, cycle)
  BY <1>1, <1>2, <1>5, <1>6, NoWait
<1>9. PipeReady(tracker, row, Waited(tracker, kind))
  <2>1. Waited(tracker, kind) \in Int /\ cycle \in Int
    BY <1>1, TrackerFields DEF Waited
  <2>2. Waited(tracker, kind) >= cycle
    BY <2>1, <1>7
  <2>3. row \in AnyRow
    BY <1>6 DEF AnyRow
  <2> QED
    BY <1>1, <1>8, <2>1, <2>2, <2>3, LaterIsReady
<1> QED
  BY <1>2, <1>3, <1>7, <1>8, <1>9, WaitRowTiming DEF row

(* An upper token that waits reads nothing the machine would not stall for.   *)
LEMMA IssueWaitingUpperTiming ==
  ASSUME BlockInv, TimingInv, NEW i \in Remaining, IssueWaitingUpper(i)
  PROVE  TimingInv'
<1> DEFINE kind == KindOf({i})
           row == {block[i]}
<1>1. tracker \in Tracker /\ cycle \in Nat /\ block \in Blocks
  BY DEF TimingInv, Clocked
<1>2. kind # "NOP" /\ ~Lower(i) /\ WaitRow(i, kind)
  BY DEF IssueWaitingUpper, WaitsBesideItself
<1>3. i \in Position
  <2>1. Segment \subseteq Position
    BY InvFacts DEF BlockInv, Segmented, Segment
  <2> QED
    BY <2>1 DEF Remaining
<1>4. kind = PaddingKind(tracker, row, cycle)
  BY DEF KindOf
<1>5. /\ block[i].access.registerReads \subseteq FloatRegister
      /\ block[i].access.implicitReads \cap {"MAC", "CLIP", "STATUS"} = {}
  <2>1. ~block[i].lower \/ block[i].form = "MOVE"
    BY <1>2 DEF Lower, SchedulesAsLower
  <2> QED
    BY <1>1, <1>3, <2>1, UpperAssumption DEF Position
<1>6. /\ RegisterReads(row) \subseteq FloatRegister
      /\ \A f \in {"MAC", "CLIP", "STATUS"} : ~RowReads(row, f)
  BY <1>5 DEF RegisterReads, RowReads, TokenReads
<1> HIDE DEF kind, row
<1>7. /\ kind \in {"WAITQ", "WAITP"}
      /\ Waited(tracker, kind) - cycle > 1
      /\ PipeReady(tracker, row, Waited(tracker, kind))
  BY <1>1, <1>2, <1>4, KindFacts
<1> QED
  BY <1>2, <1>3, <1>6, <1>7, WaitRowTiming DEF row

(* Choosing takes no time.                                                    *)
LEMMA ChoiceTiming ==
  ASSUME TimingInv, UNCHANGED <<block, slots, tracker, cycle>>, chosen' # {}
  PROVE  TimingInv'
<1>1. Clocked /\ tracker \in Tracker /\ cycle \in Nat /\ PipesIdle(tracker)
  BY DEF TimingInv, Clocked
<1>2. \A s \in BOOLEAN : Judged(s) =>
        InStep(Exact(s), tracker', cycle', Machine(s)[Len(slots)].tracker, Machine(s)[Len(slots)].cycle)
  BY <1>1 DEF Clocked, ClocksInStep
<1>3. Clocked'
  BY <1>1, <1>2, ClockedStays
<1> QED
  BY <1>3 DEF TimingInv, LastRow, NoRow

(* Nor does a step that changes nothing.                                      *)
LEMMA StutterTiming ==
  ASSUME TimingInv, UNCHANGED vars
  PROVE  TimingInv'
<1>1. Clocked /\ tracker \in Tracker /\ cycle \in Nat /\ PipesIdle(tracker) /\ slots \in Seq(Slot)
  BY DEF TimingInv, Clocked
<1>2. \A s \in BOOLEAN : Judged(s) =>
        InStep(Exact(s), tracker', cycle', Machine(s)[Len(slots)].tracker, Machine(s)[Len(slots)].cycle)
  BY <1>1 DEF Clocked, ClocksInStep, vars
<1>3. UNCHANGED <<block, slots, tracker, cycle, chosen>>
  BY DEF vars
<1>4. Clocked'
  BY <1>1, <1>2, <1>3, ClockedStays
<1>5. ASSUME NEW p, slots # <<>>, BeforeLastRow(p)
      PROVE  BeforeLastRow(p)'
  <2>1. /\ \A s \in BOOLEAN : Judged(s)' = Judged(s)
        /\ slots[Len(slots)]' = slots[Len(slots)]
        /\ block[p]' = block[p]
    BY <1>3 DEF Judged, OnePipeline, Position
  <2>2. \A s \in BOOLEAN : Machine(s)'[Len(slots) - 1] = Machine(s)[Len(slots) - 1]
    <3>1. Len(slots) - 1 \in 0 .. Len(slots)
      BY <1>1, <1>5
    <3> QED
      BY <1>1, <1>3, <3>1, MachineStays
  <2> QED
    BY <1>3, <1>5, <2>1, <2>2 DEF BeforeLastRow
<1>6. LastRow'
  BY <1>3, <1>5 DEF TimingInv, LastRow, Position
<1> QED
  BY <1>3, <1>4, <1>6 DEF TimingInv

(* A word of padding, a wait and a stall that is no word all take the machine *)
(* as far as they take the clock.                                             *)
LEMMA PadTiming ==
  ASSUME BlockInv, TimingInv, Pad
  PROVE  TimingInv'
<1> DEFINE kind == KindOf(chosen)
           row == {block[k] : k \in chosen}
           count == WaitCycles(kind)
           manual == ManualReadHazardDelay(tracker, row, cycle)
           words == PaddingWords(kind, manual)
           x == [ tokens |-> {}, padding |-> kind, issue |-> cycle, cycles |-> count,
                  words |-> words, ignored |-> {} ]
<1>1. Clocked /\ tracker \in Tracker /\ cycle \in Nat /\ PipesIdle(tracker) /\ slots \in Seq(Slot)
  BY DEF TimingInv, Clocked
<1>2. /\ chosen # {} /\ chosen' # {} /\ UNCHANGED <<block, chosen>>
      /\ slots' = IF words > 0 THEN Append(slots, x) ELSE slots
      /\ tracker' = DelayPipelinedResultsBy(tracker, count - words)
      /\ cycle' = cycle + count
  BY DEF Pad, NoRow
<1>3. row \in Row
  <2>1. PICK i, j \in Position : chosen = {i, j}
    BY <1>2, ChosenFacts
  <2>2. row = {block[i], block[j]}
    BY <2>1
  <2> QED
    BY <2>1, <2>2, PositionFacts
<1>4. kind = PaddingKind(tracker, row, cycle)
  BY DEF KindOf
<1>5. manual \in Nat
  <2> DEFINE yes == TRUE
  <2>1. manual = HazardDelay(tracker, row, cycle, yes) /\ cycle \in Int
    BY <1>1 DEF ManualReadHazardDelay
  <2> HIDE DEF row, manual, yes
  <2>2. HazardDelay(tracker, row, cycle, yes) \in Nat
    BY <1>1, <1>3, <2>1, HazardWait
  <2> QED
    BY <2>1, <2>2
<1>6. words = IF FmacInterlock /\ kind = "NOP" THEN Min({manual, 1}) ELSE count
  BY DEF PaddingWords
<1>7. kind = "NOP" => count = 1
  BY DEF WaitCycles
<1>8. kind \in {"WAITQ", "WAITP"} => count = Waited(tracker, kind) - cycle /\ count \in Nat /\ count > 1
  <2> HIDE DEF kind, row
  <2>1. kind # "NOP" => Waited(tracker, kind) - cycle > 1
    BY <1>1, <1>4, KindFacts
  <2> SUFFICES ASSUME kind \in {"WAITQ", "WAITP"}
               PROVE  count = Waited(tracker, kind) - cycle /\ count \in Nat /\ count > 1
    OBVIOUS
  <2>2. WaitCycles(kind) = Waited(tracker, kind) - cycle /\ WaitCycles(kind) \in Nat
    BY <1>1, <2>1, CyclesOfWait
  <2> QED
    BY <2>1, <2>2
<1> HIDE DEF row, count, manual, words
<1>9. kind \in {"WAITQ", "WAITP", "NOP"}
  BY <1>1, <1>4, KindFacts
<1> HIDE DEF kind
<1>10. Operands(x) = {} /\ x.padding = kind /\ x.words = words
  BY DEF Operands
<1>11. words \in Nat /\ count \in Nat => x \in Slot
  BY <1>1, <1>9 DEF Slot
<1>12. ASSUME NEW s \in BOOLEAN, Judged(s)
       PROVE  /\ Machine(s)[Len(slots)] \in MachineState
              /\ InStep(Exact(s), tracker, cycle,
                        Machine(s)[Len(slots)].tracker, Machine(s)[Len(slots)].cycle)
  <2>1. MachineTyped(s) /\ Len(slots) \in Nat
    BY <1>1, <1>12 DEF Clocked
  <2>2. ClocksInStep(s)
    BY <1>1, <1>12 DEF Clocked
  <2> QED
    BY <2>1, <2>2 DEF MachineTyped, ClocksInStep
<1> HIDE DEF x
<1>13. CASE kind \in {"WAITQ", "WAITP"}
  <2>1. words = count /\ count \in Nat /\ words > 0 /\ count - words = 0
    BY <1>6, <1>8, <1>13
  <2>2. slots' = Append(slots, x) /\ tracker' = tracker /\ cycle' = cycle + count
    BY <1>2, <2>1 DEF DelayPipelinedResultsBy
  <2>3. ASSUME NEW s \in BOOLEAN, Judged(s)
        PROVE  Keeps(s, Machine(s)[Len(slots)], Operands(x), x, tracker', cycle')
    <3> DEFINE M == Machine(s)[Len(slots)]
    <3>1. M \in MachineState /\ InStep(Exact(s), tracker, cycle, M.tracker, M.cycle)
      BY <1>12, <2>3
    <3>2. s => Other(tracker, kind) <= cycle
      BY <1>1, <1>8, <1>13, <2>3, OtherIdle DEF Judged
    <3> HIDE DEF M
    <3>3. cycle \in Int /\ count > 1 /\ count = Waited(tracker, kind) - cycle
      BY <1>1, <1>8, <1>13
    <3>4. /\ RunSlot(M, {}, x, s) \in MachineState
          /\ InStep(Exact(s), tracker, cycle + count, RunSlot(M, {}, x, s).tracker, RunSlot(M, {}, x, s).cycle)
      BY <1>1, <1>10, <1>13, <2>1, <3>1, <3>2, <3>3, WaitStep
    <3>5. InTime(M, {}, x.padding, s)
      BY <3>1, EmptyInTime
    <3> QED
      BY <1>10, <2>2, <3>4, <3>5 DEF Keeps, M
  <2>4. Clocked'
    BY <1>1, <1>2, <1>11, <2>1, <2>2, <2>3, ClockedAppended
  <2> QED
    BY <1>2, <2>4 DEF TimingInv, LastRow, NoRow
<1>14. CASE kind = "NOP" /\ words = 1
  <2>1. slots' = Append(slots, x) /\ tracker' = tracker /\ cycle' = cycle + 1
    BY <1>2, <1>7, <1>14 DEF DelayPipelinedResultsBy
  <2>2. ASSUME NEW s \in BOOLEAN, Judged(s)
        PROVE  Keeps(s, Machine(s)[Len(slots)], Operands(x), x, tracker', cycle')
    <3> DEFINE M == Machine(s)[Len(slots)]
    <3>1. M \in MachineState /\ InStep(Exact(s), tracker, cycle, M.tracker, M.cycle)
      BY <1>12, <2>2
    <3> HIDE DEF M
    <3>2. cycle \in Int
      BY <1>1
    <3>3. /\ RunSlot(M, {}, x, s) \in MachineState
          /\ InStep(Exact(s), tracker, cycle + 1, RunSlot(M, {}, x, s).tracker, RunSlot(M, {}, x, s).cycle)
      BY <1>1, <1>10, <1>14, <3>1, <3>2, NopStep
    <3>4. InTime(M, {}, x.padding, s)
      BY <3>1, EmptyInTime
    <3> QED
      BY <1>10, <2>1, <3>3, <3>4 DEF Keeps, M
  <2>3. x \in Slot
    BY <1>7, <1>11, <1>14
  <2>4. Clocked'
    BY <1>1, <1>2, <2>1, <2>2, <2>3, ClockedAppended
  <2> QED
    BY <1>2, <2>4 DEF TimingInv, LastRow, NoRow
<1>15. CASE kind = "NOP" /\ words # 1
  <2>1. FmacInterlock /\ words = 0
    BY <1>5, <1>6, <1>7, <1>15, MinOfTwo
  <2>2. slots' = slots /\ tracker' = DelayPipelinedResultsBy(tracker, 1) /\ cycle' = cycle + 1
    BY <1>2, <1>7, <1>15, <2>1
  <2>3. ASSUME NEW s \in BOOLEAN, Judged(s)
        PROVE  InStep(Exact(s), tracker', cycle', Machine(s)[Len(slots)].tracker, Machine(s)[Len(slots)].cycle)
    <3> DEFINE M == Machine(s)[Len(slots)]
    <3>1. M.tracker \in Tracker /\ M.cycle \in Int /\ InStep(Exact(s), tracker, cycle, M.tracker, M.cycle)
      BY <1>12, <2>3 DEF MachineState
    <3> HIDE DEF M
    <3>2. InStep(Exact(s), DelayPipelinedResultsBy(tracker, 1), cycle + 1, M.tracker, M.cycle)
      BY <1>1, <2>1, <3>1, PushStep
    <3> QED
      BY <2>2, <3>2 DEF M
  <2>4. tracker' \in Tracker /\ PipesIdle(tracker')
    <3>1. DelayPipelinedResultsBy(tracker, 1) \in Tracker
      BY <1>1, PushTyped
    <3>2. PipesIdle(DelayPipelinedResultsBy(tracker, 1))
      BY <1>1, IdlePushed
    <3> QED
      BY <2>2, <3>1, <3>2
  <2>5. Clocked'
    BY <1>1, <1>2, <2>2, <2>3, <2>4, ClockedStays
  <2> QED
    BY <1>2, <2>5 DEF TimingInv, LastRow, NoRow
<1> QED
  BY <1>9, <1>13, <1>14, <1>15

(* A row that goes out is one the machine finds as ready as the clock does.   *)
LEMMA IssueTiming ==
  ASSUME BlockInv, TimingInv, Issue
  PROVE  TimingInv'
<1> DEFINE row == {block[k] : k \in chosen}
           ignored == IF \E k \in chosen : ~block[k].candidate THEN {} ELSE segment.ignored
           x == [ tokens |-> chosen, padding |-> "NONE", issue |-> cycle, cycles |-> 1, words |-> 1,
                  ignored |-> ignored ]
<1>1. Clocked /\ tracker \in Tracker /\ cycle \in Nat /\ PipesIdle(tracker) /\ slots \in Seq(Slot)
  BY DEF TimingInv, Clocked
<1>2. /\ chosen # {} /\ chosen' = {} /\ UNCHANGED <<block, live>>
      /\ slots' = Append(slots, x)
      /\ tracker' = RecordRow(tracker, row, cycle)
      /\ cycle' = cycle + 1
  BY DEF Issue, NoRow
<1>3. PICK i, j \in Position : chosen = {i, j}
  BY <1>2, ChosenFacts
<1>4. row = {block[i], block[j]} /\ row \in Row
  <2>1. row = {block[i], block[j]}
    BY <1>3
  <2> QED
    BY <2>1, PositionFacts
<1>5. ReadyRow(tracker, row, cycle)
  <2>1. HazardDelay(tracker, row, cycle, FALSE) <= 0
    BY DEF Issue, DelayOf, ReadHazardDelay
  <2> HIDE DEF row
  <2>2. PipeReady(tracker, row, cycle) /\ FlagReady(tracker, row, cycle) /\ RegistersReady(tracker, row, cycle)
    BY <1>1, <1>4, <2>1, NoWait
  <2> QED
    BY <2>2 DEF ReadyRow
<1>6. x \in Slot
  <2>1. ignored \in SUBSET {"MAC", "CLIP", "STATUS"}
    BY PositionFacts
  <2>2. chosen \in SUBSET Nat
    BY <1>3, PositionFacts
  <2> HIDE DEF ignored
  <2> QED
    BY <1>1, <2>1, <2>2 DEF Slot
<1>7. Operands(x) = row /\ x.padding = "NONE" /\ x.tokens = chosen /\ x.issue = cycle
  BY DEF Operands
<1>8. tracker' \in Tracker /\ cycle' \in Nat /\ PipesIdle(tracker')
  <2>1. cycle \in Int
    BY <1>1
  <2> HIDE DEF row
  <2>2. RecordRow(tracker, row, cycle) \in Tracker
    BY <1>1, <1>4, <2>1, RowTyped
  <2>3. PipesIdle(RecordRow(tracker, row, cycle))
    BY <1>1, <1>4, IdleRow
  <2> QED
    BY <1>1, <1>2, <2>2, <2>3
<1> HIDE DEF row, x
<1>9. ASSUME NEW s \in BOOLEAN, Judged(s)
      PROVE  /\ Machine(s)[Len(slots)] \in MachineState
             /\ InStep(Exact(s), tracker, cycle,
                       Machine(s)[Len(slots)].tracker, Machine(s)[Len(slots)].cycle)
  <2>1. MachineTyped(s) /\ Len(slots) \in Nat
    BY <1>1, <1>9 DEF Clocked
  <2>2. ClocksInStep(s)
    BY <1>1, <1>9 DEF Clocked
  <2> QED
    BY <2>1, <2>2 DEF MachineTyped, ClocksInStep
<1>10. ASSUME NEW s \in BOOLEAN, Judged(s)
       PROVE  Keeps(s, Machine(s)[Len(slots)], Operands(x), x, tracker', cycle')
  <2> DEFINE M == Machine(s)[Len(slots)]
  <2>1. M \in MachineState /\ InStep(Exact(s), tracker, cycle, M.tracker, M.cycle)
    BY <1>9, <1>10
  <2> HIDE DEF M
  <2>2. cycle \in Int
    BY <1>1
  <2>3. /\ RunSlot(M, row, x, s) \in MachineState
        /\ InStep(Exact(s), RecordRow(tracker, row, cycle), cycle + 1,
                  RunSlot(M, row, x, s).tracker, RunSlot(M, row, x, s).cycle)
        /\ InTime(M, row, x.padding, s)
    BY <1>1, <1>4, <1>5, <1>7, <2>1, <2>2, IssueStep
  <2>4. Keeps(s, M, row, x, tracker', cycle')
    BY <1>2, <2>3 DEF Keeps
  <2> QED
    BY <1>7, <2>4 DEF M
<1>11. Clocked'
  BY <1>1, <1>2, <1>6, <1>8, <1>10, ClockedAppended
<1>12. /\ Len(slots) \in Nat /\ Len(slots') = Len(slots) + 1
       /\ slots'[Len(slots')] = x
  BY <1>1, <1>2
<1>13. ASSUME NEW p \in Position, x.tokens = {p}
       PROVE  BeforeLastRow(p)'
  <2>1. row = {block[p]}
    BY <1>7, <1>13 DEF row
  <2>2. tracker' = RecordWrites(tracker, block[p], cycle)
    BY <1>2, <2>1, SingleRow
  <2>3. ReadyRow(tracker, {block[p]}, cycle)
    BY <1>5, <2>1
  <2>4. ASSUME NEW s \in BOOLEAN, Judged(s)'
        PROVE  InStep(Exact(s), tracker, cycle, Machine(s)'[Len(slots)].tracker, Machine(s)'[Len(slots)].cycle)
    <3>1. Judged(s)
      BY <1>2, <2>4 DEF Judged, OnePipeline, Position
    <3>2. InStep(Exact(s), tracker, cycle, Machine(s)[Len(slots)].tracker, Machine(s)[Len(slots)].cycle)
      BY <1>9, <3>1
    <3>3. \A n \in 0 .. Len(slots) : Machine(s)'[n] = Machine(s)[n]
      BY <1>1, <1>2, <1>6, MachineAppended
    <3>4. Len(slots) \in 0 .. Len(slots)
      BY <1>12
    <3> QED
      BY <3>2, <3>3, <3>4
  <2>5. slots'[Len(slots')].issue = cycle /\ Len(slots') - 1 = Len(slots)
    BY <1>7, <1>12
  <2> QED
    BY <1>1, <1>2, <2>2, <2>3, <2>4, <2>5 DEF BeforeLastRow
<1>14. LastRow'
  <2>1. \A p \in Position : x.tokens = {p} => BeforeLastRow(p)'
    BY <1>13
  <2> QED
    BY <1>2, <1>12, <2>1 DEF LastRow, Position
<1> QED
  BY <1>2, <1>11, <1>14 DEF TimingInv

(* A row the tail may join holds one token and was recorded last.             *)
LEMMA TailJoins ==
  ASSUME BlockInv, TimingInv, PairTail, NEW t, t = segment.last + 1
  PROVE  /\ t \in Position
         /\ slots # <<>>
         /\ slots' = [slots EXCEPT ![Len(slots)].tokens = @ \cup {t}]
         /\ tracker' = RecordWrites(tracker, block[t], slots[Len(slots)].issue)
         /\ PairingHazardDelay({block[t]}, slots[Len(slots)].issue, FALSE) <= 0
         /\ UNCHANGED <<block, cycle, chosen>> /\ chosen = NoRow
         /\ slots[Len(slots)].padding = "NONE"
         /\ \E p \in Position :
              /\ p # t
              /\ slots[Len(slots)].tokens = {p}
              /\ TailFits(block[p], block[t], slots[Len(slots)].ignored)
              /\ BeforeLastRow(p)
<1> DEFINE row == slots[Len(slots)]
<1>1. /\ AtTail /\ JoinsRow(t)
      /\ slots' = [slots EXCEPT ![Len(slots)].tokens = @ \cup {t}]
      /\ tracker' = RecordWrites(tracker, block[t], row.issue)
      /\ UNCHANGED <<block, cycle, chosen>>
  BY DEF PairTail
<1>2. t \in Position /\ ~Scheduled(t)
  BY <1>1, TailIsNext DEF AtTail
<1>3. /\ slots # <<>> /\ chosen = NoRow /\ row.padding = "NONE" /\ Cardinality(row.tokens) = 1
      /\ PairingHazardDelay({block[t]}, row.issue, FALSE) <= 0
      /\ \A p \in row.tokens : TailFits(block[p], block[t], row.ignored)
  BY <1>1 DEF AtTail, JoinsRow
<1>4. Len(slots) \in DOMAIN slots /\ row.tokens \in SUBSET Position
  <2>1. Len(slots) \in DOMAIN slots
    BY <1>3 DEF TimingInv, Clocked
  <2> QED
    BY <2>1 DEF BlockInv, Slotted
<1>5. PICK p : row.tokens = {p}
  <2>1. Position = 1 .. Len(block) /\ Len(block) \in Nat
    BY InvFacts DEF BlockInv
  <2>2. IsFiniteSet(Position)
    BY <2>1, FS_Interval
  <2> HIDE DEF row
  <2>3. IsFiniteSet(row.tokens)
    BY <1>4, <2>2, FS_Subset
  <2> QED
    BY <1>3, <2>3, FS_Singleton
<1>6. p \in Position /\ Scheduled(p)
  BY <1>4, <1>5 DEF Scheduled, InRow
<1>7. BeforeLastRow(p)
  BY <1>3, <1>5, <1>6 DEF TimingInv, LastRow
<1> QED
  BY <1>1, <1>2, <1>3, <1>5, <1>6, <1>7

(* A tail that slips into it is as ready as the row was, whose token writes   *)
(* nothing the tail reads or writes.                                          *)
LEMMA PairTailTiming ==
  ASSUME BlockInv, TimingInv, PairTail
  PROVE  TimingInv'
<1> DEFINE t == segment.last + 1
           row == slots[Len(slots)]
           y == [row EXCEPT !.tokens = @ \cup {t}]
           after == [slots EXCEPT ![Len(slots)] = y]
           at == row.issue
           b == block[t]
<1>1. Clocked /\ tracker \in Tracker /\ cycle \in Nat /\ PipesIdle(tracker) /\ slots \in Seq(Slot)
  BY DEF TimingInv, Clocked
<1>2. /\ t \in Position
      /\ slots # <<>>
      /\ slots' = after
      /\ tracker' = RecordWrites(tracker, b, at)
      /\ PairingHazardDelay({b}, at, FALSE) <= 0
      /\ UNCHANGED <<block, cycle, chosen>>
      /\ row.padding = "NONE"
  BY TailJoins
<1>3. PICK p \in Position : /\ p # t /\ row.tokens = {p}
                            /\ TailFits(block[p], b, row.ignored)
                            /\ BeforeLastRow(p)
  BY TailJoins
<1> DEFINE a == block[p]
<1>4. PICK T \in Tracker :
        /\ tracker = RecordWrites(T, a, at)
        /\ cycle = at + 1
        /\ ReadyRow(T, {a}, at)
        /\ \A s \in BOOLEAN : Judged(s) =>
             InStep(Exact(s), T, at,
                    Machine(s)[Len(slots) - 1].tracker, Machine(s)[Len(slots) - 1].cycle)
  BY <1>3 DEF BeforeLastRow
<1>5. row \in Slot /\ Len(slots) \in 1 .. Len(slots) /\ Len(slots) \in Nat \ {0}
  BY <1>1, <1>2
<1>6. at \in Nat /\ a \in Instruction /\ b \in Instruction /\ {a, b} \in Row /\ p \in Nat /\ t \in Nat
  <2>1. at \in Nat
    BY <1>5 DEF Slot
  <2> QED
    BY <2>1, <1>2, PositionFacts
<1>7. y \in Slot /\ y.tokens = {p, t} /\ y.padding = "NONE"
  <2>1. row.tokens \cup {t} = {p, t} /\ {p, t} \in SUBSET Nat
    BY <1>3, <1>6
  <2> HIDE DEF row, t
  <2> QED
    BY <1>2, <1>5, <2>1 DEF Slot
<1> HIDE DEF row, y, at
<1>8. /\ after \in Seq(Slot) /\ Len(after) = Len(slots) /\ after[Len(slots)] = y
      /\ \A n \in 1 .. Len(slots) - 1 : after[n] = slots[n]
  BY <1>1, <1>5, <1>7
<1>9. Operands(y) = {a, b}
  BY <1>7 DEF Operands
<1> HIDE DEF after, t, b
<1>10. /\ a # b
       /\ a.access.registerWrites \cap b.access.registerReads = {}
       /\ a.access.registerWrites \cap b.access.registerWrites = {}
       /\ a.access.implicitWrites \cap b.access.implicitReads = {}
       /\ a.access.implicitWrites \cap b.access.implicitWrites = {}
  BY <1>3 DEF TailFits, NoDataDependency, RegisterRaw, RegisterWaw
<1> HIDE DEF a
<1>11. ReadyRow(tracker, {b}, at)
  <2>1. {b} \in Row /\ at \in Int
    <3>1. {b, b} \in Row
      BY <1>6 DEF Row
    <3> QED
      BY <3>1, <1>6
  <2>2. CASE FmacInterlock
    <3> DEFINE yes == TRUE
    <3>1. HazardDelay(tracker, {b}, at, yes) <= 0
      BY <1>2, <2>2 DEF PairingHazardDelay, ManualReadHazardDelay
    <3> HIDE DEF yes
    <3>2. PipeReady(tracker, {b}, at)
      BY <1>1, <2>1, <3>1, HazardWait
    <3> QED
      BY <2>2, <3>2 DEF ReadyRow
  <2>3. CASE ~FmacInterlock
    <3>1. HazardDelay(tracker, {b}, at, FALSE) <= 0
      BY <1>2, <2>3 DEF PairingHazardDelay, ReadHazardDelay
    <3>2. PipeReady(tracker, {b}, at) /\ FlagReady(tracker, {b}, at) /\ RegistersReady(tracker, {b}, at)
      BY <1>1, <1>6, <2>1, <3>1, NoWait
    <3> QED
      BY <3>2 DEF ReadyRow
  <2> QED
    BY <2>2, <2>3
<1>12. ReadyRow(T, {a, b}, at)
  <2>1. ReadyRow(RecordWrites(T, a, at), {b}, at) /\ at \in Int
    BY <1>4, <1>6, <1>11
  <2> QED
    BY <1>4, <1>6, <1>10, <2>1, JoinReady
<1>13. RecordRow(T, {a, b}, at) = tracker'
  BY <1>2, <1>4, <1>10, JoinRecords
<1>14. tracker' \in Tracker /\ cycle' \in Nat /\ PipesIdle(tracker')
  <2>1. RecordWrites(tracker, b, at) \in Tracker
    BY <1>1, <1>6, RecordTyped
  <2>2. PipesIdle(RecordWrites(tracker, b, at))
    BY <1>1, <1>2, IdleRecorded DEF b
  <2> QED
    BY <1>1, <1>2, <2>1, <2>2
<1>15. ASSUME NEW s \in BOOLEAN, Judged(s)
       PROVE  Keeps(s, Machine(s)[Len(slots) - 1], Operands(slots'[Len(slots)]),
                    slots'[Len(slots)], tracker', cycle')
  <2> DEFINE M == Machine(s)[Len(slots) - 1]
  <2>1. M \in MachineState
    <3>1. MachineTyped(s) /\ Len(slots) - 1 \in 0 .. Len(slots)
      BY <1>1, <1>5, <1>15 DEF Clocked
    <3> QED
      BY <3>1 DEF MachineTyped
  <2>2. InStep(Exact(s), T, at, M.tracker, M.cycle)
    BY <1>4, <1>15
  <2> HIDE DEF M
  <2>3. at \in Int
    BY <1>6
  <2>4. /\ RunSlot(M, {a, b}, y, s) \in MachineState
        /\ InStep(Exact(s), RecordRow(T, {a, b}, at), at + 1,
                  RunSlot(M, {a, b}, y, s).tracker, RunSlot(M, {a, b}, y, s).cycle)
        /\ InTime(M, {a, b}, y.padding, s)
    BY <1>4, <1>6, <1>7, <1>12, <2>1, <2>2, <2>3, IssueStep
  <2>5. Keeps(s, M, {a, b}, y, tracker', cycle')
    BY <1>2, <1>4, <1>13, <2>4 DEF Keeps
  <2>6. slots'[Len(slots)] = y
    BY <1>2, <1>8
  <2> QED
    BY <1>9, <2>5, <2>6 DEF M
<1>16. slots' \in Seq(Slot) /\ Len(slots') = Len(slots)
       /\ \A n \in 1 .. Len(slots) - 1 : slots'[n] = slots[n]
  BY <1>2, <1>8
<1>17. Clocked'
  BY <1>1, <1>2, <1>14, <1>15, <1>16, ClockedJoined
<1>18. LastRow'
  <2>1. slots'[Len(slots')] = y
    BY <1>2, <1>8
  <2>2. \A k : y.tokens # {k}
    BY <1>3, <1>7
  <2> QED
    BY <2>1, <2>2 DEF LastRow
<1> QED
  BY <1>2, <1>17, <1>18 DEF TimingInv

(* Every step keeps the clocks in step.                                       *)
LEMMA NextTiming == BlockInv /\ TimingInv /\ [Next]_vars => TimingInv'
<1> SUFFICES ASSUME BlockInv, TimingInv, [Next]_vars PROVE TimingInv'
  OBVIOUS
<1>1. ASSUME NEW w \in Remaining, NEW u \in Remaining, FillWait(w, u) PROVE TimingInv'
  BY <1>1, FillWaitTiming
<1>2. ASSUME NEW i \in Remaining, IssueWaitingUpper(i) PROVE TimingInv'
  BY <1>2, IssueWaitingUpperTiming
<1>3. ASSUME NEW i \in Remaining, ChooseAlone(i) PROVE TimingInv'
  <2>1. UNCHANGED <<block, slots, tracker, cycle>> /\ chosen' # {}
    BY <1>3 DEF ChooseAlone
  <2> QED
    BY <2>1, ChoiceTiming
<1>4. ASSUME NEW i \in Remaining, NEW j \in Remaining, ChoosePair(i, j) PROVE TimingInv'
  <2>1. UNCHANGED <<block, slots, tracker, cycle>> /\ chosen' # {}
    BY <1>4 DEF ChoosePair
  <2> QED
    BY <2>1, ChoiceTiming
<1>5. CASE StartTail
  <2>1. UNCHANGED <<block, slots, tracker, cycle>> /\ chosen' # {}
    BY <1>5 DEF StartTail
  <2> QED
    BY <2>1, ChoiceTiming
<1>6. CASE Pad
  BY <1>6, PadTiming
<1>7. CASE Issue
  BY <1>7, IssueTiming
<1>8. CASE PairTail
  BY <1>8, PairTailTiming
<1>9. CASE UNCHANGED vars
  BY <1>9, StutterTiming
<1> QED
  BY <1>1, <1>2, <1>3, <1>4, <1>5, <1>6, <1>7, <1>8, <1>9 DEF Next, Step, Done

(* The machine that runs the slots is never behind the clock of the scheduler *)
(* and waits where that one waits.                                            *)
THEOREM TimingInvCorrect == Spec => []TimingInv
<1> QED
  BY InitTiming, NextTiming, BlockInvCorrect, PTL DEF Spec

-----------------------------------------------------------------------------
(* What the readers find                                                      *)

(* A slot in time reads neither Q nor P early.                                *)
LEMMA InTimePipelined ==
  ASSUME TimingInv, NEW n \in DOMAIN slots, NEW s \in BOOLEAN, Judged(s)
  PROVE  ~EarlyPipelinedRead(n, s)
<1> DEFINE M == Machine(s)[n - 1]
           row == Operands(slots[n])
           at == IssueAt(M, row, slots[n].padding, s)
<1>1. /\ MachineTyped(s) /\ SlotsInTime(s) /\ slots \in Seq(Slot)
  BY DEF TimingInv, Clocked
<1>2. M \in MachineState
  <2>1. n - 1 \in 0 .. Len(slots)
    BY <1>1
  <2> QED
    BY <1>1, <2>1 DEF MachineTyped
<1>3. row \in AnyRow /\ PipeReady(M.tracker, row, at)
  BY <1>1 DEF SlotsInTime, InTime
<1>4. at \in Int
  BY <1>2, <1>3, IssueFacts
<1>5. M.tracker.q \in Int /\ M.tracker.p \in Int
  BY <1>2, TrackerFields DEF MachineState
<1> HIDE DEF M, row, at
<1>6. /\ RowReads(row, "Q") => ~(M.tracker.q > at)
      /\ RowReads(row, "P") => ~(M.tracker.p > at)
  BY <1>3, <1>4, <1>5 DEF PipeReady
<1> QED
  BY <1>6 DEF EarlyPipelinedRead, M, row, at

(* Nor, without the interlock, a register or a flag.                          *)
LEMMA InTimeOperands ==
  ASSUME TimingInv, OnePipeline, ~FmacInterlock, NEW n \in DOMAIN slots
  PROVE  ~EarlyRegisterRead(n) /\ ~EarlyFlagRead(n)
<1> DEFINE M == Machine(TRUE)[n - 1]
           row == Operands(slots[n])
           at == IssueAt(M, row, slots[n].padding, TRUE)
<1>1. /\ MachineTyped(TRUE) /\ SlotsInTime(TRUE) /\ slots \in Seq(Slot)
  BY DEF TimingInv, Clocked, Judged
<1>2. M \in MachineState
  <2>1. n - 1 \in 0 .. Len(slots)
    BY <1>1
  <2> QED
    BY <1>1, <2>1 DEF MachineTyped
<1>3. /\ row \in AnyRow
      /\ \A r \in RegisterReads(row) : Interlocked(M.tracker, row, r) \/ RegisterReady(M.tracker, row, r) <= at
      /\ FlagDelay(M.tracker, row, at) <= 0
  BY <1>1 DEF SlotsInTime, InTime
<1>4. at \in Int
  BY <1>2, <1>3, IssueFacts
<1>5. M.tracker \in Tracker
  BY <1>2 DEF MachineState
<1> HIDE DEF M, row, at
<1>6. \A r \in RegisterReads(row) : RegisterReady(M.tracker, row, r) \in Int
  <2>1. CASE row = {}
    BY <2>1 DEF RegisterReads
  <2>2. CASE row \in Row
    BY <1>5, <2>2, ReadyTyped
  <2> QED
    BY <1>3, <2>1, <2>2 DEF AnyRow
<1>7. \A r \in RegisterReads(row) :
        ~(~Interlocked(M.tracker, row, r) /\ RegisterReady(M.tracker, row, r) > at)
  BY <1>3, <1>4, <1>6
<1>8. ~(FlagDelay(M.tracker, row, at) > 0)
  BY <1>3, <1>4, <1>5, FlagWait
<1> QED
  BY <1>7, <1>8 DEF EarlyRegisterRead, EarlyFlagRead, M, row, at

(* A reader of Q or P never finds the previous quotient: counted in the words *)
(* alone, and with the stalls too where one of the two is in flight.          *)
THEOREM PipelinedReadsCorrect == Spec => []PipelinedReadsReady
<1>1. TimingInv => PipelinedReadsReady
  <2> SUFFICES ASSUME TimingInv, NEW n \in DOMAIN slots, NEW s \in BOOLEAN, s => OnePipeline
               PROVE  ~EarlyPipelinedRead(n, s)
    BY DEF PipelinedReadsReady
  <2> QED
    BY InTimePipelined DEF Judged
<1> QED
  BY <1>1, TimingInvCorrect, PTL

(* Without --fmac-interlock every integer, every load and every flag read     *)
(* comes when it is ready, in every block that uses one of Q and P.           *)
THEOREM ReadsReadyCorrect == ~FmacInterlock /\ Spec => []ReadsReady
<1>1. ASSUME ~FmacInterlock PROVE TimingInv => ReadsReady
  BY <1>1, InTimeOperands DEF ReadsReady, OperandsReady
<1>2. CASE ~FmacInterlock
  <2>1. TimingInv => ReadsReady
    BY <1>1, <1>2
  <2> QED
    BY <2>1, TimingInvCorrect, PTL
<1> QED
  BY <1>2

-----------------------------------------------------------------------------
(* Types                                                                      *)

(* No step changes what may be read behind the block.                         *)
LEMMA LiveStays == live \in LiveSets /\ [Next]_vars => (live \in LiveSets)'
BY DEF Next, Step, Done, FillWait, WaitRow, IssueWaitingUpper, ChooseAlone, ChoosePair, Pad, Issue,
       PairTail, StartTail, vars

(* Every slot, the clock, the tracker, the segment with its graph and the row *)
(* being padded are what the code declares.                                   *)
THEOREM TypeCorrect == Spec => []TypeOK
<1>1. Spec => [](live \in LiveSets)
  <2>1. Init => live \in LiveSets
    BY DEF Init
  <2> QED
    BY <2>1, LiveStays, PTL DEF Spec
<1>2. BlockInv /\ TimingInv /\ live \in LiveSets => TypeOK
  <2> SUFFICES ASSUME BlockInv, TimingInv, live \in LiveSets PROVE TypeOK
    OBVIOUS
  <2>1. /\ block \in Seq(Instruction)
        /\ segment.first \in 1 .. Len(block) + 1
        /\ segment = SegmentFrom(segment.first)
    BY DEF BlockInv, Segmented
  <2>2. slots \in Seq(Slot) /\ tracker \in Tracker /\ cycle \in Nat
    BY DEF TimingInv, Clocked
  <2>3. segment.edges \subseteq Segment \X Segment
    <3> DEFINE f == segment.first
               g == SegmentFrom(f)
    <3>1. g.first = f /\ g.edges \subseteq (f .. g.last) \X (f .. g.last)
      BY DEF SegmentFrom
    <3>2. segment = g
      BY <2>1
    <3> HIDE DEF f, g
    <3> QED
      BY <3>1, <3>2 DEF Segment, f
  <2>4. chosen \subseteq Position
    <3>1. CASE chosen = {}
      BY <3>1
    <3>2. CASE chosen # {}
      BY <3>2, ChosenFacts
    <3> QED
      BY <3>1, <3>2
  <2> QED
    BY <2>1, <2>2, <2>3, <2>4 DEF TypeOK
<1> QED
  BY <1>1, <1>2, BlockInvCorrect, TimingInvCorrect, PTL

-----------------------------------------------------------------------------
(* Schedules without waits                                                    *)
(* Where no slot waits for Q or P the clock of the scheduler is the machine's *)
(* own, the stalls that are no words included: the machine catches up with it *)
(* when the row goes out that it padded for.                                  *)

(* What was written when; Q and P do not matter here.                         *)
SameTimes(T, U) ==
  /\ U.ready = T.ready /\ U.producer = T.producer
  /\ U.mac = T.mac /\ U.status = T.status /\ U.clip = T.clip

(* All a row waits for is a register the machine stalls for.                  *)
OnlyStalls(T, row, c) ==
  /\ PipeReady(T, row, c) /\ FlagReady(T, row, c)
  /\ \A r \in RegisterReads(row) : Interlocked(T, row, r) \/ RegisterReady(T, row, r) <= c

HeldUp(T, row, c) ==
  \E r \in RegisterReads(row) : Interlocked(T, row, r) /\ RegisterReady(T, row, r) >= c

(* The machine behind the slots is as far behind the clock as it will stall.  *)
StallsDue(T, c, row, M) ==
  /\ SameTimes(T, M.tracker)
  /\ M.cycle <= c
  /\ M.cycle < c => FmacInterlock /\ OnlyStalls(T, row, c) /\ HeldUp(T, row, c)

(* A row finds what the machine does not stall for.                           *)
Served(M, row, padding) ==
  LET at == IssueAt(M, row, padding, TRUE)
  IN  /\ row \in AnyRow
      /\ \A r \in RegisterReads(row) :
           Interlocked(M.tracker, row, r) \/ RegisterReady(M.tracker, row, r) <= at
      /\ FlagDelay(M.tracker, row, at) <= 0

LEMMA SameAnswers ==
  ASSUME NEW T, NEW U, SameTimes(T, U), NEW row
  PROVE  /\ \A r : RegisterReady(U, row, r) = RegisterReady(T, row, r)
         /\ \A r : Interlocked(U, row, r) <=> Interlocked(T, row, r)
         /\ \A c : FlagReady(U, row, c) <=> FlagReady(T, row, c)
BY DEF SameTimes, RegisterReady, Interlocked, FlagReady

LEMMA SameRecorded ==
  ASSUME NEW T, NEW U, SameTimes(T, U), NEW t, NEW at
  PROVE  SameTimes(RecordWrites(T, t, at), RecordWrites(U, t, at))
BY DEF SameTimes, RecordWrites

LEMMA SameRowRecorded ==
  ASSUME NEW T, NEW U, SameTimes(T, U), NEW row \in Row, NEW at
  PROVE  SameTimes(RecordRow(T, row, at), RecordRow(U, row, at))
<1>1. PICK a \in Instruction, b \in Instruction : row = {a, b}
  BY DEF Row
<1>2. PICK x, y : RecordsInOrder(row, y, x)
  BY <1>1, RowOrder
<1>3. SameTimes(RecordWrites(T, y, at), RecordWrites(U, y, at))
  BY SameRecorded
<1>4. SameTimes(RecordWrites(RecordWrites(T, y, at), x, at), RecordWrites(RecordWrites(U, y, at), x, at))
  BY <1>3, SameRecorded
<1>5. SameTimes(RecordWrites(T, x, at), RecordWrites(U, x, at))
  BY SameRecorded
<1> QED
  BY <1>2, <1>4, <1>5 DEF RecordsInOrder

(* The machine issues at the latest of what holds it up.                      *)
LEMMA IssueIsLatest ==
  ASSUME NEW M \in MachineState, NEW row \in AnyRow, NEW padding
  PROVE  /\ \/ IssueAt(M, row, padding, TRUE) = WaitEnd(M, padding)
            \/ IssueAt(M, row, padding, TRUE) \in StallEnds(M, row)
         /\ \A e \in StallEnds(M, row) : e <= IssueAt(M, row, padding, TRUE)
<1> DEFINE w == WaitEnd(M, padding)
           E == StallEnds(M, row)
           S == {w} \cup E
<1>1. w \in Int
  BY WaitFacts
<1>2. E \in SUBSET Int /\ IsFiniteSet(E)
  BY StallFacts
<1>3. IssueAt(M, row, padding, TRUE) = Max(S)
  BY DEF IssueAt
<1> HIDE DEF w, E
<1>4. IsFiniteSet(S)
  <2>1. IsFiniteSet({w})
    BY FS_Singleton
  <2> QED
    BY <1>2, <2>1, FS_Union
<1>5. S \in SUBSET Int /\ S # {}
  BY <1>1, <1>2
<1>6. Max(S) \in S /\ \A y \in S : y <= Max(S)
  <2> HIDE DEF S
  <2> QED
    BY <1>4, <1>5, GreatestOf
<1> DEFINE m == Max(S)
<1>7. m \in S /\ (\A y \in S : y <= m) /\ m = IssueAt(M, row, padding, TRUE)
  BY <1>3, <1>6
<1> HIDE DEF m
<1> QED
  BY <1>7 DEF w, E

(* It never issues before the cycle the row is held up to.                    *)
LEMMA NoSooner ==
  ASSUME NEW T \in Tracker, NEW c \in Int, NEW M \in MachineState, NEW row \in Row, NEW padding,
         SameTimes(T, M.tracker), M.cycle = c \/ HeldUp(T, row, c)
  PROVE  IssueAt(M, row, padding, TRUE) \in Int /\ IssueAt(M, row, padding, TRUE) >= c
<1> DEFINE s == TRUE
           at == IssueAt(M, row, padding, s)
<1>1. s \in BOOLEAN /\ row \in AnyRow /\ M.cycle \in Int
  BY DEF AnyRow, MachineState
<1>2. \A e \in StallEnds(M, row) : e <= at
  BY <1>1, IssueIsLatest
<1>3. at \in Int /\ at >= M.cycle
  <2> HIDE DEF s
  <2>1. at \in Int /\ at >= WaitEnd(M, padding)
    BY <1>1, IssueFacts
  <2>2. WaitEnd(M, padding) >= M.cycle /\ WaitEnd(M, padding) \in Int
    BY WaitFacts
  <2> HIDE DEF at
  <2> QED
    BY <1>1, <2>1, <2>2
<1> HIDE DEF at
<1>4. CASE HeldUp(T, row, c)
  <2>1. PICK r \in RegisterReads(row) : Interlocked(T, row, r) /\ RegisterReady(T, row, r) >= c
    BY <1>4 DEF HeldUp
  <2>2. Interlocked(M.tracker, row, r) /\ RegisterReady(M.tracker, row, r) = RegisterReady(T, row, r)
    BY <2>1, SameAnswers
  <2>3. RegisterReady(T, row, r) \in StallEnds(M, row)
    BY <2>2 DEF StallEnds
  <2>4. RegisterReady(T, row, r) \in Int
    BY <2>1, ReadyTyped
  <2>5. RegisterReady(T, row, r) <= at
    BY <1>2, <2>3
  <2>6. at >= c
    BY <1>3, <2>1, <2>4, <2>5
  <2> QED
    BY <1>3, <2>6 DEF at
<1>5. CASE M.cycle = c
  <2>1. at >= c
    BY <1>3, <1>5
  <2> QED
    BY <1>3, <2>1 DEF at
<1> QED
  BY <1>4, <1>5

(* A row all of whose operands the clock has ready, at the cycle it issues.   *)
LEMMA DueIssue ==
  ASSUME NEW T \in Tracker, NEW c \in Int, NEW M \in MachineState, NEW row \in Row,
         StallsDue(T, c, row, M), RegistersReady(T, row, c),
         NEW padding, padding \notin {"WAITQ", "WAITP"}
  PROVE  IssueAt(M, row, padding, TRUE) = c
<1> DEFINE at == IssueAt(M, row, padding, TRUE)
<1>1. row \in AnyRow /\ M.cycle \in Int
  BY DEF AnyRow, MachineState
<1>2. WaitEnd(M, padding) = M.cycle
  BY WaitFacts
<1>3. at = M.cycle \/ at \in StallEnds(M, row)
  BY <1>1, <1>2, IssueIsLatest
<1>4. SameTimes(T, M.tracker) /\ M.cycle <= c
  BY DEF StallsDue
<1>5. at \in Int /\ at >= c
  <2>1. M.cycle = c \/ HeldUp(T, row, c)
    BY <1>1 DEF StallsDue
  <2> QED
    BY <1>4, <2>1, NoSooner
<1> HIDE DEF at
<1>6. \A e \in StallEnds(M, row) : e <= c
  <2>1. \A r \in RegisterReads(row) : RegisterReady(M.tracker, row, r) <= c
    BY <1>4, SameAnswers DEF RegistersReady
  <2> QED
    BY <2>1 DEF StallEnds
<1>7. at = c
  BY <1>3, <1>4, <1>5, <1>6
<1> QED
  BY <1>7 DEF at

(* It finds what the clock has ready, or stalls for it.                       *)
LEMMA FindsReady ==
  ASSUME NEW T \in Tracker, NEW c \in Int, NEW M \in MachineState, NEW row \in Row, NEW padding,
         SameTimes(T, M.tracker), OnlyStalls(T, row, c), IssueAt(M, row, padding, TRUE) >= c
  PROVE  Served(M, row, padding)
<1> DEFINE at == IssueAt(M, row, padding, TRUE)
           yes == TRUE
<1>1. row \in AnyRow /\ M.tracker \in Tracker
  BY DEF AnyRow, MachineState
<1>2. at \in Int
  <2>1. yes \in BOOLEAN /\ at = IssueAt(M, row, padding, yes)
    OBVIOUS
  <2> HIDE DEF yes, at
  <2> QED
    BY <1>1, <2>1, IssueFacts
<1> HIDE DEF at, yes
<1>3. at >= c
  BY DEF at
<1>4. ASSUME NEW r \in RegisterReads(row), ~Interlocked(M.tracker, row, r)
      PROVE  RegisterReady(M.tracker, row, r) <= at
  <2>1. ~Interlocked(T, row, r) /\ RegisterReady(M.tracker, row, r) = RegisterReady(T, row, r)
    BY <1>4, SameAnswers
  <2>2. RegisterReady(T, row, r) <= c
    BY <2>1 DEF OnlyStalls
  <2>3. RegisterReady(T, row, r) \in Int
    BY ReadyTyped
  <2> QED
    BY <1>2, <1>3, <2>1, <2>2, <2>3
<1>5. FlagDelay(M.tracker, row, at) <= 0
  <2>1. FlagReady(T, row, c)
    BY DEF OnlyStalls
  <2>2. FlagReady(M.tracker, row, c)
    BY <2>1, SameAnswers
  <2>3. FlagReady(M.tracker, row, at)
    BY <1>1, <1>2, <1>3, <2>2, LaterIsReady
  <2> QED
    BY <1>1, <1>2, <2>3, FlagWait
<1> QED
  BY <1>1, <1>4, <1>5 DEF Served, at

(* All of a row's operands are ready.                                         *)
AllReady(T, row, c) == PipeReady(T, row, c) /\ FlagReady(T, row, c) /\ RegistersReady(T, row, c)

LEMMA DueIssued ==
  ASSUME NEW T \in Tracker, NEW c \in Int, NEW M \in MachineState, NEW row \in Row,
         StallsDue(T, c, row, M), AllReady(T, row, c),
         NEW slot, slot.padding = "NONE"
  PROVE  /\ RunSlot(M, row, slot, TRUE) \in MachineState
         /\ StallsDue(RecordRow(T, row, c), c + 1, {}, RunSlot(M, row, slot, TRUE))
         /\ Served(M, row, slot.padding)
<1> DEFINE s == TRUE
           N == RunSlot(M, row, slot, s)
           padding == slot.padding
           at == IssueAt(M, row, padding, s)
<1>0. s \in BOOLEAN /\ padding \notin {"WAITQ", "WAITP"} /\ padding # "NOP"
  OBVIOUS
<1>1. row \in AnyRow /\ M.tracker \in Tracker /\ M.cycle \in Int
  BY DEF AnyRow, MachineState
<1>2. at = c
  <2>1. RegistersReady(T, row, c)
    BY DEF AllReady
  <2> HIDE DEF padding
  <2> QED
    BY <1>0, <2>1, DueIssue, ZenonT(30)
<1>3. N \in MachineState /\ N.tracker = RecordRow(M.tracker, row, at) /\ N.cycle = at + 1
  <2>1. slot.padding # "NOP" /\ at = IssueAt(M, row, slot.padding, s)
    BY <1>0
  <2> HIDE DEF s, at
  <2> QED
    BY <1>0, <1>1, <2>1, RunFacts
<1>4. SameTimes(T, M.tracker)
  BY DEF StallsDue
<1>5. SameTimes(RecordRow(T, row, c), RecordRow(M.tracker, row, c))
  BY <1>4, SameRowRecorded
<1>6. Served(M, row, padding)
  <2>1. IssueAt(M, row, padding, TRUE) >= c
    <3> DEFINE issue == IssueAt(M, row, padding, TRUE)
    <3>1. issue = c /\ c \in Int
      BY <1>2
    <3> HIDE DEF issue
    <3>2. issue >= c
      BY <3>1
    <3> QED
      BY <3>2 DEF issue
  <2>2. OnlyStalls(T, row, c)
    BY DEF AllReady, OnlyStalls, RegistersReady
  <2> HIDE DEF padding
  <2> QED
    BY <1>4, <2>1, <2>2, FindsReady
<1> HIDE DEF N, at
<1>7. StallsDue(RecordRow(T, row, c), c + 1, {}, N)
  BY <1>2, <1>3, <1>5 DEF StallsDue
<1> QED
  BY <1>3, <1>6, <1>7 DEF N, padding, s

(* A word of padding, while the machine is not held up.                       *)
LEMMA DueWord ==
  ASSUME NEW T \in Tracker, NEW c \in Int, NEW M \in MachineState, NEW row,
         StallsDue(T, c, row, M), M.cycle = c,
         NEW slot, slot.padding = "NOP", slot.words = 1, NEW s
  PROVE  /\ RunSlot(M, {}, slot, s) \in MachineState
         /\ StallsDue(T, c + 1, row, RunSlot(M, {}, slot, s))
<1> DEFINE N == RunSlot(M, {}, slot, s)
<1>1. N = [M EXCEPT !.cycle = @ + 1]
  BY DEF RunSlot
<1>2. N \in MachineState /\ N.tracker = M.tracker /\ N.cycle = c + 1
  BY <1>1 DEF MachineState
<1> HIDE DEF N
<1>3. StallsDue(T, c + 1, row, N)
  BY <1>2 DEF StallsDue
<1> QED
  BY <1>2, <1>3 DEF N

(* A cycle of a stall that is no word.                                        *)
LEMMA DueStall ==
  ASSUME FmacInterlock,
         NEW T \in Tracker, NEW c \in Nat, NEW M \in MachineState, NEW row \in Row,
         StallsDue(T, c, row, M), OnlyStalls(T, row, c), ~RegistersReady(T, row, c)
  PROVE  StallsDue(DelayPipelinedResultsBy(T, 1), c + 1, row, M)
<1> DEFINE D == DelayPipelinedResultsBy(T, 1)
<1>1. D = [T EXCEPT !.q = IF @ >= 0 THEN @ + 1 ELSE @, !.p = IF @ >= 0 THEN @ + 1 ELSE @]
  BY DEF DelayPipelinedResultsBy
<1>2. /\ D.q = IF T.q >= 0 THEN T.q + 1 ELSE T.q
      /\ D.p = IF T.p >= 0 THEN T.p + 1 ELSE T.p
      /\ SameTimes(T, D)
  BY <1>1 DEF Tracker, SameTimes
<1>3. T.q \in Int /\ T.p \in Int /\ M.cycle \in Int /\ c \in Int /\ c + 1 \in Int /\ row \in AnyRow
  BY TrackerFields DEF MachineState, AnyRow
<1> HIDE DEF D
<1>4. SameTimes(D, M.tracker)
  BY <1>2 DEF StallsDue, SameTimes
<1>5. M.cycle <= c + 1
  BY <1>3 DEF StallsDue
<1>6. OnlyStalls(D, row, c + 1)
  <2>1. PipeReady(D, row, c + 1)
    BY <1>2, <1>3 DEF OnlyStalls, PipeReady
  <2>2. FlagReady(D, row, c + 1)
    <3>1. FlagReady(T, row, c + 1)
      BY <1>3, LaterIsReady DEF OnlyStalls
    <3> QED
      BY <1>2, <3>1, SameAnswers
  <2>3. ASSUME NEW r \in RegisterReads(row), ~Interlocked(D, row, r)
        PROVE  RegisterReady(D, row, r) <= c + 1
    <3>1. RegisterReady(D, row, r) = RegisterReady(T, row, r) /\ RegisterReady(T, row, r) <= c
      BY <1>2, <2>3, SameAnswers DEF OnlyStalls
    <3>2. RegisterReady(T, row, r) \in Int
      BY ReadyTyped
    <3> QED
      BY <1>3, <3>1, <3>2
  <2> QED
    BY <2>1, <2>2, <2>3 DEF OnlyStalls
<1>7. HeldUp(D, row, c + 1)
  <2>1. PICK r \in RegisterReads(row) : ~(RegisterReady(T, row, r) <= c)
    BY DEF RegistersReady
  <2>2. Interlocked(D, row, r) /\ RegisterReady(D, row, r) = RegisterReady(T, row, r)
    BY <1>2, <2>1, SameAnswers DEF OnlyStalls
  <2>3. RegisterReady(T, row, r) \in Int
    BY <2>1, ReadyTyped
  <2>4. RegisterReady(T, row, r) >= c + 1
    BY <1>3, <2>1, <2>3
  <2> QED
    BY <2>2, <2>4 DEF HeldUp
<1>8. StallsDue(D, c + 1, row, M)
  BY <1>4, <1>5, <1>6, <1>7 DEF StallsDue
<1> QED
  BY <1>8 DEF D

-----------------------------------------------------------------------------
(* A tail in the row above it                                                 *)

(* The row asks for a register no later than each of its tokens does, and at  *)
(* the same time as the only one that reads it.                               *)
LEMMA PairReads ==
  ASSUME NEW T \in Tracker, NEW a \in Instruction, NEW b \in Instruction,
         NEW t \in {a, b}, NEW r \in t.access.registerReads
  PROVE  /\ r \in RegisterReads({a, b}) /\ r \in RegisterReads({t})
         /\ {a, b} \in Row /\ {t} \in Row /\ r \in Register
         /\ RegisterReady(T, {a, b}, r) \in Int /\ RegisterReady(T, {t}, r) \in Int
         /\ RegisterReady(T, {a, b}, r) <= RegisterReady(T, {t}, r)
         /\ (\A u \in {a, b} : r \in u.access.registerReads => u = t)
              => RegisterReady(T, {a, b}, r) = RegisterReady(T, {t}, r)
<1> DEFINE Wait(row) == Max(Bypasses(T.producer[r], row, r))
<1>1. {a, b} \in Row /\ {t} \in Row
  <2>1. {t, t} \in Row
    BY DEF Row
  <2> QED
    BY <2>1 DEF Row
<1>2. r \in RegisterReads({a, b}) /\ r \in RegisterReads({t})
  BY DEF RegisterReads
<1>3. /\ r \in Register
      /\ RegisterReady(T, {a, b}, r) = T.ready[r] - Wait({a, b})
      /\ RegisterReady(T, {t}, r) = T.ready[r] - Wait({t})
  BY <1>1, <1>2, ReadyTyped
<1>4. T.ready[r] \in Int
  BY <1>3, TrackerFields
<1>5. Wait({a, b}) \in Nat /\ Wait({t}) \in Nat
  BY <1>2, BypassFacts
<1>6. Wait({t}) = BypassReduction(T.producer[r], t.form)
  BY <1>2, BypassFacts
<1>7. BypassReduction(T.producer[r], t.form) <= Wait({a, b})
  BY <1>2, BypassFacts
<1>8. ASSUME \A u \in {a, b} : r \in u.access.registerReads => u = t
      PROVE  Wait({a, b}) = BypassReduction(T.producer[r], t.form)
  BY <1>2, <1>8, BypassFacts
<1> HIDE DEF Wait
<1> QED
  BY <1>1, <1>2, <1>3, <1>4, <1>5, <1>6, <1>7, <1>8

(* What stands in the way of a tail behind the row stood in it before, for    *)
(* the row writes nothing the tail reads.                                     *)
Untouched(a, b) ==
  /\ a.access.registerWrites \cap b.access.registerReads = {}
  /\ a.access.implicitWrites \cap b.access.implicitReads = {}

LEMMA JoinStalls ==
  ASSUME NEW a \in Instruction, NEW b \in Instruction, NEW T \in Tracker, NEW c \in Int,
         Untouched(a, b), OnlyStalls(T, {a}, c), OnlyStalls(RecordWrites(T, a, c), {b}, c)
  PROVE  OnlyStalls(T, {a, b}, c)
<1> DEFINE A == RecordWrites(T, a, c)
<1>1. \A res : ~(TokenWrites(a, res) /\ TokenReads(b, res))
  BY DEF TokenWrites, TokenReads, Untouched
<1>2. \A t, res : RowReads({t}, res) <=> TokenReads(t, res)
  BY DEF RowReads
<1>3. \A res : RowReads({a, b}, res) <=> TokenReads(a, res) \/ TokenReads(b, res)
  BY DEF RowReads
<1>4. /\ A.q = IF a.latency > 1 /\ TokenWrites(a, "Q") THEN ReadyCycle(a, c) ELSE T.q
      /\ A.p = IF a.latency > 1 /\ TokenWrites(a, "P") THEN ReadyCycle(a, c) ELSE T.p
      /\ A.mac = IF TokenWrites(a, "MAC") THEN c ELSE T.mac
      /\ A.status = IF TokenWrites(a, "STATUS") THEN c ELSE T.status
      /\ A.clip = IF TokenWrites(a, "CLIP") THEN c ELSE T.clip
  BY DEF RecordWrites
<1>5. /\ \A r \in Register : r \notin a.access.registerWrites => A.ready[r] = T.ready[r]
      /\ \A r \in Register : r \notin a.access.registerWrites => A.producer[r] = T.producer[r]
  BY DEF RecordWrites
<1>6. A \in Tracker
  BY RecordTyped
<1> HIDE DEF A
<1>7. OnlyStalls(A, {b}, c)
  BY DEF A
<1>8. PipeReady(T, {a, b}, c)
  BY <1>1, <1>2, <1>3, <1>4, <1>7 DEF PipeReady, OnlyStalls
<1>9. FlagReady(T, {a, b}, c)
  BY <1>1, <1>2, <1>3, <1>4, <1>7 DEF FlagReady, OnlyStalls
<1>10. ASSUME NEW r \in RegisterReads({a, b}), ~Interlocked(T, {a, b}, r)
       PROVE  RegisterReady(T, {a, b}, r) <= c
  <2>1. CASE r \in a.access.registerReads
    <3>1. /\ r \in RegisterReads({a}) /\ RegisterReady(T, {a, b}, r) <= RegisterReady(T, {a}, r)
          /\ RegisterReady(T, {a, b}, r) \in Int /\ RegisterReady(T, {a}, r) \in Int
      BY <2>1, PairReads
    <3>2. ~Interlocked(T, {a}, r)
      BY <1>10 DEF Interlocked
    <3>3. RegisterReady(T, {a}, r) <= c
      BY <3>1, <3>2 DEF OnlyStalls
    <3> QED
      BY <3>1, <3>3
  <2>2. CASE r \in b.access.registerReads
    <3>1. /\ r \in RegisterReads({b}) /\ r \in Register
          /\ RegisterReady(T, {a, b}, r) <= RegisterReady(T, {b}, r)
          /\ RegisterReady(T, {a, b}, r) \in Int /\ RegisterReady(T, {b}, r) \in Int
      BY <2>2, PairReads
    <3>2. A.ready[r] = T.ready[r] /\ A.producer[r] = T.producer[r]
      BY <1>5, <2>2, <3>1 DEF Untouched
    <3>3. ~Interlocked(A, {b}, r)
      BY <1>10, <3>2 DEF Interlocked
    <3>4. RegisterReady(A, {b}, r) = RegisterReady(T, {b}, r)
      BY <3>2 DEF RegisterReady
    <3>5. RegisterReady(T, {b}, r) <= c
      BY <1>7, <3>1, <3>3, <3>4 DEF OnlyStalls
    <3> QED
      BY <3>1, <3>5
  <2> QED
    BY <2>1, <2>2 DEF RegisterReads
<1> QED
  BY <1>8, <1>9, <1>10 DEF OnlyStalls

(* A tail that is no branch reads nothing the hardware stalls for.            *)
Branches(t) == t.form \in {"BRANCH", "CALL"}
ReadsNoFloat(t) == t.access.registerReads \cap FloatRegister = {}

LEMMA JoinAllReady ==
  ASSUME NEW a \in Instruction, NEW b \in Instruction, NEW T \in Tracker, NEW c \in Int,
         Untouched(a, b), AllReady(T, {a}, c), OnlyStalls(RecordWrites(T, a, c), {b}, c),
         ReadsNoFloat(b), ~Branches(a), ~Branches(b)
  PROVE  AllReady(T, {a, b}, c)
<1>1. OnlyStalls(T, {a, b}, c)
  <2>1. OnlyStalls(T, {a}, c)
    BY DEF AllReady, OnlyStalls, RegistersReady
  <2> QED
    BY <2>1, JoinStalls
<1>2. ASSUME NEW r \in RegisterReads({a, b})
      PROVE  RegisterReady(T, {a, b}, r) <= c
  <2>1. CASE r \in a.access.registerReads
    <3>1. /\ r \in RegisterReads({a}) /\ RegisterReady(T, {a, b}, r) <= RegisterReady(T, {a}, r)
          /\ RegisterReady(T, {a, b}, r) \in Int /\ RegisterReady(T, {a}, r) \in Int
      BY <2>1, PairReads
    <3>2. RegisterReady(T, {a}, r) <= c
      BY <3>1 DEF AllReady, RegistersReady
    <3> QED
      BY <3>1, <3>2
  <2>2. CASE r \in b.access.registerReads
    <3>1. r \notin FloatRegister
      BY <2>2 DEF ReadsNoFloat
    <3>2. ~Interlocked(T, {a, b}, r)
      BY <3>1 DEF Interlocked, Branches
    <3> QED
      BY <1>1, <3>2 DEF OnlyStalls
  <2> QED
    BY <2>1, <2>2 DEF RegisterReads
<1> QED
  BY <1>1, <1>2 DEF AllReady, OnlyStalls, RegistersReady

(* What held the row up holds it up with the tail in it.                      *)
LEMMA JoinHeldUp ==
  ASSUME NEW a \in Instruction, NEW b \in Instruction, NEW T \in Tracker, NEW c \in Int,
         ReadsNoFloat(b), ~Branches(a), HeldUp(T, {a}, c)
  PROVE  HeldUp(T, {a, b}, c)
<1>1. PICK r \in RegisterReads({a}) : Interlocked(T, {a}, r) /\ RegisterReady(T, {a}, r) >= c
  BY DEF HeldUp
<1>2. r \in FloatRegister
  BY <1>1 DEF Interlocked, Branches
<1>3. r \in a.access.registerReads /\ r \notin b.access.registerReads
  BY <1>2 DEF RegisterReads, ReadsNoFloat
<1>4. RegisterReady(T, {a, b}, r) = RegisterReady(T, {a}, r) /\ r \in RegisterReads({a, b})
  BY <1>3, PairReads
<1>5. Interlocked(T, {a, b}, r)
  BY <1>2 DEF Interlocked
<1> QED
  BY <1>1, <1>4, <1>5 DEF HeldUp

LEMMA JoinServed ==
  ASSUME NEW a \in Instruction, NEW b \in Instruction, NEW T \in Tracker, NEW c \in Int,
         NEW M \in MachineState, StallsDue(T, c, {a}, M), AllReady(T, {a}, c),
         Untouched(a, b), OnlyStalls(RecordWrites(T, a, c), {b}, c),
         ReadsNoFloat(b), ~Branches(a), NEW slot, slot.padding = "NONE"
  PROVE  /\ Served(M, {a, b}, slot.padding)
         /\ RunSlot(M, {a, b}, slot, TRUE) \in MachineState
         /\ ~Branches(b) => StallsDue(RecordRow(T, {a, b}, c), c + 1, {}, RunSlot(M, {a, b}, slot, TRUE))
<1> DEFINE row == {a, b}
           padding == slot.padding
           s == TRUE
           at == IssueAt(M, row, padding, s)
<1>1. row \in Row /\ row \in AnyRow /\ M.cycle \in Int
  BY DEF Row, AnyRow, MachineState
<1>2. SameTimes(T, M.tracker) /\ M.cycle <= c
  BY DEF StallsDue
<1>3. M.cycle < c => FmacInterlock /\ HeldUp(T, row, c)
  BY JoinHeldUp DEF StallsDue
<1>4. OnlyStalls(T, row, c)
  <2>1. OnlyStalls(T, {a}, c)
    BY DEF AllReady, OnlyStalls, RegistersReady
  <2> QED
    BY <2>1, JoinStalls
<1>5. Served(M, row, padding)
  <2>1. M.cycle = c \/ HeldUp(T, row, c)
    BY <1>1, <1>2, <1>3
  <2> HIDE DEF row, padding
  <2>2. IssueAt(M, row, padding, TRUE) >= c
    BY <1>1, <1>2, <2>1, NoSooner
  <2> QED
    BY <1>1, <1>2, <1>4, <2>2, FindsReady
<1>6. RunSlot(M, row, slot, s) \in MachineState
  <2>1. slot.padding # "NOP" /\ at = IssueAt(M, row, slot.padding, s) /\ s \in BOOLEAN
    OBVIOUS
  <2> HIDE DEF row, s, at
  <2> QED
    BY <1>1, <2>1, RunFacts
<1>7. ASSUME ~Branches(b)
      PROVE  StallsDue(RecordRow(T, row, c), c + 1, {}, RunSlot(M, row, slot, TRUE))
  <2>1. AllReady(T, row, c)
    BY <1>7, JoinAllReady
  <2>2. StallsDue(T, c, row, M)
    BY <1>2, <1>3, <1>4 DEF StallsDue
  <2> HIDE DEF row
  <2> QED
    BY <1>1, <2>1, <2>2, DueIssued
<1> QED
  BY <1>5, <1>6, <1>7

-----------------------------------------------------------------------------
(* The invariant of a schedule without waits                                  *)

NoWaits == \A n \in DOMAIN slots : slots[n].padding \in {"NONE", "NOP"}

ChosenTokens == {block[k] : k \in chosen}

Behind == Machine(TRUE)[Len(slots)]

StallsTyped == MachineTyped(TRUE)

SlotsServed ==
  \A n \in DOMAIN slots : Served(Machine(TRUE)[n - 1], Operands(slots[n]), slots[n].padding)

(* A branch in the row above it may be stalled for, and ends the block.       *)
AllOut == chosen = NoRow /\ segment.first = Len(block) + 1

BeforeLastStall(p) ==
  LET row == slots[Len(slots)]
  IN  \E T \in Tracker :
        /\ tracker = RecordWrites(T, block[p], row.issue)
        /\ cycle = row.issue + 1
        /\ AllReady(T, {block[p]}, row.issue)
        /\ StallsDue(T, row.issue, {block[p]}, Machine(TRUE)[Len(slots) - 1])

LastRowStalls ==
  chosen = NoRow /\ slots # <<>> /\ slots[Len(slots)].padding = "NONE" =>
    \A p \in Position : slots[Len(slots)].tokens = {p} => BeforeLastStall(p)

Stalled ==
  /\ StallsTyped
  /\ SlotsServed
  /\ AllOut \/ (StallsDue(tracker, cycle, ChosenTokens, Behind) /\ LastRowStalls)

StallInv == NoWaits => Stalled

LEMMA InitStalls == Init => StallInv
<1> SUFFICES ASSUME Init, NoWaits PROVE Stalled
  BY DEF StallInv
<1> DEFINE yes == TRUE
           F == Machine(yes)
           start == [tracker |-> ResetTracker, cycle |-> 0]
<1>1. slots = <<>> /\ tracker = ResetTracker /\ cycle = 0 /\ chosen = {}
  BY DEF Init, NoRow
<1>2. Len(slots) = 0 /\ DOMAIN slots = {}
  BY <1>1
<1>3. F = Machine(TRUE)
  OBVIOUS
<1>4. F[0] = start
  <2> HIDE DEF yes
  <2>1. RunsTo(block, slots, 0, yes, F)
    BY <1>2, MachineRuns DEF MachinesRun
  <2> HIDE DEF F
  <2> QED
    BY <2>1, RunsUnrolled
<1> HIDE DEF F
<1>5. start \in MachineState /\ start.tracker = tracker /\ start.cycle = cycle
  BY <1>1, StartState
<1>6. cycle \in Int
  BY <1>1
<1> HIDE DEF start
<1>7. StallsTyped
  <2>1. \A n \in 0 .. Len(slots) : F[n] \in MachineState
    BY <1>2, <1>4, <1>5
  <2> QED
    BY <1>3, <2>1 DEF StallsTyped, MachineTyped
<1>8. StallsDue(tracker, cycle, ChosenTokens, Behind)
  <2>1. Behind.tracker = tracker /\ Behind.cycle = cycle
    BY <1>2, <1>3, <1>4, <1>5 DEF Behind
  <2> QED
    BY <1>6, <2>1 DEF StallsDue, SameTimes
<1>9. SlotsServed
  BY <1>2 DEF SlotsServed
<1>10. LastRowStalls
  BY <1>1 DEF LastRowStalls
<1> QED
  BY <1>7, <1>8, <1>9, <1>10 DEF Stalled

(* What a step adds: the schedule without waits was one before.               *)
LEMMA StalledAppended ==
  ASSUME slots \in Seq(Slot), StallInv, block' = block, NEW x \in Slot, slots' = Append(slots, x),
         NoWaits'
  PROVE  /\ x.padding \in {"NONE", "NOP"} /\ NoWaits /\ Stalled
         /\ Behind \in MachineState
         /\ Behind' = RunSlot(Behind, Operands(x), x, TRUE)
         /\ /\ RunSlot(Behind, Operands(x), x, TRUE) \in MachineState
            /\ Served(Behind, Operands(x), x.padding)
            => StallsTyped' /\ SlotsServed'
<1> DEFINE F == Machine(TRUE)
           G == Machine(TRUE)'
           n == Len(slots)
<1>1. /\ n \in Nat /\ DOMAIN slots = 1 .. n
      /\ slots' \in Seq(Slot) /\ Len(slots') = n + 1 /\ DOMAIN slots' = 1 .. n + 1
  OBVIOUS
<1>2. /\ \A i \in 0 .. n : G[i] = F[i]
      /\ G[n + 1] = RunSlot(F[n], Operands(x), x, TRUE)
      /\ \A i \in DOMAIN slots : slots'[i] = slots[i]
      /\ slots'[n + 1] = x
  BY MachineAppended
<1>3. x.padding \in {"NONE", "NOP"} /\ NoWaits
  <2>1. \A i \in 1 .. n + 1 : slots'[i].padding \in {"NONE", "NOP"}
    BY <1>1 DEF NoWaits
  <2>2. n + 1 \in 1 .. n + 1 /\ \A i \in 1 .. n : i \in 1 .. n + 1
    BY <1>1
  <2> HIDE DEF F, G, n
  <2> QED
    BY <1>1, <1>2, <2>1, <2>2 DEF NoWaits
<1>4. Stalled
  BY <1>3 DEF StallInv
<1>5. /\ \A i \in 0 .. n : F[i] \in MachineState
      /\ \A i \in DOMAIN slots : Served(F[i - 1], Operands(slots[i]), slots[i].padding)
  BY <1>4 DEF Stalled, StallsTyped, MachineTyped, SlotsServed
<1>6. Behind = F[n] /\ Behind' = G[n + 1]
  BY <1>1 DEF Behind
<1>7. \A i : Operands(slots[i])' = Taken(block, slots'[i])
  BY DEF Operands, Taken
<1>8. \A i \in DOMAIN slots : Taken(block, slots'[i]) = Operands(slots[i])
  BY <1>2 DEF Operands, Taken
<1>9. Taken(block, slots'[n + 1]) = Operands(x)
  BY <1>2 DEF Operands, Taken
<1> HIDE DEF F, G, n
<1>10. n \in 0 .. n /\ (n + 1) - 1 = n
  BY <1>1
<1>11. ASSUME RunSlot(Behind, Operands(x), x, TRUE) \in MachineState, Served(Behind, Operands(x), x.padding)
       PROVE  StallsTyped' /\ SlotsServed'
  <2>1. \A i \in 0 .. n + 1 : G[i] \in MachineState
    <3>1. \A i \in 0 .. n + 1 : i \in 0 .. n \/ i = n + 1
      BY <1>1
    <3>2. G[n + 1] \in MachineState
      BY <1>2, <1>6, <1>11
    <3> QED
      BY <1>2, <1>5, <3>1, <3>2
  <2>2. ASSUME NEW i \in 1 .. n PROVE Served(G[i - 1], Taken(block, slots'[i]), slots'[i].padding)
    <3>1. i \in DOMAIN slots /\ i - 1 \in 0 .. n
      BY <1>1
    <3>2. G[i - 1] = F[i - 1] /\ slots'[i] = slots[i] /\ Taken(block, slots'[i]) = Operands(slots[i])
      BY <1>2, <1>8, <3>1
    <3>3. Served(F[i - 1], Operands(slots[i]), slots[i].padding)
      BY <1>5, <3>1
    <3> QED
      BY <3>2, <3>3
  <2>3. Served(G[n], Operands(x), x.padding)
    BY <1>2, <1>6, <1>10, <1>11
  <2>4. Served(G[(n + 1) - 1], Taken(block, slots'[n + 1]), slots'[n + 1].padding)
    BY <1>2, <1>9, <1>10, <2>3
  <2>5. \A i \in 1 .. n + 1 : i \in 1 .. n \/ i = n + 1
    BY <1>1
  <2>6. \A i \in 1 .. n + 1 : Served(G[i - 1], Taken(block, slots'[i]), slots'[i].padding)
    BY <2>2, <2>4, <2>5
  <2> QED
    BY <1>1, <1>7, <2>1, <2>6 DEF G, StallsTyped, MachineTyped, SlotsServed
<1> QED
  BY <1>2, <1>3, <1>4, <1>5, <1>6, <1>10, <1>11

LEMMA StalledJoined ==
  ASSUME slots \in Seq(Slot), StallInv, slots # <<>>, block' = block, slots' \in Seq(Slot),
         Len(slots') = Len(slots), \A n \in 1 .. Len(slots) - 1 : slots'[n] = slots[n],
         slots'[Len(slots)].padding = slots[Len(slots)].padding,
         NoWaits', NEW M, M = Machine(TRUE)[Len(slots) - 1], NEW y, y = slots'[Len(slots)]
  PROVE  /\ NoWaits /\ Stalled
         /\ M \in MachineState
         /\ Behind' = RunSlot(M, Operands(y), y, TRUE)
         /\ RunSlot(M, Operands(y), y, TRUE) \in MachineState /\ Served(M, Operands(y), y.padding)
            => StallsTyped' /\ SlotsServed'
<1> DEFINE F == Machine(TRUE)
           G == Machine(TRUE)'
           n == Len(slots)
<1>1. /\ n \in Nat \ {0} /\ DOMAIN slots = 1 .. n /\ DOMAIN slots' = 1 .. n /\ n - 1 \in 0 .. n
  OBVIOUS
<1>2. /\ \A i \in 0 .. n - 1 : G[i] = F[i]
      /\ G[n] = RunSlot(F[n - 1], Operands(y), y, TRUE)
  BY MachineJoined
<1>3. NoWaits
  <2>1. \A i \in 1 .. n : slots'[i].padding \in {"NONE", "NOP"}
    BY <1>1 DEF NoWaits
  <2>2. \A i \in 1 .. n - 1 : slots'[i].padding = slots[i].padding
    OBVIOUS
  <2>3. slots'[n].padding = slots[n].padding
    OBVIOUS
  <2>4. DOMAIN slots = 1 .. n
    BY <1>1
  <2> HIDE DEF n
  <2>5. \A i \in 1 .. n : i \in 1 .. n - 1 \/ i = n
    BY <1>1
  <2>6. \A i \in 1 .. n : slots'[i].padding = slots[i].padding
    BY <2>2, <2>3, <2>5
  <2> QED
    BY <2>1, <2>4, <2>6 DEF NoWaits
<1>4. Stalled
  BY <1>3 DEF StallInv
<1>5. /\ \A i \in 0 .. n : F[i] \in MachineState
      /\ \A i \in DOMAIN slots : Served(F[i - 1], Operands(slots[i]), slots[i].padding)
  BY <1>4 DEF Stalled, StallsTyped, MachineTyped, SlotsServed
<1>6. M = F[n - 1] /\ Behind' = G[n]
  BY <1>1 DEF Behind
<1>7. \A i : Operands(slots[i])' = Taken(block, slots'[i])
  BY DEF Operands, Taken
<1>8. \A i \in 1 .. n - 1 : slots'[i] = slots[i] /\ Taken(block, slots'[i]) = Operands(slots[i])
  BY DEF Operands, Taken
<1>9. Taken(block, slots'[n]) = Operands(y) /\ slots'[n] = y
  BY DEF Operands, Taken
<1> HIDE DEF F, G, n
<1>10. n - 1 \in 0 .. n - 1
  BY <1>1
<1>11. ASSUME RunSlot(M, Operands(y), y, TRUE) \in MachineState, Served(M, Operands(y), y.padding)
       PROVE  StallsTyped' /\ SlotsServed'
  <2>1. \A i \in 0 .. n : G[i] \in MachineState
    <3>1. \A i \in 0 .. n : (i \in 0 .. n - 1 /\ i \in 0 .. n) \/ i = n
      BY <1>1
    <3>2. G[n] \in MachineState
      BY <1>2, <1>6, <1>11
    <3> QED
      BY <1>2, <1>5, <3>1, <3>2
  <2>2. ASSUME NEW i \in 1 .. n - 1 PROVE Served(G[i - 1], Taken(block, slots'[i]), slots'[i].padding)
    <3>1. i \in DOMAIN slots /\ i - 1 \in 0 .. n - 1
      BY <1>1
    <3>2. G[i - 1] = F[i - 1] /\ slots'[i] = slots[i] /\ Taken(block, slots'[i]) = Operands(slots[i])
      BY <1>2, <1>8, <3>1
    <3>3. Served(F[i - 1], Operands(slots[i]), slots[i].padding)
      BY <1>5, <3>1
    <3> QED
      BY <3>2, <3>3
  <2>3. Served(G[n - 1], Operands(y), y.padding)
    BY <1>2, <1>6, <1>10, <1>11
  <2>4. Served(G[n - 1], Taken(block, slots'[n]), slots'[n].padding)
    BY <1>9, <2>3
  <2>5. \A i \in 1 .. n : i \in 1 .. n - 1 \/ i = n
    BY <1>1
  <2>6. \A i \in 1 .. n : Served(G[i - 1], Taken(block, slots'[i]), slots'[i].padding)
    BY <2>2, <2>4, <2>5
  <2> QED
    BY <1>1, <1>7, <2>1, <2>6 DEF G, n, StallsTyped, MachineTyped, SlotsServed
<1> QED
  BY <1>1, <1>2, <1>3, <1>4, <1>5, <1>6, <1>11

LEMMA StalledStays ==
  ASSUME slots \in Seq(Slot), block' = block, slots' = slots
  PROVE  /\ NoWaits' <=> NoWaits
         /\ Behind' = Behind
         /\ StallsTyped /\ SlotsServed => StallsTyped' /\ SlotsServed'
<1> DEFINE F == Machine(TRUE)
           G == Machine(TRUE)'
           n == Len(slots)
<1>1. n \in Nat /\ DOMAIN slots = 1 .. n
  OBVIOUS
<1>2. \A i \in 0 .. n : G[i] = F[i]
  BY MachineStays
<1>3. NoWaits' <=> NoWaits
  BY DEF NoWaits
<1>4. Behind = F[n] /\ Behind' = G[n]
  BY DEF Behind
<1>5. \A i : Operands(slots[i])' = Operands(slots[i])
  BY DEF Operands
<1> HIDE DEF F, G, n
<1>6. n \in 0 .. n /\ \A i \in 1 .. n : i - 1 \in 0 .. n
  BY <1>1
<1>7. ASSUME StallsTyped, SlotsServed
      PROVE  StallsTyped' /\ SlotsServed'
  <2>1. \A i \in 0 .. n : G[i] \in MachineState
    BY <1>2, <1>7 DEF StallsTyped, MachineTyped, F, n
  <2>2. \A i \in DOMAIN slots : Served(G[i - 1], Operands(slots[i]), slots[i].padding)
    BY <1>1, <1>2, <1>6, <1>7 DEF SlotsServed, F
  <2> QED
    BY <1>5, <2>1, <2>2 DEF G, n, StallsTyped, MachineTyped, SlotsServed
<1> QED
  BY <1>2, <1>3, <1>4, <1>6, <1>7

(* The delays the scheduler asks for, in these terms.                         *)
LEMMA DelayMeans ==
  ASSUME NEW row \in Row, NEW T \in Tracker, NEW c \in Nat
  PROVE  /\ ReadHazardDelay(T, row, c) <= 0 <=> AllReady(T, row, c)
         /\ ReadHazardDelay(T, row, c) \in Nat
         /\ ManualReadHazardDelay(T, row, c) <= 0 <=> OnlyStalls(T, row, c)
         /\ ManualReadHazardDelay(T, row, c) \in Nat
<1> DEFINE yes == TRUE
           no == FALSE
<1>1. c \in Int
  OBVIOUS
<1>2. no = FALSE /\ (yes <=> TRUE)
  BY Zenon
<1>3. /\ ReadHazardDelay(T, row, c) = HazardDelay(T, row, c, no)
      /\ ManualReadHazardDelay(T, row, c) = HazardDelay(T, row, c, yes)
  BY DEF ReadHazardDelay, ManualReadHazardDelay
<1> HIDE DEF yes, no
<1>4. /\ ReadHazardDelay(T, row, c) \in Nat
      /\ ReadHazardDelay(T, row, c) <= 0
           <=> PipeReady(T, row, c) /\ FlagReady(T, row, c) /\ ReadyBut(T, row, c, no)
  BY <1>1, <1>3, HazardWait
<1>5. /\ ManualReadHazardDelay(T, row, c) \in Nat
      /\ ManualReadHazardDelay(T, row, c) <= 0
           <=> PipeReady(T, row, c) /\ FlagReady(T, row, c) /\ ReadyBut(T, row, c, yes)
  BY <1>1, <1>3, HazardWait
<1>6. ReadyBut(T, row, c, no) <=> RegistersReady(T, row, c)
  BY <1>2, ReadyAll
<1>7. ReadyBut(T, row, c, yes)
        <=> \A r \in RegisterReads(row) : Interlocked(T, row, r) \/ RegisterReady(T, row, r) <= c
  BY <1>2, Zenon DEF ReadyBut
<1> QED
  BY <1>4, <1>5, <1>6, <1>7 DEF AllReady, OnlyStalls

LEMMA EmptyServed ==
  ASSUME NEW M \in MachineState, NEW padding
  PROVE  Served(M, {}, padding)
<1> DEFINE yes == TRUE
           at == IssueAt(M, {}, padding, yes)
<1>1. yes \in BOOLEAN /\ {} \in AnyRow /\ M.tracker \in Tracker
  BY DEF AnyRow, MachineState
<1>2. at \in Int
  <2> HIDE DEF yes
  <2> QED
    BY <1>1, IssueFacts
<1>3. at = IssueAt(M, {}, padding, TRUE)
  OBVIOUS
<1> HIDE DEF at
<1>4. RegisterReads({}) = {}
  BY DEF RegisterReads
<1>5. FlagReady(M.tracker, {}, at)
  BY DEF FlagReady, RowReads
<1>6. FlagDelay(M.tracker, {}, at) <= 0
  BY <1>1, <1>2, <1>5, FlagWait
<1> QED
  BY <1>1, <1>3, <1>4, <1>6 DEF Served

(* A row beside a wait ends the schedules without waits.                      *)
LEMMA WaitEndsThem ==
  ASSUME slots \in Seq(Slot), NEW x, slots' = Append(slots, x), x.padding \in {"WAITQ", "WAITP"}
  PROVE  StallInv'
<1>1. Len(slots) + 1 \in DOMAIN slots' /\ slots'[Len(slots) + 1] = x
  OBVIOUS
<1>2. ~NoWaits'
  BY <1>1 DEF NoWaits
<1> QED
  BY <1>2 DEF StallInv

LEMMA WaitRowStalls ==
  ASSUME slots \in Seq(Slot), tracker \in Tracker, cycle \in Nat,
         NEW u, NEW kind, WaitRow(u, kind), NEW row, kind = PaddingKind(tracker, row, cycle), kind # "NOP"
  PROVE  StallInv'
<1>1. cycle \in Int
  OBVIOUS
<1>2. kind \in {"WAITQ", "WAITP"}
  BY <1>1, KindFacts
<1> QED
  BY <1>2, WaitEndsThem DEF WaitRow

(* Nothing happens any more when all is out.                                  *)
LEMMA NotAllOut ==
  ASSUME BlockInv, Remaining # {} \/ AtTail \/ chosen # {}
  PROVE  ~AllOut
<1>1. CASE chosen # {}
  BY <1>1 DEF AllOut, NoRow
<1>2. /\ Len(block) \in Nat
      /\ segment.last \in segment.first - 1 .. Len(block)
      /\ segment.first \in 1 .. Len(block) + 1
  BY InvFacts DEF BlockInv, Segmented
<1>3. CASE Remaining # {}
  <2>1. PICK i : i \in segment.first .. segment.last
    BY <1>3 DEF Remaining, Segment
  <2>2. segment.first <= Len(block)
    BY <1>2, <2>1
  <2> QED
    BY <1>2, <2>2 DEF AllOut
<1>4. CASE AtTail
  BY <1>2, <1>4 DEF AllOut, AtTail
<1> QED
  BY <1>1, <1>3, <1>4

(* Choosing a row asks for nothing: between rows the clocks agree.            *)
LEMMA ChoiceStalls ==
  ASSUME BlockInv, TimingInv, StallInv, UNCHANGED <<block, slots, tracker, cycle>>,
         chosen = {}, chosen' # {}, Remaining # {} \/ AtTail
  PROVE  StallInv'
<1> SUFFICES ASSUME NoWaits' PROVE Stalled'
  BY DEF StallInv
<1>1. slots \in Seq(Slot) /\ cycle \in Nat
  BY DEF TimingInv, Clocked
<1>2. /\ NoWaits /\ Behind' = Behind
      /\ StallsTyped /\ SlotsServed => StallsTyped' /\ SlotsServed'
  BY <1>1, StalledStays
<1>3. Stalled /\ ~AllOut
  BY <1>2, NotAllOut DEF StallInv
<1>4. StallsDue(tracker, cycle, {}, Behind)
  BY <1>3 DEF Stalled, ChosenTokens
<1>5. SameTimes(tracker, Behind.tracker) /\ Behind.cycle <= cycle /\ ~(Behind.cycle < cycle)
  BY <1>4 DEF StallsDue, HeldUp, RegisterReads
<1>6. StallsDue(tracker', cycle', ChosenTokens', Behind')
  BY <1>2, <1>5 DEF StallsDue
<1> QED
  BY <1>2, <1>3, <1>6 DEF Stalled, LastRowStalls, NoRow

(* What a turn of the padding loop asks of the machine behind the slots.      *)
LEMMA WhilePadding ==
  ASSUME BlockInv, TimingInv, Pad, NoWaits, Stalled
  PROVE  StallsDue(tracker, cycle, ChosenTokens, Behind)
<1>1. chosen # {}
  BY DEF Pad, NoRow
<1> QED
  BY <1>1, NotAllOut DEF Stalled

LEMMA PadStalls ==
  ASSUME BlockInv, TimingInv, StallInv, Pad
  PROVE  StallInv'
<1> DEFINE kind == KindOf(chosen)
           row == ChosenTokens
           count == WaitCycles(kind)
           manual == ManualReadHazardDelay(tracker, row, cycle)
           words == PaddingWords(kind, manual)
           x == [ tokens |-> {}, padding |-> kind, issue |-> cycle, cycles |-> count,
                  words |-> words, ignored |-> {} ]
<1>1. tracker \in Tracker /\ cycle \in Nat /\ cycle \in Int /\ slots \in Seq(Slot)
  BY DEF TimingInv, Clocked
<1>2. /\ chosen # {} /\ chosen' # {} /\ UNCHANGED <<block, chosen>>
      /\ slots' = IF words > 0 THEN Append(slots, x) ELSE slots
      /\ tracker' = DelayPipelinedResultsBy(tracker, count - words)
      /\ cycle' = cycle + count
      /\ DelayOf(chosen) > 0
  BY DEF Pad, NoRow, ChosenTokens
<1>3. row \in Row
  <2>1. PICK i, j \in Position : chosen = {i, j}
    BY <1>2, ChosenFacts
  <2>2. row = {block[i], block[j]}
    BY <2>1 DEF ChosenTokens
  <2> QED
    BY <2>1, <2>2, PositionFacts
<1>4. kind = PaddingKind(tracker, row, cycle)
  BY DEF KindOf, ChosenTokens
<1>5. ChosenTokens' = row
  BY <1>2 DEF ChosenTokens
<1>6. words = IF FmacInterlock /\ kind = "NOP" THEN Min({manual, 1}) ELSE count
  BY DEF PaddingWords
<1>7. kind = "NOP" => count = 1
  BY DEF WaitCycles
<1>8. kind \in {"WAITQ", "WAITP"} => count \in Nat /\ count > 1
  <2> HIDE DEF kind, row
  <2>1. kind # "NOP" => Waited(tracker, kind) - cycle > 1
    BY <1>1, <1>4, KindFacts
  <2> SUFFICES ASSUME kind \in {"WAITQ", "WAITP"} PROVE count \in Nat /\ count > 1
    OBVIOUS
  <2>2. WaitCycles(kind) = Waited(tracker, kind) - cycle /\ WaitCycles(kind) \in Nat
    BY <1>1, <2>1, CyclesOfWait
  <2> QED
    BY <2>1, <2>2
<1>9. ReadHazardDelay(tracker, row, cycle) > 0
  BY <1>2 DEF DelayOf, ChosenTokens
<1>10. /\ manual \in Nat
       /\ manual <= 0 <=> OnlyStalls(tracker, row, cycle)
       /\ ~AllReady(tracker, row, cycle)
  <2>1. /\ manual \in Nat
        /\ manual <= 0 <=> OnlyStalls(tracker, row, cycle)
        /\ ReadHazardDelay(tracker, row, cycle) <= 0 <=> AllReady(tracker, row, cycle)
        /\ ReadHazardDelay(tracker, row, cycle) \in Nat
    BY <1>1, <1>3, DelayMeans
  <2> HIDE DEF manual, row
  <2> QED
    BY <1>9, <2>1
<1> HIDE DEF count, manual, words
<1>11. Min({manual, 1}) = IF manual <= 1 THEN manual ELSE 1
  <2>1. manual \in Int /\ 1 \in Int
    BY <1>10
  <2> QED
    BY <2>1, MinOfTwo
<1>12. kind \in {"WAITQ", "WAITP", "NOP"}
  BY <1>1, <1>4, KindFacts
<1> HIDE DEF kind
<1>13. Operands(x) = {} /\ x.padding = kind /\ x.words = words
  BY DEF Operands
<1>14. words \in Nat /\ count \in Nat => x \in Slot
  BY <1>1, <1>12 DEF Slot
<1> HIDE DEF x
<1>15. CASE kind \in {"WAITQ", "WAITP"}
  <2>1. words > 0
    BY <1>6, <1>8, <1>15
  <2> QED
    BY <1>1, <1>2, <1>13, <1>15, <2>1, WaitEndsThem
<1>16. CASE kind = "NOP" /\ words = 1
  <2> SUFFICES ASSUME NoWaits' PROVE Stalled'
    BY DEF StallInv
  <2>1. slots' = Append(slots, x) /\ tracker' = tracker /\ cycle' = cycle + 1 /\ x \in Slot
    BY <1>2, <1>7, <1>14, <1>16 DEF DelayPipelinedResultsBy
  <2>2. /\ NoWaits /\ Stalled /\ Behind \in MachineState
        /\ Behind' = RunSlot(Behind, {}, x, TRUE)
        /\ RunSlot(Behind, {}, x, TRUE) \in MachineState /\ Served(Behind, {}, x.padding)
           => StallsTyped' /\ SlotsServed'
    BY <1>1, <1>2, <1>13, <2>1, StalledAppended
  <2>3. StallsDue(tracker, cycle, row, Behind)
    BY <2>2, WhilePadding
  <2>4. Behind.cycle = cycle
    <3>1. ASSUME Behind.cycle < cycle PROVE FALSE
      <4>1. FmacInterlock /\ OnlyStalls(tracker, row, cycle)
        BY <2>3, <3>1 DEF StallsDue
      <4>2. manual <= 0
        BY <1>10, <4>1
      <4>3. Min({manual, 1}) = manual
        BY <1>10, <1>11, <4>2
      <4>4. words = Min({manual, 1})
        BY <1>6, <1>16, <4>1
      <4> QED
        BY <1>16, <4>2, <4>3, <4>4
    <3>2. Behind.cycle \in Int /\ Behind.cycle <= cycle
      BY <2>2, <2>3 DEF StallsDue, MachineState
    <3> QED
      BY <1>1, <3>1, <3>2
  <2>5. /\ RunSlot(Behind, {}, x, TRUE) \in MachineState
        /\ StallsDue(tracker, cycle + 1, row, RunSlot(Behind, {}, x, TRUE))
    <3> DEFINE yes == TRUE
               M == Behind
    <3>1. StallsDue(tracker, cycle, row, M) /\ M.cycle = cycle /\ M \in MachineState
      BY <2>2, <2>3, <2>4
    <3> HIDE DEF yes, M, row
    <3>2. /\ RunSlot(M, {}, x, yes) \in MachineState
          /\ StallsDue(tracker, cycle + 1, row, RunSlot(M, {}, x, yes))
      BY <1>1, <1>13, <1>16, <3>1, DueWord
    <3> QED
      BY <3>2 DEF yes, M
  <2>6. Served(Behind, {}, x.padding)
    BY <2>2, EmptyServed
  <2>7. StallsDue(tracker', cycle', ChosenTokens', Behind')
    BY <1>5, <2>1, <2>2, <2>5
  <2> QED
    BY <1>2, <2>2, <2>5, <2>6, <2>7 DEF Stalled, LastRowStalls, NoRow
<1>17. CASE kind = "NOP" /\ words # 1
  <2> SUFFICES ASSUME NoWaits' PROVE Stalled'
    BY DEF StallInv
  <2>1. FmacInterlock /\ words = 0 /\ manual = 0
    BY <1>6, <1>7, <1>10, <1>17, <1>11
  <2>2. slots' = slots /\ tracker' = DelayPipelinedResultsBy(tracker, 1) /\ cycle' = cycle + 1
    BY <1>2, <1>7, <1>17, <2>1
  <2>3. /\ NoWaits /\ Behind' = Behind
        /\ StallsTyped /\ SlotsServed => StallsTyped' /\ SlotsServed'
    BY <1>1, <1>2, <2>2, StalledStays
  <2>4. Stalled
    BY <2>3 DEF StallInv
  <2>5. StallsDue(tracker, cycle, row, Behind)
    BY <2>3, <2>4, WhilePadding
  <2>6. OnlyStalls(tracker, row, cycle) /\ ~RegistersReady(tracker, row, cycle)
    BY <1>10, <2>1 DEF AllReady, OnlyStalls
  <2>7. Behind \in MachineState
    <3>1. Len(slots) \in 0 .. Len(slots)
      BY <1>1
    <3> QED
      BY <2>4, <3>1 DEF Stalled, StallsTyped, MachineTyped, Behind
  <2>8. StallsDue(DelayPipelinedResultsBy(tracker, 1), cycle + 1, row, Behind)
    <3> DEFINE M == Behind
    <3>1. StallsDue(tracker, cycle, row, M) /\ M \in MachineState
      BY <2>5, <2>7
    <3> HIDE DEF row, M
    <3>2. StallsDue(DelayPipelinedResultsBy(tracker, 1), cycle + 1, row, M)
      BY <1>1, <1>3, <2>1, <2>6, <3>1, DueStall
    <3> QED
      BY <3>2 DEF M
  <2>9. StallsDue(tracker', cycle', ChosenTokens', Behind')
    BY <1>5, <2>2, <2>3, <2>8
  <2> QED
    BY <1>2, <2>3, <2>4, <2>9 DEF Stalled, LastRowStalls, NoRow
<1> QED
  BY <1>12, <1>15, <1>16, <1>17

LEMMA IssueStalls ==
  ASSUME BlockInv, TimingInv, StallInv, Issue
  PROVE  StallInv'
<1> SUFFICES ASSUME NoWaits' PROVE Stalled'
  BY DEF StallInv
<1> DEFINE row == ChosenTokens
           ignored == IF \E k \in chosen : ~block[k].candidate THEN {} ELSE segment.ignored
           x == [ tokens |-> chosen, padding |-> "NONE", issue |-> cycle, cycles |-> 1, words |-> 1,
                  ignored |-> ignored ]
<1>1. tracker \in Tracker /\ cycle \in Nat /\ cycle \in Int /\ slots \in Seq(Slot)
  BY DEF TimingInv, Clocked
<1>2. /\ chosen # {} /\ chosen' = {} /\ UNCHANGED <<block, live>>
      /\ slots' = Append(slots, x)
      /\ tracker' = RecordRow(tracker, row, cycle)
      /\ cycle' = cycle + 1
  BY DEF Issue, NoRow, ChosenTokens
<1>3. PICK i, j \in Position : chosen = {i, j}
  BY <1>2, ChosenFacts
<1>4. row \in Row
  <2>1. row = {block[i], block[j]}
    BY <1>3 DEF ChosenTokens
  <2> QED
    BY <2>1, PositionFacts
<1>5. AllReady(tracker, row, cycle)
  <2>1. ReadHazardDelay(tracker, row, cycle) <= 0
    BY DEF Issue, DelayOf, ChosenTokens
  <2> HIDE DEF row
  <2> QED
    BY <1>1, <1>4, <2>1, DelayMeans
<1>6. x \in Slot
  <2>1. ignored \in SUBSET {"MAC", "CLIP", "STATUS"}
    BY PositionFacts
  <2>2. chosen \in SUBSET Nat
    BY <1>3, PositionFacts
  <2> HIDE DEF ignored
  <2> QED
    BY <1>1, <2>1, <2>2 DEF Slot
<1>7. Operands(x) = row /\ x.padding = "NONE" /\ x.tokens = chosen /\ x.issue = cycle
  BY DEF Operands, ChosenTokens
<1> HIDE DEF x
<1>8. /\ NoWaits /\ Stalled /\ Behind \in MachineState
      /\ Behind' = RunSlot(Behind, row, x, TRUE)
      /\ RunSlot(Behind, row, x, TRUE) \in MachineState /\ Served(Behind, row, x.padding)
         => StallsTyped' /\ SlotsServed'
  BY <1>1, <1>2, <1>6, <1>7, StalledAppended
<1>9. StallsDue(tracker, cycle, row, Behind)
  BY <1>2, <1>8, NotAllOut DEF Stalled
<1> HIDE DEF row
<1>10. /\ RunSlot(Behind, row, x, TRUE) \in MachineState
       /\ StallsDue(RecordRow(tracker, row, cycle), cycle + 1, {}, RunSlot(Behind, row, x, TRUE))
       /\ Served(Behind, row, x.padding)
  <2> DEFINE M == Behind
  <2>1. M \in MachineState /\ StallsDue(tracker, cycle, row, M)
    BY <1>8, <1>9
  <2> HIDE DEF M
  <2>2. /\ RunSlot(M, row, x, TRUE) \in MachineState
        /\ StallsDue(RecordRow(tracker, row, cycle), cycle + 1, {}, RunSlot(M, row, x, TRUE))
        /\ Served(M, row, x.padding)
    BY <1>1, <1>4, <1>5, <1>7, <2>1, DueIssued
  <2> QED
    BY <2>2 DEF M
<1>11. StallsDue(tracker', cycle', ChosenTokens', Behind')
  <2>1. ChosenTokens' = {}
    BY <1>2 DEF ChosenTokens
  <2> QED
    BY <1>2, <1>8, <1>10, <2>1
<1>12. /\ Len(slots) \in Nat /\ Len(slots') = Len(slots) + 1
       /\ slots'[Len(slots')] = x /\ Len(slots') - 1 = Len(slots)
  BY <1>1, <1>2
<1>13. ASSUME NEW p \in Position, x.tokens = {p}
       PROVE  BeforeLastStall(p)'
  <2>1. row = {block[p]}
    BY <1>7, <1>13 DEF row, ChosenTokens
  <2>2. tracker' = RecordWrites(tracker, block[p], cycle)
    BY <1>2, <2>1, SingleRow
  <2>3. Machine(TRUE)'[Len(slots)] = Behind
    <3>1. \A n \in 0 .. Len(slots) : Machine(TRUE)'[n] = Machine(TRUE)[n]
      BY <1>1, <1>2, <1>6, MachineAppended
    <3>2. Len(slots) \in 0 .. Len(slots)
      BY <1>12
    <3> QED
      BY <3>1, <3>2 DEF Behind
  <2> QED
    BY <1>1, <1>2, <1>5, <1>7, <1>9, <1>12, <2>1, <2>2, <2>3 DEF BeforeLastStall
<1>14. LastRowStalls'
  <2>1. \A p \in Position : x.tokens = {p} => BeforeLastStall(p)'
    BY <1>13
  <2> QED
    BY <1>2, <1>12, <2>1 DEF LastRowStalls, Position
<1> QED
  BY <1>8, <1>10, <1>11, <1>14 DEF Stalled

LEMMA PairTailStalls ==
  ASSUME BlockInv, TimingInv, StallInv, PairTail
  PROVE  StallInv'
<1> SUFFICES ASSUME NoWaits' PROVE Stalled'
  BY DEF StallInv
<1> DEFINE t == segment.last + 1
           row == slots[Len(slots)]
           y == [row EXCEPT !.tokens = @ \cup {t}]
           after == [slots EXCEPT ![Len(slots)] = y]
           at == row.issue
           b == block[t]
<1>1. tracker \in Tracker /\ cycle \in Nat /\ slots \in Seq(Slot) /\ block \in Blocks
  BY DEF TimingInv, Clocked
<1>2. /\ t \in Position
      /\ slots # <<>>
      /\ slots' = after
      /\ tracker' = RecordWrites(tracker, b, at)
      /\ PairingHazardDelay({b}, at, FALSE) <= 0
      /\ UNCHANGED <<block, cycle, chosen>> /\ chosen = {}
      /\ row.padding = "NONE"
  BY TailJoins DEF NoRow
<1>3. PICK p \in Position : /\ p # t /\ row.tokens = {p}
                            /\ TailFits(block[p], b, row.ignored)
  BY TailJoins
<1> DEFINE a == block[p]
<1>4. row \in Slot /\ Len(slots) \in 1 .. Len(slots) /\ Len(slots) \in Nat \ {0}
  BY <1>1, <1>2
<1>5. at \in Nat /\ at \in Int /\ a \in Instruction /\ b \in Instruction /\ {b} \in Row /\ p \in Nat /\ t \in Nat
  <2>1. at \in Nat
    BY <1>4 DEF Slot
  <2>2. {b, b} \in Row
    BY <1>2, PositionFacts
  <2> QED
    BY <2>1, <2>2, <1>2, PositionFacts
<1>6. y \in Slot /\ y.tokens = {p, t} /\ y.padding = "NONE"
  <2>1. row.tokens \cup {t} = {p, t} /\ {p, t} \in SUBSET Nat
    BY <1>3, <1>5
  <2> HIDE DEF row, t
  <2> QED
    BY <1>2, <1>4, <2>1 DEF Slot
<1>7. ReadsNoFloat(b) /\ (Branches(b) => t = Len(block))
  <2>1. \/ b.access.memoryKind = "XGKICK"
        \/ Branches(b)
        \/ b.access.implicitReads \cap {"MAC", "CLIP"} # {}
    BY <1>3 DEF TailFits, Branches
  <2>2. t \in DOMAIN block
    BY <1>2 DEF Position
  <2> QED
    BY <1>1, <2>1, <2>2, TailAssumption DEF ReadsNoFloat, Branches
<1>8. segment' = SegmentFrom(t + 1)
  BY DEF PairTail
<1>9. Branches(b) => AllOut'
  <2>1. SegmentFrom(t + 1).first = t + 1
    BY DEF SegmentFrom
  <2> QED
    BY <1>2, <1>7, <1>8, <2>1 DEF AllOut, NoRow
<1>10. AtTail
  BY DEF PairTail
<1> HIDE DEF row, y, at
<1>11. /\ after \in Seq(Slot) /\ Len(after) = Len(slots) /\ after[Len(slots)] = y
       /\ \A n \in 1 .. Len(slots) - 1 : after[n] = slots[n]
  BY <1>1, <1>4, <1>6
<1>12. Operands(y) = {a, b}
  BY <1>6 DEF Operands
<1> HIDE DEF after, t, b
<1>13. /\ a # b /\ Untouched(a, b) /\ ~Branches(a)
       /\ a.access.registerWrites \cap b.access.registerWrites = {}
       /\ a.access.implicitWrites \cap b.access.implicitWrites = {}
  BY <1>3 DEF TailFits, NoDataDependency, RegisterRaw, RegisterWaw, Untouched, Branches
<1>14. OnlyStalls(tracker, {b}, at)
  <2>1. /\ ReadHazardDelay(tracker, {b}, at) <= 0 => OnlyStalls(tracker, {b}, at)
        /\ ManualReadHazardDelay(tracker, {b}, at) <= 0 => OnlyStalls(tracker, {b}, at)
    BY <1>1, <1>5, DelayMeans DEF AllReady, OnlyStalls, RegistersReady
  <2> QED
    BY <1>2, <2>1 DEF PairingHazardDelay
<1> DEFINE M == Machine(TRUE)[Len(slots) - 1]
<1>15. /\ NoWaits /\ Stalled /\ M \in MachineState
       /\ Behind' = RunSlot(M, {a, b}, y, TRUE)
       /\ RunSlot(M, {a, b}, y, TRUE) \in MachineState /\ Served(M, {a, b}, y.padding)
          => StallsTyped' /\ SlotsServed'
  <2>1. /\ slots' \in Seq(Slot) /\ Len(slots') = Len(slots) /\ y = slots'[Len(slots)]
        /\ \A n \in 1 .. Len(slots) - 1 : slots'[n] = slots[n]
        /\ slots'[Len(slots)].padding = slots[Len(slots)].padding
    BY <1>2, <1>6, <1>11 DEF row
  <2>2. M = Machine(TRUE)[Len(slots) - 1]
    OBVIOUS
  <2> HIDE DEF M
  <2>3. /\ NoWaits /\ Stalled /\ M \in MachineState
        /\ Behind' = RunSlot(M, Operands(y), y, TRUE)
        /\ RunSlot(M, Operands(y), y, TRUE) \in MachineState /\ Served(M, Operands(y), y.padding)
           => StallsTyped' /\ SlotsServed'
    BY <1>1, <1>2, <2>1, <2>2, StalledJoined
  <2> QED
    BY <1>12, <2>3
<1>16. BeforeLastStall(p)
  <2>1. LastRowStalls
    BY <1>10, <1>15, NotAllOut DEF Stalled
  <2> QED
    BY <1>2, <1>3, <2>1 DEF LastRowStalls, row, NoRow
<1>17. PICK T \in Tracker :
         /\ tracker = RecordWrites(T, a, at)
         /\ cycle = at + 1
         /\ AllReady(T, {a}, at)
         /\ StallsDue(T, at, {a}, M)
  BY <1>16 DEF BeforeLastStall, row, at
<1> HIDE DEF M, a
<1>18. /\ Served(M, {a, b}, y.padding)
       /\ RunSlot(M, {a, b}, y, TRUE) \in MachineState
       /\ ~Branches(b) => StallsDue(RecordRow(T, {a, b}, at), at + 1, {}, RunSlot(M, {a, b}, y, TRUE))
  <2>1. OnlyStalls(RecordWrites(T, a, at), {b}, at)
    BY <1>14, <1>17
  <2> QED
    BY <1>5, <1>6, <1>7, <1>13, <1>15, <1>17, <2>1, JoinServed
<1>19. RecordRow(T, {a, b}, at) = tracker'
  BY <1>2, <1>13, <1>17, JoinRecords
<1>20. ~Branches(b) => StallsDue(tracker', cycle', ChosenTokens', Behind')
  <2>1. ChosenTokens' = {}
    BY <1>2 DEF ChosenTokens
  <2> QED
    BY <1>2, <1>15, <1>17, <1>18, <1>19, <2>1
<1>21. LastRowStalls'
  <2>1. slots'[Len(slots')] = y
    BY <1>2, <1>11
  <2>2. \A k : y.tokens # {k}
    BY <1>3, <1>6
  <2> QED
    BY <2>1, <2>2 DEF LastRowStalls
<1> QED
  BY <1>9, <1>15, <1>18, <1>20, <1>21 DEF Stalled

LEMMA StutterStalls ==
  ASSUME TimingInv, StallInv, UNCHANGED vars
  PROVE  StallInv'
<1> SUFFICES ASSUME NoWaits' PROVE Stalled'
  BY DEF StallInv
<1>1. slots \in Seq(Slot) /\ Len(slots) \in Nat
  BY DEF TimingInv, Clocked
<1>2. /\ block' = block /\ slots' = slots /\ tracker' = tracker /\ cycle' = cycle
      /\ chosen' = chosen /\ segment' = segment
  BY DEF vars
<1>3. /\ NoWaits /\ Behind' = Behind
      /\ StallsTyped /\ SlotsServed => StallsTyped' /\ SlotsServed'
  BY <1>1, <1>2, StalledStays
<1>4. Stalled
  BY <1>3 DEF StallInv
<1>5. AllOut' <=> AllOut
  BY <1>2 DEF AllOut
<1>6. StallsDue(tracker', cycle', ChosenTokens', Behind') <=> StallsDue(tracker, cycle, ChosenTokens, Behind)
  <2>1. ChosenTokens' = ChosenTokens
    BY <1>2 DEF ChosenTokens
  <2> QED
    BY <1>2, <1>3, <2>1
<1>7. LastRowStalls => LastRowStalls'
  <2> SUFFICES ASSUME LastRowStalls, chosen = NoRow, slots # <<>>, slots[Len(slots)].padding = "NONE",
                      NEW p \in Position, slots[Len(slots)].tokens = {p}
               PROVE  BeforeLastStall(p)'
    BY <1>2 DEF LastRowStalls, Position
  <2>1. BeforeLastStall(p)
    BY DEF LastRowStalls
  <2>2. Machine(TRUE)'[Len(slots) - 1] = Machine(TRUE)[Len(slots) - 1]
    <3>1. \A n \in 0 .. Len(slots) : Machine(TRUE)'[n] = Machine(TRUE)[n]
      BY <1>1, <1>2, MachineStays
    <3>2. Len(slots) - 1 \in 0 .. Len(slots)
      BY <1>1
    <3> QED
      BY <3>1, <3>2
  <2> QED
    BY <1>2, <2>1, <2>2 DEF BeforeLastStall
<1> QED
  BY <1>3, <1>4, <1>5, <1>6, <1>7 DEF Stalled

LEMMA NextStalls == BlockInv /\ TimingInv /\ StallInv /\ [Next]_vars => StallInv'
<1> SUFFICES ASSUME BlockInv, TimingInv, StallInv, [Next]_vars PROVE StallInv'
  OBVIOUS
<1>1. tracker \in Tracker /\ cycle \in Nat /\ slots \in Seq(Slot)
  BY DEF TimingInv, Clocked
<1>2. ASSUME NEW w \in Remaining, NEW u \in Remaining, FillWait(w, u) PROVE StallInv'
  <2>1. /\ WaitRow(u, KindOf({w})) /\ KindOf({w}) # "NOP"
        /\ KindOf({w}) = PaddingKind(tracker, {block[i] : i \in {w}}, cycle)
    BY <1>2 DEF FillWait, Filler, KindOf
  <2> QED
    BY <1>1, <2>1, WaitRowStalls
<1>3. ASSUME NEW i \in Remaining, IssueWaitingUpper(i) PROVE StallInv'
  <2>1. /\ WaitRow(i, KindOf({i})) /\ KindOf({i}) # "NOP"
        /\ KindOf({i}) = PaddingKind(tracker, {block[k] : k \in {i}}, cycle)
    BY <1>3 DEF IssueWaitingUpper, WaitsBesideItself, KindOf
  <2> QED
    BY <1>1, <2>1, WaitRowStalls
<1>4. ASSUME NEW i \in Remaining, ChooseAlone(i) PROVE StallInv'
  <2>1. UNCHANGED <<block, slots, tracker, cycle>> /\ chosen = {} /\ chosen' # {} /\ Remaining # {}
    BY <1>4 DEF ChooseAlone, NoRow
  <2> QED
    BY <2>1, ChoiceStalls
<1>5. ASSUME NEW i \in Remaining, NEW j \in Remaining, ChoosePair(i, j) PROVE StallInv'
  <2>1. UNCHANGED <<block, slots, tracker, cycle>> /\ chosen = {} /\ chosen' # {} /\ Remaining # {}
    BY <1>5 DEF ChoosePair, NoRow
  <2> QED
    BY <2>1, ChoiceStalls
<1>6. CASE StartTail
  <2>1. UNCHANGED <<block, slots, tracker, cycle>> /\ chosen = {} /\ chosen' # {} /\ AtTail
    BY <1>6 DEF StartTail, AtTail, NoRow
  <2> QED
    BY <2>1, ChoiceStalls
<1>7. CASE Pad
  BY <1>7, PadStalls
<1>8. CASE Issue
  BY <1>8, IssueStalls
<1>9. CASE PairTail
  BY <1>9, PairTailStalls
<1>10. CASE UNCHANGED vars
  BY <1>10, StutterStalls
<1> QED
  BY <1>2, <1>3, <1>4, <1>5, <1>6, <1>7, <1>8, <1>9, <1>10 DEF Next, Step, Done

(* In a schedule without waits the machine is as far behind the clock as it   *)
(* will stall for the row being padded, and level with it between rows.       *)
THEOREM StallInvCorrect == Spec => []StallInv
<1> QED
  BY InitStalls, NextStalls, TimingInvCorrect, BlockInvCorrect, PTL DEF Spec

LEMMA ServedReady ==
  ASSUME TimingInv, Stalled
  PROVE  OperandsReady
<1> SUFFICES ASSUME NEW n \in DOMAIN slots PROVE ~EarlyRegisterRead(n) /\ ~EarlyFlagRead(n)
  BY DEF OperandsReady
<1> DEFINE M == Machine(TRUE)[n - 1]
           row == Operands(slots[n])
           yes == TRUE
           at == IssueAt(M, row, slots[n].padding, yes)
<1>1. slots \in Seq(Slot)
  BY DEF TimingInv, Clocked
<1>2. M \in MachineState
  <2>1. n - 1 \in 0 .. Len(slots)
    BY <1>1
  <2> QED
    BY <2>1 DEF Stalled, StallsTyped, MachineTyped
<1>3. /\ row \in AnyRow
      /\ \A r \in RegisterReads(row) : Interlocked(M.tracker, row, r) \/ RegisterReady(M.tracker, row, r) <= at
      /\ FlagDelay(M.tracker, row, at) <= 0
  BY DEF Stalled, SlotsServed, Served
<1>4. at \in Int
  <2>1. yes \in BOOLEAN
    OBVIOUS
  <2> HIDE DEF yes
  <2> QED
    BY <1>2, <1>3, <2>1, IssueFacts
<1>5. M.tracker \in Tracker
  BY <1>2 DEF MachineState
<1>6. at = IssueAt(M, row, slots[n].padding, TRUE)
  OBVIOUS
<1> HIDE DEF M, row, at
<1>7. \A r \in RegisterReads(row) : RegisterReady(M.tracker, row, r) \in Int
  <2>1. CASE row = {}
    BY <2>1 DEF RegisterReads
  <2>2. CASE row \in Row
    BY <1>5, <2>2, ReadyTyped
  <2> QED
    BY <1>3, <2>1, <2>2 DEF AnyRow
<1>8. \A r \in RegisterReads(row) :
        ~(~Interlocked(M.tracker, row, r) /\ RegisterReady(M.tracker, row, r) > at)
  BY <1>3, <1>4, <1>7
<1>9. ~(FlagDelay(M.tracker, row, at) > 0)
  BY <1>3, <1>4, <1>5, FlagWait
<1> QED
  BY <1>6, <1>8, <1>9 DEF EarlyRegisterRead, EarlyFlagRead, M, row

(* Whatever the options, no schedule that does without waits for Q and P reads *)
(* a register or a flag early, and no reader of Q or P finds the one before:  *)
(* the stalls that are no words happen.                                       *)
THEOREM StalledReadsCorrect == Spec => []StalledReadsReady
<1>1. TimingInv /\ StallInv /\ PipelinedReadsReady => StalledReadsReady
  <2> SUFFICES ASSUME TimingInv, StallInv, PipelinedReadsReady PROVE StalledReadsReady
    OBVIOUS
  <2>1. NoWaits => OperandsReady
    BY ServedReady DEF StallInv
  <2> QED
    BY <2>1 DEF StalledReadsReady, NoWaits
<1> QED
  BY <1>1, TimingInvCorrect, StallInvCorrect, PipelinedReadsCorrect, PTL
=============================================================================
