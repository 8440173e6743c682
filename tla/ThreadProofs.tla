---------------------------- MODULE ThreadProofs ----------------------------
(***************************************************************************)
(* What the threads share: the command ring of rt/spsc_queue and the two   *)
(* rings of a bridge (ext/bridge/shared_memory), the snapshot buffer, the  *)
(* state edited in place, and the four next to each other, a behaviour of  *)
(* MCThreads being one of each; then the objects one thread frees and the  *)
(* other reaches, the fence (ReclaimFence).  First what both kinds of ring *)
(* rest on, the arithmetic of counters that wrap and of the cells they     *)
(* name; then each part's invariant and the theorems it gives.             *)
(*                                                                         *)
(* Of the fence, for every set of slots, buffers, bindings and instances,  *)
(* every queue capacity and every number of publishes: its states are well *)
(* typed; it is safe, `Fence' of ReclaimFenceInv being inductive.  A       *)
(* handler that publishes extends the commands in flight at their end,     *)
(* with the command that covers all it unlinks; the engine takes them off  *)
(* the front, and lets go of what they cover; a sweep frees nothing that   *)
(* is covered.  Last, the contract of a live swap: it keeps the samples    *)
(* voices play.                                                            *)
(***************************************************************************)
EXTENDS MCThreads, ReclaimFenceInv, SequenceTheorems, FiniteSetTheorems, TLAPS

-----------------------------------------------------------------------------
(***************************************************************************)
(* Counters that wrap, and the cells of a ring they name: what the ring of *)
(* rt/spsc_queue and the two rings of a bridge have in common.             *)
(***************************************************************************)

\* Dividing by n leaves a quotient and a remainder.
LEMMA Division ==
    ASSUME NEW a \in Nat, NEW n \in Nat \ {0}
    PROVE  \E q \in Nat : a = n * q + (a % n) /\ a % n \in 0..(n - 1)
<1>1. a \div n \in Nat /\ a = n * (a \div n) + (a % n)
  OBVIOUS
<1>2. a % n \in Int /\ a % n >= 0 /\ a % n < n
  OBVIOUS
<1>3. a % n \in 0..(n - 1)
  BY <1>2
<1> QED
  BY <1>1, <1>3

\* A multiple of n that lies strictly between -n and n is 0.
LEMMA SmallMultiple ==
    ASSUME NEW n \in Nat \ {0}, NEW q \in Int, NEW p \in Int, n * q - n * p < n, n * q - n * p > 0
    PROVE  FALSE
<1>1. n * (q - p) < n /\ n * (q - p) > 0
  OBVIOUS
<1>2. PICK k \in Int : k = q - p
  OBVIOUS
<1>3. n * k < n /\ n * k > 0
  BY <1>1, <1>2
<1>4. CASE k <= 0
  BY <1>3, <1>4
<1>5. CASE k >= 1
  BY <1>3, <1>5
<1> QED
  BY <1>4, <1>5

\* Numbers less than a ring apart are different cells.
LEMMA CellsApart ==
    ASSUME NEW n \in Nat \ {0}, NEW a \in Nat, NEW b \in Nat, a < b, b - a < n
    PROVE  a % n # b % n
<1> SUFFICES ASSUME a % n = b % n PROVE FALSE
  OBVIOUS
<1>1. PICK p \in Nat : a = n * p + (a % n) /\ a % n \in 0..(n - 1)
  BY Division
<1>2. PICK q \in Nat : b = n * q + (b % n) /\ b % n \in 0..(n - 1)
  BY Division
<1>3. b - a = n * q - n * p
  BY <1>1, <1>2
<1> QED
  BY <1>3, SmallMultiple

\* A whole number of rings further is the same cell.
LEMMA CellsRepeat ==
    ASSUME NEW n \in Nat \ {0}, NEW a \in Nat, NEW laps \in Nat
    PROVE  (a + laps * n) % n = a % n
<1>1. PICK p \in Nat : a = n * p + (a % n) /\ a % n \in 0..(n - 1)
  BY Division
<1>2. PICK b \in Nat : b = a + laps * n
  OBVIOUS
<1>3. PICK q \in Nat : b = n * q + (b % n) /\ b % n \in 0..(n - 1)
  BY Division
<1>4. PICK k \in Int : k = p + laps
  OBVIOUS
<1>5. n * k = n * p + laps * n
  BY <1>4
<1>p. PICK np \in Int, nl \in Int, nk \in Int, nq \in Int :
          np = n * p /\ nl = laps * n /\ nk = n * k /\ nq = n * q
  OBVIOUS
<1>r. PICK ra \in Int, rb \in Int : ra = a % n /\ rb = b % n
  BY <1>1, <1>3
<1>s. nk = np + nl /\ a = np + ra /\ b = a + nl /\ b = nq + rb
  BY <1>1, <1>2, <1>3, <1>5, <1>p, <1>r
<1>6. n * k - n * q = (b % n) - (a % n) /\ n * q - n * k = (a % n) - (b % n)
  <2>1. nk - nq = rb - ra /\ nq - nk = ra - rb
    BY <1>s
  <2> QED
    BY <2>1, <1>p, <1>r
<1>7. (b % n) - (a % n) < n /\ (a % n) - (b % n) < n
  BY <1>1, <1>3
<1>8. ~((b % n) - (a % n) > 0)
  BY <1>6, <1>7, SmallMultiple
<1>9. ~((a % n) - (b % n) > 0)
  BY <1>6, <1>7, SmallMultiple
<1>10. b % n = a % n
  BY <1>1, <1>3, <1>8, <1>9
<1> QED
  BY <1>2, <1>10

\* The distance between two counters, wrapped or not.
LEMMA DistanceWraps ==
    ASSUME NEW m \in Nat \ {0}, NEW h \in 0..(m - 1), NEW t \in 0..(m - 1)
    PROVE  (h + m - t) % m = (IF t <= h THEN h - t ELSE h + m - t)
<1>1. CASE t <= h
  <2>1. PICK d \in Nat : d = h - t /\ d < m
    BY <1>1
  <2>2. (d + 1 * m) % m = d % m /\ d % m = d
    BY <2>1, CellsRepeat
  <2>3. h + m - t = d + 1 * m
    BY <2>1
  <2> QED
    BY <1>1, <2>1, <2>2, <2>3
<1>2. CASE h < t
  <2>1. PICK d \in Nat : d = h + m - t /\ d < m
    BY <1>2
  <2> QED
    BY <1>2, <2>1
<1> QED
  BY <1>1, <1>2

\* Adding one to a counter wraps at the modulus.
LEMMA SuccessorWraps ==
    ASSUME NEW m \in Nat \ {0}, NEW i \in 0..(m - 1)
    PROVE  (i + 1) % m = (IF i + 1 = m THEN 0 ELSE i + 1)
<1>1. CASE i + 1 = m
  BY <1>1
<1>2. CASE i + 1 < m
  BY <1>2
<1> QED
  BY <1>1, <1>2

-----------------------------------------------------------------------------
(***************************************************************************)
(* The ring implements the bounded queue, for every capacity and every     *)
(* width of its counters.                                                  *)
(*                                                                         *)
(* The counters run freely and wrap at QueueModulus; a cell is a counter   *)
(* modulo Capacity.  Since the ring divides the modulus, the cells from    *)
(* tail on are the same after a wrap, and as many as fit in the ring are   *)
(* different.  The invariant says that a push in progress has room and a   *)
(* pop in progress has a value, so the cell one thread copies into is      *)
(* never one that the other may be reading.                                *)
(***************************************************************************)

(* The counters.                                                           *)

\* The sizes, and that a lap of the counters is a whole number of rings.
LEMMA RingFacts ==
    /\ Capacity \in Nat \ {0} /\ QueueModulus \in Nat \ {0} /\ QueueModulus > Capacity
    /\ \E laps \in Nat : QueueModulus = laps * Capacity
<1>1. PICK laps \in 1..QueueModulus : QueueModulus = laps * Capacity
  BY MaskAssumption
<1>2. Capacity # 0
  BY <1>1, MaskAssumption, ModulusAssumption
<1> QED
  BY <1>1, <1>2, MaskAssumption, ModulusAssumption

\* The counters wrap at the modulus, and so does their distance.
LEMMA SuccWraps ==
    ASSUME NEW i \in 0..(QueueModulus - 1)
    PROVE  QueueSucc(i) = (IF i + 1 = QueueModulus THEN 0 ELSE i + 1)
  BY RingFacts, SuccessorWraps DEF QueueSucc

\* The distance of two counters, without the modulus.
LEMMA QueueDistanceIs ==
    ASSUME NEW h \in 0..(QueueModulus - 1), NEW t \in 0..(QueueModulus - 1)
    PROVE  (h + QueueModulus - t) % QueueModulus
             = (IF t <= h THEN h - t ELSE h + QueueModulus - t)
  BY RingFacts, DistanceWraps

\* A lap of the counter is a whole number of rings.
LEMMA LapsRepeat == ASSUME NEW i \in Nat PROVE QueueCell(i + QueueModulus) = QueueCell(i)
<1>1. PICK laps \in Nat : QueueModulus = laps * Capacity
  BY RingFacts
<1> QED
  BY <1>1, RingFacts, CellsRepeat DEF QueueCell

\* The cells from tail on are different, up to a whole ring.
LEMMA CellsDistinct ==
    ASSUME tail \in 0..(QueueModulus - 1),
           NEW i \in 0..(Capacity - 1), NEW j \in 0..(Capacity - 1), i # j
    PROVE  QueueCell(tail + i) # QueueCell(tail + j)
<1>1. PICK n \in Nat \ {0} : n = Capacity
  BY RingFacts
<1>2. PICK a \in Nat, b \in Nat : a = tail + i /\ b = tail + j
  BY RingFacts
<1>3. CASE i < j
  <2>1. a < b /\ b - a < n
    BY <1>1, <1>2, <1>3
  <2>2. a % n # b % n
    BY <2>1, CellsApart
  <2> QED
    BY <1>1, <1>2, <2>2 DEF QueueCell
<1>4. CASE j < i
  <2>1. b < a /\ a - b < n
    BY <1>1, <1>2, <1>4
  <2>2. b % n # a % n
    BY <2>1, CellsApart
  <2> QED
    BY <1>1, <1>2, <2>2 DEF QueueCell
<1> QED
  BY <1>1, <1>3, <1>4

\* The cell of the next push is the one behind the last value.
LEMMA HeadCell ==
    ASSUME head \in 0..(QueueModulus - 1), tail \in 0..(QueueModulus - 1)
    PROVE  QueueCell(tail + QueueDistance) = QueueCell(head)
<1>1. tail + QueueDistance \in {head, head + QueueModulus}
  BY QueueDistanceIs, RingFacts DEF QueueDistance
<1> QED
  BY <1>1, LapsRepeat, RingFacts

\* The cell of the next pop, as the cells are counted from tail.
LEMMA NextCells ==
    ASSUME tail \in 0..(QueueModulus - 1), NEW i \in Nat
    PROVE  QueueCell(QueueSucc(tail) + i) = QueueCell(tail + (i + 1))
<1>1. CASE tail + 1 = QueueModulus
  <2>1. QueueSucc(tail) + i = i /\ tail + (i + 1) = i + QueueModulus
    BY <1>1, SuccWraps, RingFacts
  <2> QED
    BY <2>1, LapsRepeat
<1>2. CASE tail + 1 # QueueModulus
  <2>1. QueueSucc(tail) + i = tail + (i + 1)
    BY <1>2, SuccWraps, RingFacts
  <2> QED
    BY <2>1
<1> QED
  BY <1>1, <1>2

-----------------------------------------------------------------------------
(* The invariant.                                                          *)

RingInv ==
    /\ QueueTypeOK
    /\ QueueDistance \in 0..Capacity
    /\ producer # "idle" => QueueDistance < Capacity /\ value \in Values
    /\ consumer # "idle" => QueueDistance > 0
    /\ producer = "store" => buffer[QueueCell(head)] = value
    /\ consumer = "store" => copied = buffer[QueueCell(tail)]

\* Both counters move within their width, and with them the distance.
LEMMA HeadMoves ==
    ASSUME QueueTypeOK, QueueDistance < Capacity, head' = QueueSucc(head), tail' = tail
    PROVE  head' \in 0..(QueueModulus - 1) /\ QueueDistance' = QueueDistance + 1
<1>1. head' = (IF head + 1 = QueueModulus THEN 0 ELSE head + 1)
  BY SuccWraps DEF QueueTypeOK
<1>2. head' \in 0..(QueueModulus - 1)
  BY <1>1, RingFacts DEF QueueTypeOK
<1>3. QueueDistance = (IF tail <= head THEN head - tail ELSE head + QueueModulus - tail)
  BY QueueDistanceIs DEF QueueTypeOK, QueueDistance
<1>4. QueueDistance' = (IF tail <= head' THEN head' - tail ELSE head' + QueueModulus - tail)
  BY <1>2, QueueDistanceIs DEF QueueTypeOK, QueueDistance
<1> QED
  BY <1>1, <1>2, <1>3, <1>4, RingFacts DEF QueueTypeOK

\* A pop takes one from the distance.
LEMMA TailMoves ==
    ASSUME QueueTypeOK, QueueDistance > 0, tail' = QueueSucc(tail), head' = head
    PROVE  tail' \in 0..(QueueModulus - 1) /\ QueueDistance' = QueueDistance - 1
<1>1. tail' = (IF tail + 1 = QueueModulus THEN 0 ELSE tail + 1)
  BY SuccWraps DEF QueueTypeOK
<1>2. tail' \in 0..(QueueModulus - 1)
  BY <1>1, RingFacts DEF QueueTypeOK
<1>3. QueueDistance = (IF tail <= head THEN head - tail ELSE head + QueueModulus - tail)
  BY QueueDistanceIs DEF QueueTypeOK, QueueDistance
<1>4. QueueDistance' = (IF tail' <= head THEN head - tail' ELSE head + QueueModulus - tail')
  BY <1>2, QueueDistanceIs DEF QueueTypeOK, QueueDistance
<1> QED
  BY <1>1, <1>2, <1>3, <1>4, RingFacts DEF QueueTypeOK

\* A push in progress writes no cell that holds a value still to be popped.
LEMMA WriteApart ==
    ASSUME QueueTypeOK, QueueDistance \in 0..Capacity, QueueDistance < Capacity,
           NEW i \in 0..(QueueDistance - 1)
    PROVE  QueueCell(tail + i) # QueueCell(head)
<1>1. PICK d \in 0..(Capacity - 1) : d = QueueDistance
  BY RingFacts
<1>2. QueueCell(tail + i) # QueueCell(tail + d)
  <2>1. i \in 0..(Capacity - 1) /\ i # d
    BY <1>1, RingFacts
  <2> QED
    BY <1>1, <2>1, CellsDistinct DEF QueueTypeOK
<1> QED
  BY <1>1, <1>2, HeadCell DEF QueueTypeOK

\* A counter names a cell.
LEMMA CellsInRing == ASSUME NEW i \in Nat PROVE QueueCell(i) \in 0..(Capacity - 1)
  BY RingFacts, Division DEF QueueCell

\* The producer keeps the invariant.
LEMMA ProducerKeeps == ASSUME RingInv, Producer PROVE RingInv'
<1> USE DEF RingInv
<1>d. head' = head /\ tail' = tail => QueueDistance' = QueueDistance
  BY DEF QueueDistance
<1>c. QueueCell(head) \in 0..(Capacity - 1) /\ QueueCell(tail) \in 0..(Capacity - 1)
  BY CellsInRing, RingFacts DEF QueueTypeOK
<1>a. QueueDistance < Capacity /\ QueueDistance > 0 => QueueCell(tail) # QueueCell(head)
  <2> SUFFICES ASSUME QueueDistance < Capacity, QueueDistance > 0
               PROVE  QueueCell(tail) # QueueCell(head)
    OBVIOUS
  <2>1. 0 \in 0..(QueueDistance - 1) /\ tail + 0 = tail
    BY RingFacts DEF QueueTypeOK
  <2> QED
    BY <2>1, WriteApart
<1>1. ASSUME NEW v \in Values, BeginPush(v) PROVE RingInv'
  <2>1. QueueTypeOK'
    BY <1>1, RingFacts DEF BeginPush, QueueTypeOK, consumerVars
  <2> QED
    BY <1>1, <1>d, <2>1, RingFacts DEF BeginPush, IsFull, consumerVars, QueueCell
<1>2. CASE StartWrite
  <2>1. QueueTypeOK'
    BY <1>2, <1>c DEF StartWrite, QueueTypeOK, consumerVars
  <2>2. consumer = "store" => buffer'[QueueCell(tail)] = buffer[QueueCell(tail)]
    BY <1>2, <1>a, <1>c DEF StartWrite, QueueTypeOK
  <2> QED
    BY <1>2, <1>d, <2>1, <2>2 DEF StartWrite, consumerVars, QueueCell
<1>3. CASE FinishWrite
  <2>1. QueueTypeOK'
    BY <1>3, <1>c DEF FinishWrite, QueueTypeOK, consumerVars
  <2>2. consumer = "store" => buffer'[QueueCell(tail)] = buffer[QueueCell(tail)]
    BY <1>3, <1>a, <1>c DEF FinishWrite, QueueTypeOK
  <2>3. buffer'[QueueCell(head)] = value
    BY <1>3, <1>c DEF FinishWrite, QueueTypeOK
  <2> QED
    BY <1>3, <1>d, <2>1, <2>2, <2>3 DEF FinishWrite, consumerVars, QueueCell
<1>4. CASE EndPush
  <2>1. head' \in 0..(QueueModulus - 1) /\ QueueDistance' = QueueDistance + 1
    BY <1>4, HeadMoves DEF EndPush
  <2>2. QueueTypeOK'
    BY <1>4, <2>1 DEF EndPush, QueueTypeOK, consumerVars
  <2> QED
    BY <1>4, <2>1, <2>2, RingFacts DEF EndPush, consumerVars, QueueCell
<1> QED
  BY <1>1, <1>2, <1>3, <1>4 DEF Producer

\* The consumer keeps the invariant.
LEMMA ConsumerKeeps == ASSUME RingInv, Consumer PROVE RingInv'
<1> USE DEF RingInv
<1>d. head' = head /\ tail' = tail => QueueDistance' = QueueDistance
  BY DEF QueueDistance
<1>c. QueueCell(tail) \in 0..(Capacity - 1)
  BY CellsInRing, RingFacts DEF QueueTypeOK
<1>1. CASE BeginPop
  <2>1. tail # head => QueueDistance > 0
    BY QueueDistanceIs, RingFacts DEF QueueTypeOK, QueueDistance
  <2>2. QueueTypeOK'
    BY <1>1 DEF BeginPop, QueueTypeOK, producerVars
  <2> QED
    BY <1>1, <1>d, <2>1, <2>2 DEF BeginPop, producerVars, QueueCell
<1>2. CASE StartRead
  BY <1>2, <1>d DEF StartRead, QueueTypeOK, producerVars, QueueCell
<1>3. CASE FinishRead
  <2>1. QueueTypeOK'
    BY <1>3, <1>c DEF FinishRead, QueueTypeOK, producerVars
  <2> QED
    BY <1>3, <1>d, <2>1 DEF FinishRead, producerVars, QueueCell
<1>4. CASE EndPop
  <2>1. tail' \in 0..(QueueModulus - 1) /\ QueueDistance' = QueueDistance - 1
    BY <1>4, TailMoves DEF EndPop
  <2>2. QueueTypeOK'
    BY <1>4, <2>1 DEF EndPop, QueueTypeOK, producerVars
  <2> QED
    BY <1>4, <2>1, <2>2, RingFacts DEF EndPop, producerVars, QueueCell
<1> QED
  BY <1>1, <1>2, <1>3, <1>4 DEF Consumer

\* The invariant holds from the start, and every step keeps it.
LEMMA RingInvHolds == QueueSpec => []RingInv
<1>1. QueueInit => RingInv
  <2> SUFFICES ASSUME QueueInit PROVE RingInv
    OBVIOUS
  <2>1. 0 \in 0..(QueueModulus - 1)
    BY RingFacts
  <2>2. QueueDistance = 0
    BY <2>1, QueueDistanceIs DEF QueueInit, QueueDistance
  <2> QED
    BY <2>1, <2>2, RingFacts DEF QueueInit, RingInv, QueueTypeOK
<1>2. RingInv /\ [QueueNext]_queueVars => RingInv'
  <2>1. RingInv /\ UNCHANGED queueVars => RingInv'
    BY DEF queueVars, producerVars, consumerVars, RingInv, QueueTypeOK, QueueDistance, QueueCell
  <2> QED
    BY <2>1, ProducerKeeps, ConsumerKeeps DEF QueueNext
<1> QED
  BY <1>1, <1>2, PTL DEF QueueSpec

\* The two threads never copy into and out of the same cell at once, however
\* the counters of push and pop wrap.
THEOREM NoSharedCellHolds == QueueSpec => []NoSharedCell
<1>1. RingInv => NoSharedCell
  <2> SUFFICES ASSUME RingInv, producer = "copying", consumer = "copying"
               PROVE  QueueCell(head) # QueueCell(tail)
    BY DEF NoSharedCell
  <2>1. 0 \in 0..(QueueDistance - 1) /\ tail + 0 = tail
    BY RingFacts DEF RingInv, QueueTypeOK
  <2> QED
    BY <2>1, WriteApart DEF RingInv
<1> QED
  BY <1>1, RingInvHolds, PTL

-----------------------------------------------------------------------------
(* The refinement.                                                         *)

Cells == Values \cup {Nothing, TornCell}

\* A function on the first d numbers is a sequence of length d.
LEMMA FirstAreSeq ==
    ASSUME NEW S, NEW d \in Nat, NEW f \in [1..d -> S]
    PROVE  f \in Seq(S) /\ Len(f) = d
  OBVIOUS

\* The contents are as long as the distance, and hold the cells from tail on.
LEMMA ContentsAre ==
    ASSUME RingInv
    PROVE  /\ Contents \in Seq(Cells) /\ Len(Contents) = QueueDistance
           /\ \A i \in 1..QueueDistance : Contents[i] = buffer[QueueCell(tail + i - 1)]
<1>1. QueueDistance \in Nat
  BY RingFacts DEF RingInv
<1>2. \A i \in 1..QueueDistance : buffer[QueueCell(tail + i - 1)] \in Cells
  <2> SUFFICES ASSUME NEW i \in 1..QueueDistance PROVE buffer[QueueCell(tail + i - 1)] \in Cells
    OBVIOUS
  <2>1. PICK j \in Nat : j = tail + i - 1
    BY <1>1, RingFacts DEF RingInv, QueueTypeOK
  <2>2. QueueCell(j) \in 0..(Capacity - 1)
    BY CellsInRing
  <2> QED
    BY <2>1, <2>2 DEF RingInv, QueueTypeOK, Cells
<1> QED
  BY <1>1, <1>2 DEF Contents

\* What is not a call's instant leaves the contents alone.
LEMMA ContentsKept ==
    ASSUME RingInv, RingInv', UNCHANGED <<head, tail>>,
           \A c \in 0..(Capacity - 1) : c # QueueCell(head) => buffer'[c] = buffer[c],
           buffer' # buffer => QueueDistance < Capacity
    PROVE  Contents' = Contents
<1>1. QueueDistance' = QueueDistance /\ QueueDistance \in Nat
  BY RingFacts DEF QueueDistance, RingInv
<1>2. ASSUME NEW i \in 1..QueueDistance
      PROVE  buffer'[QueueCell(tail + i - 1)] = buffer[QueueCell(tail + i - 1)]
  <2>1. CASE buffer' = buffer
    BY <2>1
  <2>2. CASE QueueDistance < Capacity
    <3>1. PICK j \in 0..(QueueDistance - 1) : j = i - 1 /\ tail + j = tail + i - 1 /\ tail + j \in Nat
      BY <1>1, RingFacts DEF RingInv, QueueTypeOK
    <3>2. QueueCell(tail + j) # QueueCell(head) /\ QueueCell(tail + j) \in 0..(Capacity - 1)
      BY <2>2, <3>1, WriteApart, CellsInRing DEF RingInv
    <3> QED
      BY <3>1, <3>2
  <2> QED
    BY <2>1, <2>2
<1> QED
  BY <1>1, <1>2 DEF Contents, QueueCell

\* The store of head_ appends the value; the store of tail_ takes the first.
LEMMA PushAppends == ASSUME RingInv, RingInv', EndPush PROVE Contents' = Append(Contents, value)
<1>1. QueueDistance' = QueueDistance + 1 /\ QueueDistance \in Nat /\ value \in Cells
  BY HeadMoves, RingFacts DEF EndPush, RingInv, Cells
<1>2. PICK d \in Nat : d = QueueDistance
  BY <1>1
<1>3. /\ Append(Contents, value) \in Seq(Cells) /\ Len(Append(Contents, value)) = d + 1
      /\ \A i \in 1..d : Append(Contents, value)[i] = Contents[i]
      /\ Append(Contents, value)[d + 1] = value
  BY <1>1, <1>2, ContentsAre, AppendProperties
<1>4. Contents' = [i \in 1..(d + 1) |-> buffer[QueueCell(tail + i - 1)]]
  BY <1>1, <1>2 DEF Contents, EndPush, QueueCell
<1>5. \A i \in 1..(d + 1) : buffer[QueueCell(tail + i - 1)] = Append(Contents, value)[i]
  <2> SUFFICES ASSUME NEW i \in 1..(d + 1)
               PROVE  buffer[QueueCell(tail + i - 1)] = Append(Contents, value)[i]
    OBVIOUS
  <2>1. CASE i \in 1..d
    BY <1>2, <1>3, <2>1, ContentsAre
  <2>2. CASE i = d + 1
    <3>1. tail + i - 1 = tail + QueueDistance
      BY <1>2, <2>2, RingFacts DEF RingInv, QueueTypeOK
    <3>2. buffer[QueueCell(head)] = value
      BY DEF RingInv, EndPush
    <3>3. QueueCell(tail + QueueDistance) = QueueCell(head)
      BY HeadCell DEF RingInv, QueueTypeOK
    <3>4. buffer[QueueCell(tail + i - 1)] = value
      BY <3>1, <3>2, <3>3
    <3>5. Append(Contents, value)[i] = value
      BY <1>3, <2>2
    <3> QED
      BY <3>4, <3>5
  <2>3. i \in 1..d \/ i = d + 1
    BY <1>2
  <2> QED
    BY <2>1, <2>2, <2>3
<1>6. PICK f : f = Append(Contents, value)
  OBVIOUS
<1>7. f = [i \in 1..(d + 1) |-> f[i]]
  BY <1>3, <1>6, LenProperties
<1>8. Contents' = [i \in 1..(d + 1) |-> f[i]]
  BY <1>4, <1>5, <1>6
<1> QED
  BY <1>6, <1>7, <1>8

\* A pop takes the first of the contents.
LEMMA PopTakesFirst ==
    ASSUME RingInv, RingInv', EndPop
    PROVE  Contents # <<>> /\ copied = Head(Contents) /\ Contents' = Tail(Contents)
<1>1. QueueDistance' = QueueDistance - 1 /\ QueueDistance \in Nat /\ QueueDistance > 0
  BY TailMoves, RingFacts DEF EndPop, RingInv
<1>2. PICK d \in Nat : d + 1 = QueueDistance
  BY <1>1
<1>3. /\ Contents \in Seq(Cells) /\ Len(Contents) = d + 1 /\ Contents # <<>>
      /\ \A i \in 1..(d + 1) : Contents[i] = buffer[QueueCell(tail + i - 1)]
  BY <1>2, ContentsAre, EmptySeq
<1>4. /\ Head(Contents) = Contents[1] /\ Tail(Contents) \in Seq(Cells) /\ Len(Tail(Contents)) = d
      /\ \A i \in 1..d : Tail(Contents)[i] = Contents[i + 1]
  BY <1>2, <1>3, HeadTailProperties
<1>5. copied = Head(Contents)
  <2>1. tail + 1 - 1 = tail /\ 1 \in 1..(d + 1)
    BY <1>2, RingFacts DEF RingInv, QueueTypeOK
  <2> QED
    BY <1>3, <1>4, <2>1 DEF RingInv, EndPop
<1>6. Contents' = [i \in 1..d |-> buffer[QueueCell(QueueSucc(tail) + i - 1)]]
  BY <1>1, <1>2 DEF Contents, EndPop, QueueCell, QueueSucc
<1>7. \A i \in 1..d : buffer[QueueCell(QueueSucc(tail) + i - 1)] = Tail(Contents)[i]
  <2> SUFFICES ASSUME NEW i \in 1..d
               PROVE  buffer[QueueCell(QueueSucc(tail) + i - 1)] = Tail(Contents)[i]
    OBVIOUS
  <2>1. PICK j \in Nat : j = i - 1
    OBVIOUS
  <2>2. QueueCell(QueueSucc(tail) + j) = QueueCell(tail + (j + 1))
    BY NextCells DEF RingInv, QueueTypeOK
  <2>3. QueueSucc(tail) + i - 1 = QueueSucc(tail) + j /\ tail + (j + 1) = tail + (i + 1) - 1
    BY <2>1, SuccWraps, RingFacts DEF RingInv, QueueTypeOK
  <2> QED
    BY <1>3, <1>4, <2>2, <2>3
<1>8. PICK f : f = Tail(Contents)
  OBVIOUS
<1>9. f = [i \in 1..d |-> f[i]]
  BY <1>4, <1>8, LenProperties
<1>10. Contents' = [i \in 1..d |-> f[i]]
  BY <1>6, <1>7, <1>8
<1> QED
  BY <1>3, <1>5, <1>8, <1>9, <1>10

\* The ring is a bounded first-in first-out queue: every push and every pop
\* takes effect at one instant, and nothing is lost, torn, duplicated or
\* reordered, for every capacity and however the counters wrap.
THEOREM ImplementsFifoHolds == QueueSpec => ImplementsFifo
<1>1. QueueInit => Fifo!Init
  <2> SUFFICES ASSUME QueueInit PROVE Fifo!Init
    OBVIOUS
  <2>1. QueueDistance = 0
    BY QueueDistanceIs, RingFacts DEF QueueInit, QueueDistance
  <2>2. Contents = <<>>
    BY <2>1 DEF Contents
  <2> QED
    BY <2>2 DEF QueueInit, Fifo!Init
<1>2. RingInv /\ RingInv' /\ [QueueNext]_queueVars => [Fifo!Next]_(Fifo!vars)
  <2> SUFFICES ASSUME RingInv, RingInv', [QueueNext]_queueVars PROVE [Fifo!Next]_(Fifo!vars)
    OBVIOUS
  <2>c. /\ Contents \in Seq(Cells) /\ Len(Contents) = QueueDistance
        /\ QueueDistance \in 0..Capacity /\ Capacity \in Nat \ {0}
    BY ContentsAre, RingFacts DEF RingInv
  <2>h. QueueCell(head) \in 0..(Capacity - 1)
    <3>1. head \in Nat
      BY RingFacts DEF RingInv, QueueTypeOK
    <3> QED
      BY <3>1, CellsInRing
  <2>s. ASSUME Contents' = Contents, UNCHANGED <<accepted, out>> PROVE [Fifo!Next]_(Fifo!vars)
    BY <2>s DEF Fifo!vars
  <2>k. ASSUME UNCHANGED <<head, tail, buffer>> PROVE Contents' = Contents
    BY <2>k, ContentsKept
  <2>1. ASSUME NEW v \in Values, BeginPush(v) PROVE [Fifo!Next]_(Fifo!vars)
    <3>1. CASE IsFull
      <4>1. Len(Contents) = Capacity
        BY <2>c, <3>1 DEF IsFull
      <4> QED
        BY <2>1, <2>k, <3>1, <4>1 DEF BeginPush, consumerVars, Fifo!Next, Fifo!Refuse
    <3>2. CASE ~IsFull
      BY <2>1, <2>k, <2>s, <3>2 DEF BeginPush, consumerVars
    <3> QED
      BY <3>1, <3>2
  <2>2. CASE StartWrite \/ FinishWrite
    <3>1. Contents' = Contents
      BY <2>2, <2>h, ContentsKept DEF StartWrite, FinishWrite, RingInv, QueueTypeOK
    <3> QED
      BY <2>2, <2>s, <3>1 DEF StartWrite, FinishWrite, consumerVars
  <2>3. CASE EndPush
    <3>1. value \in Values /\ Len(Contents) < Capacity /\ Contents' = Append(Contents, value)
      BY <2>3, <2>c, PushAppends DEF EndPush, RingInv
    <3>2. accepted' = TRUE /\ out' = out
      BY <2>3 DEF EndPush, consumerVars
    <3> QED
      BY <3>1, <3>2 DEF Fifo!Next, Fifo!Push
  <2>4. CASE BeginPop
    <3>1. CASE tail = head
      <4>1. QueueDistance = 0
        BY <3>1, QueueDistanceIs, RingFacts DEF RingInv, QueueTypeOK, QueueDistance
      <4>2. Contents = <<>>
        BY <2>c, <4>1, EmptySeq
      <4> QED
        BY <2>4, <2>k, <3>1, <4>2 DEF BeginPop, producerVars, Fifo!Next, Fifo!FindEmpty
    <3>2. CASE tail # head
      BY <2>4, <2>k, <2>s, <3>2 DEF BeginPop, producerVars
    <3> QED
      BY <3>1, <3>2
  <2>5. CASE StartRead \/ FinishRead
    BY <2>5, <2>k, <2>s DEF StartRead, FinishRead, producerVars
  <2>6. CASE EndPop
    <3>1. Contents # <<>> /\ copied = Head(Contents) /\ Contents' = Tail(Contents)
      BY <2>6, PopTakesFirst
    <3>2. out' = copied /\ accepted' = accepted
      BY <2>6 DEF EndPop, producerVars
    <3> QED
      BY <3>1, <3>2 DEF Fifo!Next, Fifo!Pop
  <2>7. CASE UNCHANGED queueVars
    BY <2>7, <2>k, <2>s DEF queueVars, producerVars, consumerVars
  <2> QED
    BY <2>1, <2>2, <2>3, <2>4, <2>5, <2>6, <2>7 DEF QueueNext, Producer, Consumer
<1> QED
  BY <1>1, <1>2, RingInvHolds, PTL DEF QueueSpec, ImplementsFifo, Fifo!Spec

-----------------------------------------------------------------------------
(***************************************************************************)
(* The two rings of a bridge, for every size and every number of crashes.  *)
(*                                                                         *)
(* The invariant has three parts.  The indices: what one side has begun    *)
(* leaves the room or the block it counted on, since the other side only   *)
(* adds to it.  The restart: from the reset of the shared memory to the    *)
(* moment the state is live again, no block is under way and both rings    *)
(* are empty.  The data: what is between two indices is the stream of the  *)
(* current child, each block in the cell of its own number.  All of it     *)
(* holds as long as no restart has met a block under way.                  *)
(***************************************************************************)

IndicesInv ==
    /\ RingDistance(inW, inR) \in 0..RingSlots /\ RingDistance(outW, outR) \in 0..RingSlots
    /\ open => RingDistance(inW, inR) < RingSlots
    /\ apc \in {"commit", "commit2"} => open
    /\ apc = "commit2" => reg = inW
    /\ apc = "play2" => reg = outR
    /\ apc \in {"play", "play2"} => RingDistance(outW, outR) > 0
    /\ alive /\ cpc \in {"process", "commit"} =>
          RingDistance(inW, inR) > 0 /\ RingDistance(outW, outR) < RingSlots
    /\ alive /\ cpc = "release" => RingDistance(inW, inR) > 0
    /\ alive => outW = (IF cpc = "release" THEN RingSucc(inR) ELSE inR)

RestartInv ==
    /\ spc # "idle" => /\ state = "crashed" /\ apc = "out"
                       /\ inW = 0 /\ inR = 0 /\ outW = 0 /\ outR = 0
    /\ spc \in {"spawn", "publish"} => seq = 0 /\ ~open
    /\ state = "crashed" /\ spc # "publish" => ~alive
    /\ spc = "publish" /\ alive => cpc \in {"spin", "parked"}
    /\ spc # "locals" => seq = (IF apc \in {"commit", "commit2"} THEN RingSucc(inW) ELSE inW)

\* Block i of the current child.
Numbered(i) == [epoch |-> epoch, seq |-> i]

DataInv ==
    /\ \A i \in RingIndex : RingDistance(i, inR) < RingDistance(inW, inR) =>
          inSlot[RingCell(i)] = Numbered(i)
    /\ apc \in {"commit", "commit2"} => inSlot[RingCell(inW)] = Numbered(inW)
    /\ \A i \in RingIndex : RingDistance(i, outR) < RingDistance(outW, outR) =>
          outSlot[RingCell(i)] = Numbered(i)
    /\ alive /\ cpc = "commit" => outSlot[RingCell(outW)] = Numbered(outW)

BridgeInv == BridgeTypeOK /\ (~contended => IndicesInv /\ RestartInv /\ DataInv)

-----------------------------------------------------------------------------
(* The indices.                                                            *)

\* The sizes, and that a lap of the counters is a whole number of rings.
LEMMA Sizes ==
    /\ RingSlots \in Nat \ {0} /\ Modulus \in Nat \ {0} /\ Modulus >= 4 * RingSlots
    /\ \E laps \in Nat : Modulus = laps * RingSlots
<1>1. RingSlots \in Nat \ {0} /\ Modulus \in Nat /\ Modulus >= 4 * RingSlots
  BY RingAssumption
<1>2. Modulus \in Nat \ {0} /\ Modulus % RingSlots = 0
  BY <1>1, RingAssumption
<1>3. PICK q \in Nat : Modulus = RingSlots * q + (Modulus % RingSlots)
  BY <1>1, <1>2, Division
<1>4. Modulus = q * RingSlots
  BY <1>1, <1>2, <1>3
<1> QED
  BY <1>1, <1>2, <1>4

\* The next counter, without the modulus.
LEMMA SuccIs ==
    ASSUME NEW i \in RingIndex
    PROVE  RingSucc(i) = (IF i + 1 = Modulus THEN 0 ELSE i + 1) /\ RingSucc(i) \in RingIndex
<1>1. RingSucc(i) = (IF i + 1 = Modulus THEN 0 ELSE i + 1)
  BY Sizes, SuccessorWraps DEF RingSucc, RingIndex
<1> QED
  BY <1>1, Sizes DEF RingIndex

\* The distance of two counters, without the modulus.
LEMMA RingDistanceIs ==
    ASSUME NEW w \in RingIndex, NEW r \in RingIndex
    PROVE  RingDistance(w, r) = (IF r <= w THEN w - r ELSE w + Modulus - r)
  BY Sizes, DistanceWraps DEF RingDistance, RingIndex

\* How the distance of a ring changes when either side moves on.
LEMMA DistanceMoves ==
    ASSUME NEW w \in RingIndex, NEW r \in RingIndex
    PROVE  /\ RingDistance(w, r) \in 0..(Modulus - 1) /\ RingDistance(w, w) = 0
           /\ RingDistance(w, r) = 0 => w = r
           /\ RingDistance(w, r) < RingSlots => RingDistance(RingSucc(w), r) = RingDistance(w, r) + 1
           /\ RingDistance(w, r) > 0 => RingDistance(w, RingSucc(r)) = RingDistance(w, r) - 1
<1>1. /\ RingDistance(w, r) = (IF r <= w THEN w - r ELSE w + Modulus - r)
      /\ RingDistance(w, w) = (IF w <= w THEN w - w ELSE w + Modulus - w)
  BY RingDistanceIs
<1>2. PICK sw \in RingIndex, sr \in RingIndex :
          /\ sw = RingSucc(w) /\ sw = (IF w + 1 = Modulus THEN 0 ELSE w + 1)
          /\ sr = RingSucc(r) /\ sr = (IF r + 1 = Modulus THEN 0 ELSE r + 1)
  BY SuccIs
<1>3. /\ RingDistance(sw, r) = (IF r <= sw THEN sw - r ELSE sw + Modulus - r)
      /\ RingDistance(w, sr) = (IF sr <= w THEN w - sr ELSE w + Modulus - sr)
  BY RingDistanceIs
<1>4. PICK m \in Nat \ {0}, n \in Nat \ {0} :
          m = Modulus /\ n = RingSlots /\ m >= 4 * n /\ w \in 0..(m - 1) /\ r \in 0..(m - 1)
  BY Sizes DEF RingIndex
<1>5. RingDistance(w, r) \in 0..(m - 1) /\ RingDistance(w, w) = 0 /\ (RingDistance(w, r) = 0 => w = r)
  BY <1>1, <1>4
<1>6. RingDistance(w, r) < n => RingDistance(sw, r) = RingDistance(w, r) + 1
  BY <1>1, <1>2, <1>3, <1>4
<1>7. RingDistance(w, r) > 0 => RingDistance(w, sr) = RingDistance(w, r) - 1
  BY <1>1, <1>2, <1>3, <1>4
<1> QED
  BY <1>2, <1>4, <1>5, <1>6, <1>7

\* Which blocks a ring holds after either side has moved on.
LEMMA PendingMoves ==
    ASSUME NEW w \in RingIndex, NEW r \in RingIndex, NEW i \in RingIndex
    PROVE  /\ RingDistance(i, r) < RingDistance(w, r) + 1 =>
                  i = w \/ RingDistance(i, r) < RingDistance(w, r)
           /\ RingDistance(w, r) \in 1..RingSlots
                /\ RingDistance(i, RingSucc(r)) < RingDistance(w, r) - 1 =>
                  RingDistance(i, r) < RingDistance(w, r)
<1>1. /\ RingDistance(w, r) = (IF r <= w THEN w - r ELSE w + Modulus - r)
      /\ RingDistance(i, r) = (IF r <= i THEN i - r ELSE i + Modulus - r)
  BY RingDistanceIs
<1>2. PICK sr \in RingIndex : sr = RingSucc(r) /\ sr = (IF r + 1 = Modulus THEN 0 ELSE r + 1)
  BY SuccIs
<1>3. RingDistance(i, sr) = (IF sr <= i THEN i - sr ELSE i + Modulus - sr)
  BY RingDistanceIs
<1>4. PICK m \in Nat \ {0}, n \in Nat \ {0} :
          /\ m = Modulus /\ n = RingSlots /\ m >= 4 * n
          /\ w \in 0..(m - 1) /\ r \in 0..(m - 1) /\ i \in 0..(m - 1)
  BY Sizes DEF RingIndex
<1>5. RingDistance(i, r) < RingDistance(w, r) + 1 => i = w \/ RingDistance(i, r) < RingDistance(w, r)
  BY <1>1, <1>4
<1>6. RingDistance(w, r) \in 1..n /\ RingDistance(i, sr) < RingDistance(w, r) - 1 =>
          RingDistance(i, r) < RingDistance(w, r)
  BY <1>1, <1>2, <1>3, <1>4
<1> QED
  BY <1>2, <1>4, <1>5, <1>6

\* The cell of a counter is one of the ring.
LEMMA CellsAre == ASSUME NEW i \in RingIndex PROVE RingCell(i) \in Ring
  BY Sizes, Division DEF RingCell, Ring, RingIndex

\* A block the ring holds is not in the cell that is written next.
LEMMA PendingApart ==
    ASSUME NEW w \in RingIndex, NEW r \in RingIndex, NEW i \in RingIndex,
           RingDistance(i, r) < RingDistance(w, r), RingDistance(w, r) < RingSlots
    PROVE  RingCell(i) # RingCell(w)
<1>1. PICK n \in Nat \ {0} : n = RingSlots
  BY Sizes
<1>2. PICK laps \in Nat : Modulus = laps * n
  BY <1>1, Sizes
<1>3. /\ RingDistance(w, r) = (IF r <= w THEN w - r ELSE w + Modulus - r)
      /\ RingDistance(i, r) = (IF r <= i THEN i - r ELSE i + Modulus - r)
  BY RingDistanceIs
<1>4. PICK m \in Nat :
          /\ m = Modulus /\ m >= 4 * n
          /\ w \in 0..(m - 1) /\ r \in 0..(m - 1) /\ i \in 0..(m - 1)
  BY <1>1, Sizes DEF RingIndex
<1>5. CASE i < w
  <2>1. w - i < n /\ i \in Nat /\ w \in Nat
    BY <1>1, <1>3, <1>4, <1>5
  <2>2. i % n # w % n
    BY <1>5, <2>1, CellsApart
  <2> QED
    BY <1>1, <2>2 DEF RingCell
<1>6. CASE w < i
  <2>1. PICK v \in Nat : v = w + m /\ i < v /\ v - i < n /\ i \in Nat /\ w \in Nat
    BY <1>1, <1>3, <1>4, <1>6
  <2>2. v % n = w % n
    BY <1>2, <1>4, <2>1, CellsRepeat
  <2>3. i % n # v % n
    BY <2>1, CellsApart
  <2> QED
    BY <1>1, <2>2, <2>3 DEF RingCell
<1>7. i < w \/ w < i
  BY <1>3, <1>4
<1> QED
  BY <1>5, <1>6, <1>7

-----------------------------------------------------------------------------
(* Types.                                                                  *)

\* A reset counter is a counter.
LEMMA ZeroIsIndex == 0 \in RingIndex
  BY Sizes DEF RingIndex

\* The audio thread keeps the types.
LEMMA AudioKeepsTypes == ASSUME BridgeTypeOK, Event \/ ProcessBlock PROVE BridgeTypeOK'
<1> USE DEF BridgeTypeOK, AudioGoto, shm, locals, child, bridgeHistory
<1>1. CASE Event
  BY <1>1 DEF Event
<1>2. CASE Gate
  BY <1>2 DEF Gate
<1>3. CASE CheckBeat
  <2>1. StaleNow \in 0..StaleBlocks
    BY RingAssumption DEF StaleNow
  <2>2. state' \in {"live", "bypassed", "crashed"}
    BY <1>3 DEF CheckBeat
  <2> QED
    BY <1>3, <2>1, <2>2 DEF CheckBeat
<1>4. CASE PublishInput
  <2>1. RingSucc(seq) \in RingIndex /\ [epoch |-> epoch, seq |-> seq] \in Block
    BY SuccIs DEF Block
  <2>2. inSlot' \in [Ring -> Block]
    BY <1>4, <2>1 DEF PublishInput
  <2> QED
    BY <1>4, <2>1, <2>2 DEF PublishInput
<1>5. CASE DropInput \/ Bypass \/ Peek \/ Silence
  BY <1>5 DEF DropInput, Bypass, Peek, Silence
<1>6. CASE LoadInWrite \/ LoadOutRead
  BY <1>6 DEF LoadInWrite, LoadOutRead
<1>7. CASE StoreInWrite
  <2>1. RingSucc(reg) \in RingIndex
    BY SuccIs
  <2> QED
    BY <1>7, <2>1, ZeroIsIndex DEF StoreInWrite
<1>8. CASE StoreOutRead
  <2>1. RingSucc(reg) \in RingIndex
    BY SuccIs
  <2> QED
    BY <1>8, <2>1, ZeroIsIndex DEF StoreOutRead
<1> QED
  BY <1>1, <1>2, <1>3, <1>4, <1>5, <1>6, <1>7, <1>8 DEF ProcessBlock

\* The child keeps the types.
LEMMA ChildKeepsTypes == ASSUME BridgeTypeOK, Park \/ Child \/ Die PROVE BridgeTypeOK'
<1> USE DEF BridgeTypeOK, ChildGoto, shm, audio, locals, bridgeHistory
<1>1. CASE Park \/ Unpark \/ Take
  BY <1>1 DEF Park, Unpark, Take
<1>2. CASE Process
  <2>1. inSlot[RingCell(inR)] \in Block
    BY CellsAre
  <2>2. outSlot' \in [Ring -> Block]
    BY <1>2, <2>1 DEF Process
  <2> QED
    BY <1>2, <2>2 DEF Process
<1>3. CASE CommitOut
  <2>1. RingSucc(outW) \in RingIndex
    BY SuccIs
  <2> QED
    BY <1>3, <2>1 DEF CommitOut
<1>4. CASE ReleaseIn
  <2>1. RingSucc(inR) \in RingIndex
    BY SuccIs
  <2> QED
    BY <1>4, <2>1 DEF ReleaseIn
<1>5. CASE Beat
  <2>1. RingSucc(heartbeat) \in RingIndex
    BY SuccIs
  <2> QED
    BY <1>5, <2>1 DEF Beat
<1>6. CASE Die
  <2>1. crashes' \in 0..MaxCrashes
    BY <1>6, RingAssumption DEF Die
  <2> QED
    BY <1>6, <2>1 DEF Die
<1> QED
  BY <1>1, <1>2, <1>3, <1>4, <1>5, <1>6 DEF Child

\* The session keeps the types.
LEMMA SessionKeepsTypes ==
    ASSUME BridgeTypeOK, Poll \/ ResetControlBlock \/ Restart PROVE BridgeTypeOK'
<1> USE DEF BridgeTypeOK, SessionGoto, shm, audio, locals, child, bridgeHistory
<1>1. CASE Poll
  BY <1>1 DEF Poll
<1>2. CASE ResetControlBlock
  BY <1>2, ZeroIsIndex DEF ResetControlBlock, ResetOutRead
<1>3. CASE ResetLocals
  <2>1. 0 \in 0..StaleBlocks
    BY RingAssumption
  <2> QED
    BY <1>3, <2>1, ZeroIsIndex DEF ResetLocals
<1>4. CASE Spawn
  BY <1>4 DEF Spawn
<1>5. CASE SpawnFails \/ GoLive
  BY <1>5 DEF SpawnFails, GoLive
<1> QED
  BY <1>1, <1>2, <1>3, <1>4, <1>5 DEF Restart

-----------------------------------------------------------------------------
(* Steps.                                                                  *)

Streaming == IndicesInv /\ RestartInv /\ DataInv

\* A step that leaves the shared memory, the child and the restart alone, and
\* moves the audio thread between places where it has promised nothing more.
LEMMA IdleAudioStep ==
    ASSUME BridgeTypeOK, Streaming, UNCHANGED <<shm, seq, child, spc, bridgeHistory>>,
           state' = state \/ (state # "crashed" /\ state' # "crashed"),
           apc \notin {"commit", "commit2"}, apc' \notin {"commit", "commit2"},
           apc' \in {"play", "play2"} => RingDistance(outW, outR) > 0,
           apc' = "play2" => reg' = outR,
           open' => open \/ (state # "crashed" /\ RingDistance(inW, inR) < RingSlots),
           spc # "idle" => apc' = "out"
    PROVE  Streaming'
<1>1. IndicesInv'
  BY DEF Streaming, IndicesInv, RestartInv, shm, child
<1>2. RestartInv'
  BY DEF Streaming, RestartInv, shm, child
<1>3. DataInv'
  BY DEF Streaming, DataInv, Numbered, shm, child, bridgeHistory
<1> QED
  BY <1>1, <1>2, <1>3 DEF Streaming

\* Room in a ring, as the code asks for it.
LEMMA NotFull ==
    ASSUME BridgeTypeOK
    PROVE  /\ ~Full(inW, inR) => RingDistance(inW, inR) < RingSlots
           /\ ~Full(outW, outR) => RingDistance(outW, outR) < RingSlots
           /\ Ready(outW, outR) => RingDistance(outW, outR) > 0
  BY DistanceMoves, Sizes DEF BridgeTypeOK, Full, Ready

\* The audio thread's steps that change neither ring.
LEMMA QuietAudioSteps ==
    ASSUME BridgeTypeOK, Streaming,
           Event \/ Gate \/ CheckBeat \/ DropInput \/ Bypass \/ Peek \/ Silence \/ LoadOutRead
    PROVE  Streaming'
<1> USE DEF AudioGoto, locals
<1>s. spc # "idle" => apc = "out" /\ state = "crashed"
  BY DEF Streaming, RestartInv
<1>1. CASE Event
  <2>1. state # "crashed" /\ RingDistance(inW, inR) < RingSlots
    BY <1>1, NotFull DEF Event, CanOpen
  <2> QED
    BY <1>1, <1>s, <2>1, IdleAudioStep DEF Event
<1>2. CASE Gate
  BY <1>2, <1>s, IdleAudioStep DEF Gate
<1>3. CASE CheckBeat
  BY <1>3, <1>s, IdleAudioStep DEF CheckBeat
<1>4. CASE DropInput \/ Bypass \/ Silence
  BY <1>4, <1>s, IdleAudioStep DEF DropInput, Bypass, Silence
<1>5. CASE Peek
  BY <1>5, <1>s, NotFull, IdleAudioStep DEF Peek
<1>6. CASE LoadOutRead
  <2>1. RingDistance(outW, outR) > 0
    BY <1>6 DEF LoadOutRead, Streaming, IndicesInv
  <2> QED
    BY <1>6, <1>s, <2>1, IdleAudioStep DEF LoadOutRead
<1> QED
  BY <1>1, <1>2, <1>3, <1>4, <1>5, <1>6

\* The input of a block goes into a cell that holds none.
LEMMA PublishInputStep == ASSUME BridgeTypeOK, Streaming, PublishInput PROVE Streaming'
<1> USE DEF AudioGoto, child, bridgeHistory
<1>1. /\ apc = "publish" /\ apc' = "commit" /\ open' /\ seq = inW
      /\ spc = "idle" /\ RingDistance(inW, inR) < RingSlots
      /\ UNCHANGED <<state, inW, inR, outW, outR, outSlot, heartbeat, alive, cpc, spc, epoch>>
  BY NotFull DEF PublishInput, Streaming, IndicesInv, RestartInv, CanOpen
<1>2. inSlot' = [inSlot EXCEPT ![RingCell(inW)] = Numbered(inW)] /\ seq' = RingSucc(inW)
  BY <1>1 DEF PublishInput, Numbered
<1>3. IndicesInv'
  BY <1>1 DEF Streaming, IndicesInv
<1>4. RestartInv'
  BY <1>1, <1>2 DEF Streaming, RestartInv
<1>5. RingCell(inW) \in Ring /\ inSlot'[RingCell(inW)] = Numbered(inW)
  BY <1>2, CellsAre DEF BridgeTypeOK
<1>6. ASSUME NEW i \in RingIndex, RingDistance(i, inR) < RingDistance(inW, inR)
      PROVE  inSlot'[RingCell(i)] = Numbered(i)
  <2>1. RingCell(i) # RingCell(inW)
    BY <1>1, <1>6, PendingApart DEF BridgeTypeOK
  <2> QED
    BY <1>2, <1>6, <2>1, CellsAre DEF BridgeTypeOK, Streaming, DataInv
<1>7. DataInv'
  BY <1>1, <1>5, <1>6 DEF Streaming, DataInv, Numbered
<1> QED
  BY <1>3, <1>4, <1>7 DEF Streaming

\* Committing the input makes it the newest block of the ring.
LEMMA CommitInputSteps ==
    ASSUME BridgeTypeOK, Streaming, LoadInWrite \/ StoreInWrite PROVE Streaming'
<1> USE DEF AudioGoto, child, bridgeHistory
<1>1. CASE LoadInWrite
  <2>1. IndicesInv'
    BY <1>1 DEF LoadInWrite, Streaming, IndicesInv, shm, locals
  <2>2. RestartInv'
    BY <1>1 DEF LoadInWrite, Streaming, RestartInv, shm, locals
  <2>3. DataInv'
    BY <1>1 DEF LoadInWrite, Streaming, DataInv, Numbered, shm
  <2> QED
    BY <2>1, <2>2, <2>3 DEF Streaming
<1>2. CASE StoreInWrite
  <2>1. /\ apc = "commit2" /\ apc' = "output" /\ ~open' /\ inW' = RingSucc(inW) /\ spc = "idle"
        /\ UNCHANGED <<state, inR, outW, outR, inSlot, outSlot, alive, cpc, spc, epoch, seq>>
    BY <1>2 DEF StoreInWrite, Streaming, IndicesInv, RestartInv
  <2>2. RingDistance(inW, inR) < RingSlots /\ seq = RingSucc(inW) /\ inSlot[RingCell(inW)] = Numbered(inW)
    BY <2>1 DEF Streaming, IndicesInv, RestartInv, DataInv
  <2>3. RingDistance(inW', inR) = RingDistance(inW, inR) + 1
    BY <2>1, <2>2, DistanceMoves DEF BridgeTypeOK
  <2>4. IndicesInv'
    BY <2>1, <2>2, <2>3, Sizes DEF Streaming, IndicesInv
  <2>5. RestartInv'
    BY <2>1, <2>2 DEF Streaming, RestartInv
  <2>6. ASSUME NEW i \in RingIndex, RingDistance(i, inR) < RingDistance(inW', inR)
        PROVE  inSlot[RingCell(i)] = Numbered(i)
    BY <2>2, <2>3, <2>6, PendingMoves DEF BridgeTypeOK, Streaming, DataInv
  <2>7. DataInv'
    BY <2>1, <2>6 DEF Streaming, DataInv, Numbered
  <2> QED
    BY <2>4, <2>5, <2>7 DEF Streaming
<1> QED
  BY <1>1, <1>2

\* Releasing the oldest output leaves the others.
LEMMA StoreOutReadStep == ASSUME BridgeTypeOK, Streaming, StoreOutRead PROVE Streaming'
<1> USE DEF AudioGoto, child, bridgeHistory, locals
<1>1. /\ apc = "play2" /\ apc' = "out" /\ outR' = RingSucc(outR) /\ spc = "idle"
      /\ RingDistance(outW, outR) \in 1..RingSlots
      /\ UNCHANGED <<state, inW, inR, outW, inSlot, outSlot, alive, cpc, spc, epoch, seq, open>>
  BY Sizes DEF StoreOutRead, Streaming, IndicesInv, RestartInv
<1>2. RingDistance(outW, outR') = RingDistance(outW, outR) - 1
  BY <1>1, DistanceMoves DEF BridgeTypeOK
<1>3. IndicesInv'
  BY <1>1, <1>2, Sizes DEF Streaming, IndicesInv
<1>4. RestartInv'
  BY <1>1 DEF Streaming, RestartInv
<1>5. ASSUME NEW i \in RingIndex, RingDistance(i, outR') < RingDistance(outW, outR')
      PROVE  outSlot[RingCell(i)] = Numbered(i)
  BY <1>1, <1>2, <1>5, PendingMoves DEF BridgeTypeOK, Streaming, DataInv
<1>6. DataInv'
  BY <1>1, <1>5 DEF Streaming, DataInv, Numbered
<1> QED
  BY <1>3, <1>4, <1>6 DEF Streaming

\* The child's steps that change neither ring, its death among them.
LEMMA QuietChildSteps ==
    ASSUME BridgeTypeOK, Streaming, Park \/ Unpark \/ Take \/ Beat \/ Die PROVE Streaming'
<1> USE DEF ChildGoto, audio, locals, bridgeHistory
<1>1. CASE Park \/ Unpark \/ Beat
  <2>1. /\ cpc \in {"spin", "parked", "beat"} /\ cpc' \in {"spin", "parked"}
        /\ UNCHANGED <<state, inW, inR, outW, outR, inSlot, outSlot, alive, spc, epoch,
                        apc, reg, open, seq>>
    BY <1>1 DEF Park, Unpark, Beat, shm
  <2>2. IndicesInv' /\ RestartInv'
    BY <2>1 DEF Streaming, IndicesInv, RestartInv
  <2>3. DataInv'
    BY <2>1 DEF Streaming, DataInv, Numbered
  <2> QED
    BY <2>2, <2>3 DEF Streaming
<1>2. CASE Take
  <2>1. /\ cpc = "spin" /\ cpc' = "process" /\ alive /\ inR # inW
        /\ UNCHANGED <<state, inW, inR, outW, outR, inSlot, outSlot, alive, spc, epoch,
                        apc, reg, open, seq>>
    BY <1>2 DEF Take, shm
  <2>2. RingDistance(inW, inR) > 0 /\ RingDistance(outW, outR) < RingSlots
    BY <1>2, <2>1, DistanceMoves, NotFull, Sizes DEF Take, BridgeTypeOK
  <2>3. IndicesInv'
    BY <2>1, <2>2 DEF Streaming, IndicesInv
  <2>4. RestartInv'
    BY <2>1 DEF Streaming, RestartInv
  <2>5. DataInv'
    BY <2>1 DEF Streaming, DataInv, Numbered
  <2> QED
    BY <2>3, <2>4, <2>5 DEF Streaming
<1>3. CASE Die
  <2>1. /\ ~alive'
        /\ UNCHANGED <<state, inW, inR, outW, outR, inSlot, outSlot, cpc, spc, epoch,
                        apc, reg, open, seq>>
    BY <1>3 DEF Die, shm
  <2>2. IndicesInv' /\ RestartInv'
    BY <2>1 DEF Streaming, IndicesInv, RestartInv
  <2>3. DataInv'
    BY <2>1 DEF Streaming, DataInv, Numbered
  <2> QED
    BY <2>2, <2>3 DEF Streaming
<1> QED
  BY <1>1, <1>2, <1>3

\* The child that works is not being restarted.
LEMMA WorkingChild ==
    ASSUME BridgeTypeOK, Streaming, alive, cpc \notin {"spin", "parked"} PROVE spc = "idle"
  BY DEF BridgeTypeOK, Streaming, RestartInv

\* The block the child writes goes into a cell that holds none.
LEMMA ProcessStep == ASSUME BridgeTypeOK, Streaming, Process PROVE Streaming'
<1> USE DEF ChildGoto, audio, locals, bridgeHistory
<1>1. /\ cpc = "process" /\ cpc' = "commit" /\ alive /\ outW = inR
      /\ RingDistance(inW, inR) > 0 /\ RingDistance(outW, outR) < RingSlots
      /\ UNCHANGED <<state, inW, inR, outW, outR, inSlot, alive, spc, epoch, apc, reg, open, seq>>
  BY DEF Process, Streaming, IndicesInv
<1>2. inSlot[RingCell(inR)] = Numbered(inR)
  BY <1>1, DistanceMoves DEF BridgeTypeOK, Streaming, DataInv
<1>3. outSlot' = [outSlot EXCEPT ![RingCell(outW)] = Numbered(outW)]
  BY <1>1, <1>2 DEF Process
<1>4. RingCell(outW) \in Ring /\ outSlot'[RingCell(outW)] = Numbered(outW)
  BY <1>3, CellsAre DEF BridgeTypeOK
<1>5. ASSUME NEW i \in RingIndex, RingDistance(i, outR) < RingDistance(outW, outR)
      PROVE  outSlot'[RingCell(i)] = Numbered(i)
  <2>1. RingCell(i) # RingCell(outW)
    BY <1>1, <1>5, PendingApart DEF BridgeTypeOK
  <2> QED
    BY <1>3, <1>5, <2>1, CellsAre DEF BridgeTypeOK, Streaming, DataInv
<1>6. IndicesInv'
  BY <1>1 DEF Streaming, IndicesInv
<1>7. RestartInv'
  BY <1>1 DEF Streaming, RestartInv
<1>8. DataInv'
  BY <1>1, <1>4, <1>5 DEF Streaming, DataInv, Numbered
<1> QED
  BY <1>6, <1>7, <1>8 DEF Streaming

\* Committing the output makes it the newest block of the ring.
LEMMA CommitOutStep == ASSUME BridgeTypeOK, Streaming, CommitOut PROVE Streaming'
<1> USE DEF ChildGoto, audio, locals, bridgeHistory
<1>1. /\ cpc = "commit" /\ cpc' = "release" /\ alive /\ outW = inR /\ outW' = RingSucc(outW)
      /\ RingDistance(inW, inR) > 0 /\ RingDistance(outW, outR) < RingSlots
      /\ outSlot[RingCell(outW)] = Numbered(outW)
      /\ UNCHANGED <<state, inW, inR, outR, inSlot, outSlot, alive, spc, epoch, apc, reg, open, seq>>
  BY DEF CommitOut, Streaming, IndicesInv, DataInv
<1>2. RingDistance(outW', outR) = RingDistance(outW, outR) + 1
  BY <1>1, DistanceMoves DEF BridgeTypeOK
<1>3. IndicesInv'
  BY <1>1, <1>2, Sizes DEF Streaming, IndicesInv
<1>4. RestartInv'
  BY <1>1, WorkingChild DEF Streaming, RestartInv, BridgeTypeOK
<1>5. ASSUME NEW i \in RingIndex, RingDistance(i, outR) < RingDistance(outW', outR)
      PROVE  outSlot[RingCell(i)] = Numbered(i)
  BY <1>1, <1>2, <1>5, PendingMoves DEF BridgeTypeOK, Streaming, DataInv
<1>6. DataInv'
  BY <1>1, <1>5 DEF Streaming, DataInv, Numbered
<1> QED
  BY <1>3, <1>4, <1>6 DEF Streaming

\* Releasing the input leaves the later ones.
LEMMA ReleaseInStep == ASSUME BridgeTypeOK, Streaming, ReleaseIn PROVE Streaming'
<1> USE DEF ChildGoto, audio, locals, bridgeHistory
<1>1. /\ cpc = "release" /\ cpc' = "beat" /\ alive /\ inR' = RingSucc(inR) /\ outW = RingSucc(inR)
      /\ RingDistance(inW, inR) \in 1..RingSlots
      /\ UNCHANGED <<state, inW, outW, outR, inSlot, outSlot, alive, spc, epoch, apc, reg, open, seq>>
  BY Sizes DEF ReleaseIn, Streaming, IndicesInv
<1>2. RingDistance(inW, inR') = RingDistance(inW, inR) - 1
  BY <1>1, DistanceMoves DEF BridgeTypeOK
<1>3. IndicesInv'
  BY <1>1, <1>2, Sizes DEF Streaming, IndicesInv
<1>4. RestartInv'
  BY <1>1, WorkingChild DEF Streaming, RestartInv, BridgeTypeOK
<1>5. ASSUME NEW i \in RingIndex, RingDistance(i, inR') < RingDistance(inW, inR')
      PROVE  inSlot[RingCell(i)] = Numbered(i)
  BY <1>1, <1>2, <1>5, PendingMoves DEF BridgeTypeOK, Streaming, DataInv
<1>6. DataInv'
  BY <1>1, <1>5 DEF Streaming, DataInv, Numbered
<1> QED
  BY <1>3, <1>4, <1>6 DEF Streaming

-----------------------------------------------------------------------------
(* A restart.                                                              *)

\* The reset empties both rings; the child is dead, and the audio thread is
\* between blocks unless contended says otherwise.
LEMMA ResetStep ==
    ASSUME BridgeTypeOK, Streaming, ResetControlBlock, ~contended' PROVE Streaming'
<1> USE DEF SessionGoto, audio, locals, child
<1>1. /\ spc = "idle" /\ spc' = "locals" /\ state = "crashed" /\ apc = "out" /\ ~alive
      /\ inW' = 0 /\ inR' = 0 /\ outW' = 0 /\ outR' = 0
      /\ UNCHANGED <<state, apc, alive, cpc, open, reg, seq>>
  BY DEF ResetControlBlock, ResetOutRead, Streaming, RestartInv
<1>2. RingDistance(0, 0) = 0
  BY ZeroIsIndex, DistanceMoves
<1>3. IndicesInv'
  BY <1>1, <1>2, Sizes DEF IndicesInv
<1>4. RestartInv'
  BY <1>1 DEF RestartInv
<1>5. \A i \in RingIndex : ~(RingDistance(i, 0) < RingDistance(0, 0))
  BY <1>2, ZeroIsIndex, DistanceMoves, Sizes
<1>6. DataInv'
  BY <1>1, <1>5 DEF DataInv
<1> QED
  BY <1>3, <1>4, <1>6 DEF Streaming

\* The rest of it, and the death that leads to it.
LEMMA RestartSteps ==
    ASSUME BridgeTypeOK, Streaming, Poll \/ Restart PROVE Streaming'
<1> USE DEF SessionGoto, audio, locals, child, shm, bridgeHistory
<1>1. CASE Poll
  <2>1. IndicesInv' /\ RestartInv'
    BY <1>1 DEF Poll, Streaming, IndicesInv, RestartInv
  <2>2. DataInv'
    BY <1>1 DEF Poll, Streaming, DataInv, Numbered
  <2> QED
    BY <2>1, <2>2 DEF Streaming
<1>e. ASSUME spc # "idle"
      PROVE  /\ state = "crashed" /\ apc = "out" /\ inW = 0 /\ inR = 0 /\ outW = 0 /\ outR = 0
             /\ spc # "publish" => ~alive
             /\ \A i \in RingIndex : ~(RingDistance(i, 0) < RingDistance(0, 0))
             /\ RingDistance(0, 0) = 0
  BY <1>e, ZeroIsIndex, DistanceMoves, Sizes DEF Streaming, RestartInv
<1>2. CASE ResetLocals
  <2>1. IndicesInv'
    BY <1>2, <1>e, Sizes DEF ResetLocals, Streaming, IndicesInv
  <2>2. RestartInv'
    BY <1>2, <1>e DEF ResetLocals, Streaming, RestartInv
  <2>3. DataInv'
    BY <1>2, <1>e DEF ResetLocals, Streaming, DataInv, Numbered
  <2> QED
    BY <2>1, <2>2, <2>3 DEF Streaming
<1>3. CASE Spawn
  <2>1. IndicesInv'
    BY <1>3, <1>e, Sizes DEF Spawn, Streaming, IndicesInv
  <2>2. RestartInv'
    BY <1>3, <1>e DEF Spawn, Streaming, RestartInv
  <2>3. DataInv'
    BY <1>3, <1>e DEF Spawn, DataInv
  <2> QED
    BY <2>1, <2>2, <2>3 DEF Streaming
<1>4. CASE SpawnFails \/ GoLive
  <2>1. IndicesInv'
    BY <1>4 DEF SpawnFails, GoLive, Streaming, IndicesInv
  <2>2. RestartInv'
    BY <1>4, <1>e DEF SpawnFails, GoLive, Streaming, RestartInv
  <2>3. DataInv'
    BY <1>4 DEF SpawnFails, GoLive, Streaming, DataInv, Numbered
  <2> QED
    BY <2>1, <2>2, <2>3 DEF Streaming
<1> QED
  BY <1>1, <1>2, <1>3, <1>4 DEF Restart

-----------------------------------------------------------------------------
(* The theorems.                                                           *)

\* The invariant holds from the start, and every step keeps it.
LEMMA BridgeInvHolds == BridgeSpec => []BridgeInv
<1>1. BridgeInit => BridgeInv
  <2> SUFFICES ASSUME BridgeInit PROVE BridgeInv
    OBVIOUS
  <2>1. NoBlock \in Block
    BY ZeroIsIndex DEF NoBlock, Block
  <2>2. BridgeTypeOK
    <3>1. inSlot \in [Ring -> Block] /\ outSlot \in [Ring -> Block]
      BY <2>1 DEF BridgeInit
    <3>2. {inW, inR, outW, outR, heartbeat, lastBeat, seq, reg} \subseteq RingIndex
      BY ZeroIsIndex DEF BridgeInit
    <3>3. stale \in 0..StaleBlocks /\ crashes \in 0..MaxCrashes /\ epoch \in Nat
      BY RingAssumption DEF BridgeInit
    <3>4. {state, gateSeen} \subseteq {"live", "bypassed", "crashed"} /\ {open, alive, contended} \subseteq BOOLEAN
      BY DEF BridgeInit
    <3> QED
      BY <3>1, <3>2, <3>3, <3>4 DEF BridgeInit, BridgeTypeOK
  <2>3. RingDistance(0, 0) = 0 /\ \A i \in RingIndex : ~(RingDistance(i, 0) < 0)
    BY ZeroIsIndex, DistanceMoves, Sizes
  <2>4. IndicesInv /\ RestartInv
    BY <2>3, Sizes DEF BridgeInit, IndicesInv, RestartInv
  <2>5. DataInv
    BY <2>3 DEF BridgeInit, DataInv
  <2> QED
    BY <2>2, <2>4, <2>5 DEF BridgeInv
<1>2. BridgeInv /\ [BridgeNext]_bridgeVars => BridgeInv'
  <2> SUFFICES ASSUME BridgeInv, [BridgeNext]_bridgeVars PROVE BridgeInv'
    OBVIOUS
  <2>1. CASE UNCHANGED bridgeVars
    <3>1. BridgeTypeOK' /\ contended' = contended
      BY <2>1 DEF BridgeInv, BridgeTypeOK, bridgeVars, shm, audio, locals, child, bridgeHistory
    <3>2. ~contended => IndicesInv' /\ RestartInv'
      BY <2>1 DEF BridgeInv, IndicesInv, RestartInv, bridgeVars, shm, audio, locals, child
    <3>3. ~contended => DataInv'
      BY <2>1 DEF BridgeInv, DataInv, Numbered, bridgeVars, shm, audio, child, bridgeHistory
    <3> QED
      BY <3>1, <3>2, <3>3 DEF BridgeInv
  <2>2. CASE BridgeNext
    <3>1. BridgeTypeOK'
      BY <2>2, AudioKeepsTypes, ChildKeepsTypes, SessionKeepsTypes DEF BridgeInv, BridgeNext
    <3>2. contended => contended'
      BY <2>2 DEF BridgeNext, ProcessBlock, Child, Restart, AudioGoto, ChildGoto, bridgeHistory,
                  Event, Gate, CheckBeat, PublishInput, LoadInWrite, StoreInWrite, DropInput, Bypass,
                  Silence, Peek, LoadOutRead, StoreOutRead, Park, Unpark, Take, Process, CommitOut,
                  ReleaseIn, Beat, Die, Poll, ResetControlBlock, ResetLocals, Spawn, SpawnFails, GoLive
    <3>3. ASSUME ~contended' PROVE Streaming'
      <4>1. BridgeTypeOK /\ Streaming
        BY <3>2, <3>3 DEF BridgeInv, Streaming
      <4>2. CASE Event \/ ProcessBlock
        BY <4>1, <4>2, QuietAudioSteps, PublishInputStep, CommitInputSteps, StoreOutReadStep
           DEF ProcessBlock
      <4>3. CASE Park \/ Child \/ Die
        BY <4>1, <4>3, QuietChildSteps, ProcessStep, CommitOutStep, ReleaseInStep DEF Child
      <4>4. CASE Poll \/ ResetControlBlock \/ Restart
        BY <3>3, <4>1, <4>4, ResetStep, RestartSteps
      <4> QED
        BY <2>2, <4>2, <4>3, <4>4 DEF BridgeNext
    <3> QED
      BY <3>1, <3>3 DEF BridgeInv, Streaming
  <2> QED
    BY <2>1, <2>2
<1> QED
  BY <1>1, <1>2, PTL DEF BridgeSpec

\* The audio thread and the child's render thread, which never wait for each
\* other, never use one slot of the shared memory at once.
THEOREM NoSharedSlotHolds == BridgeSpec => []NoSharedSlot
<1>1. BridgeInv => NoSharedSlot
  <2> SUFFICES ASSUME BridgeInv, alive, cpc = "process", ~contended
               PROVE  /\ open => RingCell(inW) # RingCell(inR)
                      /\ apc = "play" => RingCell(outW) # RingCell(outR)
    BY DEF NoSharedSlot
  <2>1. /\ RingDistance(inW, inR) > 0 /\ RingDistance(outW, outR) < RingSlots
        /\ RingDistance(inR, inR) = 0 /\ RingDistance(outR, outR) = 0
        /\ open => RingDistance(inW, inR) < RingSlots
        /\ apc = "play" => RingDistance(outW, outR) > 0
    BY DistanceMoves DEF BridgeInv, IndicesInv, BridgeTypeOK
  <2> QED
    BY <2>1, PendingApart DEF BridgeInv, BridgeTypeOK
<1> QED
  BY <1>1, BridgeInvHolds, PTL

\* Every block the child renders is played once and in the order of the
\* stream, and none of an earlier child after a restart.
THEOREM NothingSkippedHolds == BridgeSpec => []NothingSkipped
<1>1. BridgeInv => NothingSkipped
  <2> SUFFICES ASSUME BridgeInv, apc = "play", ~contended
               PROVE  outSlot[RingCell(outR)] = [epoch |-> epoch, seq |-> outR]
    BY DEF NothingSkipped
  <2>1. RingDistance(outR, outR) < RingDistance(outW, outR)
    BY DistanceMoves DEF BridgeInv, IndicesInv, BridgeTypeOK
  <2> QED
    BY <2>1 DEF BridgeInv, DataInv, Numbered, BridgeTypeOK
<1> QED
  BY <1>1, BridgeInvHolds, PTL

-----------------------------------------------------------------------------
(***************************************************************************)
(* The snapshot buffer with one reader, for every number of versions.      *)
(*                                                                         *)
(* Everything rests on the three slots having three owners: the writer,    *)
(* the exchanged word, and the reader, which between its exchange and its  *)
(* assignment to read_index_ already owns the slot it got.  The second     *)
(* part of the invariant orders the versions: what the reader has seen is  *)
(* no newer than its slot, and its slot no newer than a fresh word's.      *)
(***************************************************************************)

\* The slot that is the reader's.
HeldSlot(r) == IF reader[r] = "assign" THEN got[r] ELSE readIndex

SlotsOwned ==
    \A r \in Readers :
        /\ writeIndex # shared.index /\ writeIndex # HeldSlot(r) /\ shared.index # HeldSlot(r)
        /\ reader[r] = "exchange" => shared.fresh
        /\ reader[r] = "using" => ref[r] = readIndex

VersionsOrdered ==
    /\ writer = "filling" => version > 0
    /\ \A i \in BufferIndex : i # writeIndex => slots[i] \in 0..Published
    /\ \A r \in Readers :
        /\ seen[r] <= slots[HeldSlot(r)]
        /\ shared.fresh => slots[HeldSlot(r)] <= slots[shared.index]

BufferInv == BufferTypeOK /\ SlotsOwned /\ VersionsOrdered

\* A thread's step leaves the buffer typed: the writer's, whoever reads.
LEMMA WriterKeepsTypes == ASSUME BufferTypeOK, BeginFill \/ Publish PROVE BufferTypeOK'
<1> USE MaxVersionAssumption
<1>1. CASE BeginFill
  BY <1>1 DEF BeginFill, BufferTypeOK, Torn, readerVars
<1>2. CASE Publish
  BY <1>2 DEF Publish, BufferTypeOK, NextWriteIndex, readerVars
<1> QED
  BY <1>1, <1>2

\* A reader's step leaves the buffer typed, whoever else reads.
LEMMA ReaderKeepsTypes == ASSUME BufferTypeOK, NEW r \in Readers, Read(r) PROVE BufferTypeOK'
<1>1. CASE BeginRead(r)
  BY <1>1 DEF BeginRead, BufferTypeOK
<1>2. CASE Exchange(r)
  BY <1>2 DEF Exchange, BufferTypeOK
<1>3. CASE AssignIndex(r)
  BY <1>3 DEF AssignIndex, BufferTypeOK
<1>4. CASE ReturnReference(r)
  BY <1>4 DEF ReturnReference, BufferTypeOK
<1>5. CASE EndUse(r)
  BY <1>5 DEF EndUse, BufferTypeOK
<1> QED
  BY <1>1, <1>2, <1>3, <1>4, <1>5 DEF Read

\* The writer fills the one slot that nobody else owns.
LEMMA WriterKeepsOwners ==
    ASSUME BufferInv, BeginFill \/ Publish PROVE (SlotsOwned /\ VersionsOrdered)'
<1> USE MaxVersionAssumption DEF BufferInv, BufferTypeOK, SlotsOwned, VersionsOrdered, HeldSlot, Published, BufferIndex
<1>1. CASE BeginFill
  BY <1>1 DEF BeginFill, readerVars
<1>2. CASE Publish
  <2>1. SlotsOwned'
    BY <1>2 DEF Publish, NextWriteIndex, readerVars
  <2>2. \A i \in BufferIndex : i # writeIndex' => slots'[i] \in 0..Published'
    BY <1>2 DEF Publish, NextWriteIndex
  <2>3. \A r \in Readers : seen'[r] <= slots'[HeldSlot(r)'] /\ slots'[HeldSlot(r)'] <= slots'[shared'.index]
    BY <1>2 DEF Publish, readerVars
  <2> QED
    BY <1>2, <2>1, <2>2, <2>3 DEF Publish
<1> QED
  BY <1>1, <1>2

\* The only reader keeps the slot it got until its next exchange.
LEMMA ReaderKeepsOwners ==
    ASSUME BufferInv, NEW r \in Readers, Readers = {r}, Read(r)
    PROVE  (SlotsOwned /\ VersionsOrdered)' /\ seen'[r] >= seen[r]
<1> USE MaxVersionAssumption DEF BufferInv, BufferTypeOK, SlotsOwned, VersionsOrdered, HeldSlot, Published, BufferIndex, Torn
<1>1. CASE BeginRead(r)
  BY <1>1 DEF BeginRead, TakesExchange
<1>2. CASE Exchange(r)
  BY <1>2 DEF Exchange
<1>3. CASE AssignIndex(r)
  BY <1>3 DEF AssignIndex
<1>4. CASE ReturnReference(r)
  BY <1>4 DEF ReturnReference
<1>5. CASE EndUse(r)
  BY <1>5 DEF EndUse
<1> QED
  BY <1>1, <1>2, <1>3, <1>4, <1>5 DEF Read

\* The invariant holds from the start, and every step keeps it.
LEMMA BufferInvHolds == ASSUME NEW only, Readers = {only} PROVE BufferSpec => []BufferInv
<1>1. BufferInit => BufferInv
  BY MaxVersionAssumption
     DEF BufferInit, BufferInv, BufferTypeOK, SlotsOwned, VersionsOrdered, HeldSlot, Published, BufferIndex, Torn
<1>2. BufferInv /\ [BufferNext]_bufferVars => BufferInv'
  <2> SUFFICES ASSUME BufferInv, [BufferNext]_bufferVars PROVE BufferInv'
    OBVIOUS
  <2>1. CASE BeginFill \/ Publish
    BY <2>1, WriterKeepsTypes, WriterKeepsOwners DEF BufferInv
  <2>2. ASSUME NEW r \in Readers, Read(r) PROVE BufferInv'
    BY <2>2, ReaderKeepsTypes, ReaderKeepsOwners DEF BufferInv
  <2>3. CASE UNCHANGED bufferVars
    BY <2>3 DEF bufferVars, BufferInv, BufferTypeOK, SlotsOwned, VersionsOrdered, HeldSlot, Published
  <2> QED
    BY <2>1, <2>2, <2>3 DEF BufferNext
<1> QED
  BY <1>1, <1>2, PTL DEF BufferSpec

\* "Never tears": with one reader, the writer is never filling the slot that
\* a reference returned by read() points into.
THEOREM NoTearHolds == ASSUME NEW only, Readers = {only} PROVE BufferSpec => []NoTear
<1>1. BufferInv => NoTear
  BY DEF BufferInv, SlotsOwned, NoTear, HeldSlot
<1> QED
  BY <1>1, BufferInvHolds, PTL

\* The serials one reader sees only grow: what the reclaimer frees by one
\* snapshot stays free by the next.
THEOREM NeverOlderHolds == ASSUME NEW only, Readers = {only} PROVE BufferSpec => NeverOlder
<1>1. BufferInv /\ [BufferNext]_bufferVars => [\A r \in Readers : seen'[r] >= seen[r]]_bufferVars
  <2> SUFFICES ASSUME BufferInv, BufferNext PROVE \A r \in Readers : seen'[r] >= seen[r]
    OBVIOUS
  <2>1. CASE BeginFill \/ Publish
    BY <2>1 DEF BeginFill, Publish, readerVars, BufferInv, BufferTypeOK, Torn
  <2>2. ASSUME NEW r \in Readers, Read(r) PROVE seen'[r] >= seen[r]
    BY <2>2, ReaderKeepsOwners
  <2> QED
    BY <2>1, <2>2 DEF BufferNext
<1> QED
  BY <1>1, BufferInvHolds, PTL DEF BufferSpec, NeverOlder

-----------------------------------------------------------------------------
(***************************************************************************)
(* How far the engine can lag behind an edit, for every queue capacity.    *)
(*                                                                         *)
(* A handler sends nothing between the command that lets go and its last,  *)
(* so while it works that command is the newest in the queue, or it has    *)
(* been applied and the queue is empty.  Once it has been applied the      *)
(* engine cannot come back to what it let go of: only another command      *)
(* would bring it back.                                                    *)
(***************************************************************************)

\* The handler waits for c, the newest command; or the engine has let go.
Letting(c, gone) ==
    \/ ~drained /\ liveQueue # <<>> /\ liveQueue[Len(liveQueue)] = c
    \/ liveQueue = <<>> /\ gone

TransportGone == ~livePlaying /\ livePc # "tick"
ModuleGone == ~attached /\ ~modPlaying /\ livePc # "module"

LiveInv ==
    /\ LiveTypeOK
    /\ livePc = "module" => attached
    /\ ~lost /\ ui \in {"edit", "editing"} => Letting("Stop", TransportGone)
    /\ ~lost /\ ui \in {"load", "replacing"} => Letting("Detach", ModuleGone)

\* Sending puts the command at the end, or loses it.
LEMMA SendAppends ==
    ASSUME LiveTypeOK, NEW c \in Commands, LiveSend(c)
    PROVE  /\ liveQueue' \in Seq(Commands) /\ Len(liveQueue') <= LiveQueueCap /\ lost' \in BOOLEAN
           /\ ~lost' => ~lost /\ liveQueue' # <<>> /\ liveQueue'[Len(liveQueue')] = c
<1> USE LiveAssumption
<1>1. CASE Len(liveQueue) < LiveQueueCap
  <2>1. liveQueue' = Append(liveQueue, c) /\ lost' = lost
    BY <1>1 DEF LiveSend
  <2>2. /\ liveQueue' \in Seq(Commands) /\ Len(liveQueue') = Len(liveQueue) + 1
        /\ liveQueue'[Len(liveQueue')] = c /\ liveQueue' # <<>>
    BY <2>1, AppendProperties DEF LiveTypeOK
  <2> QED
    BY <1>1, <2>1, <2>2, LenProperties DEF LiveTypeOK
<1>2. CASE ~(Len(liveQueue) < LiveQueueCap)
  BY <1>2 DEF LiveSend, LiveTypeOK
<1> QED
  BY <1>1, <1>2

\* A step of the session keeps the invariant.
LEMMA SessionKeeps == ASSUME LiveInv, Ui PROVE LiveInv'
<1> USE DEF LiveInv, Letting, TransportGone, ModuleGone
<1>1. ASSUME NEW q \in {"idle", "edit", "load"}, NEW c \in Commands, Begin(q, c),
             q = "edit" => c = "Stop", q = "load" => c = "Detach"
      PROVE  LiveInv'
  BY <1>1, SendAppends DEF Begin, LiveTypeOK, liveEngine, player
<1>2. ASSUME NEW p, NEW c \in Commands, End(p, c), livePublished' \in BOOLEAN PROVE LiveInv'
  BY <1>2, SendAppends DEF End, LiveTypeOK, liveEngine, player
<1>3. ASSUME NEW p, NEW q \in {"idle", "editing", "publish", "replacing", "attach"}, Goto(p, q),
             loaded' \in BOOLEAN, q = "editing" => p = "edit", q = "replacing" => p = "load"
      PROVE  LiveInv'
  BY <1>3 DEF Goto, LiveTypeOK, channel, liveEngine, player
<1>4. CASE SendOne
  BY <1>1, <1>4 DEF SendOne, Commands
<1>5. CASE BeginEdit
  BY <1>1, <1>5 DEF BeginEdit, Commands
<1>6. CASE StartMutation \/ EndMutation \/ StartReplace \/ EndReplace
  BY <1>3, <1>6 DEF StartMutation, EndMutation, StartReplace, EndReplace, LiveTypeOK
<1>7. CASE EndEdit
  BY <1>2, <1>7 DEF EndEdit, Commands
<1>8. CASE BeginRetable
  BY <1>8 DEF BeginRetable, BeginSilently, LiveTypeOK, channel, liveEngine, player
<1>9. CASE EndRetable
  BY <1>2, <1>3, <1>9 DEF EndRetable, Commands, LiveTypeOK
<1>10. CASE BeginModuleLoad
  BY <1>1, <1>10 DEF BeginModuleLoad, Commands
<1>11. CASE EndModuleLoad
  BY <1>2, <1>11 DEF EndModuleLoad, Commands, LiveTypeOK
<1> QED
  BY <1>4, <1>5, <1>6, <1>7, <1>8, <1>9, <1>10, <1>11 DEF Ui

\* Applying a command shortens the queue from its head.
LEMMA ApplyShortens ==
    ASSUME LiveTypeOK, Apply
    PROVE  /\ Head(liveQueue) \in Commands
           /\ liveQueue' \in Seq(Commands) /\ Len(liveQueue') <= LiveQueueCap
           /\ liveQueue' # <<>> => liveQueue'[Len(liveQueue')] = liveQueue[Len(liveQueue)]
           /\ liveQueue' = <<>> => liveQueue[Len(liveQueue)] = Head(liveQueue)
<1>1. liveQueue \in Seq(Commands) /\ liveQueue # <<>> /\ liveQueue' = Tail(liveQueue)
  BY DEF Apply, LiveTypeOK
<1>2. /\ Head(liveQueue) = liveQueue[1] /\ Head(liveQueue) \in Commands
      /\ Tail(liveQueue) \in Seq(Commands) /\ Len(Tail(liveQueue)) = Len(liveQueue) - 1
      /\ \A i \in 1..Len(Tail(liveQueue)) : Tail(liveQueue)[i] = liveQueue[i + 1]
  BY <1>1, HeadTailProperties
<1>3. Len(liveQueue) \in Nat /\ Len(Tail(liveQueue)) \in Nat /\ Len(liveQueue) <= LiveQueueCap
  BY <1>1, <1>2, LenProperties DEF LiveTypeOK
<1>4. Tail(liveQueue) # <<>> => Len(Tail(liveQueue)) \in 1..Len(Tail(liveQueue))
  BY <1>2, <1>3, EmptySeq
<1>5. Tail(liveQueue) = <<>> => Len(liveQueue) = 1
  <2>1. Tail(liveQueue) = <<>> => Len(Tail(liveQueue)) = 0
    BY <1>2, EmptySeq
  <2> QED
    BY <1>2, <1>3, <2>1
<1>6. Len(liveQueue') <= LiveQueueCap
  BY <1>1, <1>2, <1>3, LiveAssumption
<1>7. liveQueue' # <<>> => liveQueue'[Len(liveQueue')] = liveQueue[Len(liveQueue)]
  BY <1>1, <1>2, <1>3, <1>4
<1>8. liveQueue' = <<>> => liveQueue[Len(liveQueue)] = Head(liveQueue)
  BY <1>1, <1>2, <1>5
<1> QED
  BY <1>1, <1>2, <1>6, <1>7, <1>8

\* A step of the engine keeps the invariant.
LEMMA EngineKeeps == ASSUME LiveInv, Engine PROVE LiveInv'
<1> USE DEF LiveInv, Letting, TransportGone, ModuleGone
<1>1. CASE Apply
  <2>1. LiveTypeOK' /\ UNCHANGED <<ui, livePc, lost, drained>> /\ livePc = "drain"
    BY <1>1, ApplyShortens DEF Apply, LiveTypeOK, EndsModule
  <2>2. liveQueue' = <<>> /\ Head(liveQueue) = "Stop" => ~livePlaying'
    BY <1>1 DEF Apply
  <2>3. liveQueue' = <<>> /\ Head(liveQueue) = "Detach" => ~attached' /\ ~modPlaying'
    BY <1>1 DEF Apply, EndsModule
  <2> QED
    BY <1>1, <2>1, <2>2, <2>3, ApplyShortens DEF Apply
<1>2. CASE EndLiveDrain
  BY <1>2 DEF EndLiveDrain, Step, LiveTypeOK, channel, player
<1>3. CASE StartLivePull \/ EndLivePull
  BY <1>3 DEF StartLivePull, EndLivePull, Step, LiveTypeOK, channel, player
<1>4. CASE BeginTick \/ EndTick
  BY <1>4 DEF BeginTick, EndTick, Step, LiveTypeOK, channel, player
<1>5. CASE BeginModule \/ EndModule
  BY <1>5 DEF BeginModule, EndModule, Step, LiveTypeOK, channel, player
<1> QED
  BY <1>1, <1>2, <1>3, <1>4, <1>5 DEF Engine

\* The invariant holds from the start, and every step keeps it.
LEMMA LiveInvHolds == LiveSpec => []LiveInv
<1>1. LiveInit => LiveInv
  <2>1. LiveInit => LiveTypeOK
    <3>1. LiveInit => liveQueue \in Seq(Commands) /\ Len(liveQueue) = 0
      BY DEF LiveInit
    <3>2. LiveInit => {installed, livePlaying, attached, modPlaying, loaded, livePublished, drained} \subseteq BOOLEAN
      BY DEF LiveInit
    <3>3. LiveInit => /\ ui = "idle" /\ lost \in BOOLEAN /\ livePc = "idle"
                      /\ modPlaying => attached
      BY DEF LiveInit
    <3>4. \A n \in {0} : n <= LiveQueueCap
      BY LiveAssumption
    <3> QED
      BY <3>1, <3>2, <3>3, <3>4 DEF LiveTypeOK
  <2> QED
    BY <2>1 DEF LiveInit, LiveInv
<1>2. LiveInv /\ [LiveNext]_liveVars => LiveInv'
  <2>1. LiveInv /\ UNCHANGED liveVars => LiveInv'
    BY DEF liveVars, channel, liveEngine, player, LiveInv, LiveTypeOK, Letting, TransportGone, ModuleGone
  <2> QED
    BY <2>1, SessionKeeps, EngineKeeps DEF LiveNext
<1> QED
  BY <1>1, <1>2, PTL DEF LiveSpec

\* Once the engine has drained its queue after an edit or a load began, it
\* reads neither the project nor the module while they change, unless a full
\* queue has lost a command: only the pull already past its drain overlaps.
THEOREM OneStalePullHolds == LiveSpec => []OneStalePull
<1>1. LiveInv => OneStalePull
  BY DEF LiveInv, Letting, TransportGone, ModuleGone, OneStalePull, StoppedWhileEditing, DetachedWhileLoading
<1> QED
  BY <1>1, LiveInvHolds, PTL

-----------------------------------------------------------------------------
(* The parts next to each other.                                           *)

\* The buffer stays typed, however many threads read it.
LEMMA BufferTypesHold == BufferSpec => []BufferTypeOK
<1>1. BufferInit => BufferTypeOK
  BY MaxVersionAssumption DEF BufferInit, BufferTypeOK, BufferIndex, Torn
<1>2. BufferTypeOK /\ [BufferNext]_bufferVars => BufferTypeOK'
  <2>1. BufferTypeOK /\ UNCHANGED bufferVars => BufferTypeOK'
    BY DEF bufferVars, BufferTypeOK
  <2> QED
    BY <2>1, WriterKeepsTypes, ReaderKeepsTypes DEF BufferNext
<1> QED
  BY <1>1, <1>2, PTL DEF BufferSpec

\* What is checked side by side is each part alone: a behaviour of the four
\* parts is a behaviour of the ring, of the buffer, of the state edited in
\* place and of the bridge, and so has every property proved of one of them.
THEOREM PartsAreSpecs == MCSpec => QueueSpec /\ BufferSpec /\ LiveSpec /\ BridgeSpec
<1>1. MCInit => QueueInit /\ BufferInit /\ LiveInit /\ BridgeInit
  BY DEF MCInit
<1>2. [MCNext]_allVars => /\ [QueueNext]_queueVars /\ [BufferNext]_bufferVars
                         /\ [LiveNext]_liveVars /\ [BridgeNext]_bridgeVars
  BY DEF MCNext, allVars
<1> QED
  BY <1>1, <1>2, PTL DEF MCSpec, QueueSpec, BufferSpec, LiveSpec, BridgeSpec

\* The counters stay within their width, the queues within their capacity and
\* the indices within the buffers they name, in each of the four parts.
THEOREM ThreadsTypeOKHolds == MCSpec => []ThreadsTypeOK
<1>1. /\ RingInv /\ BufferTypeOK /\ LiveInv /\ BridgeInv => ThreadsTypeOK
  BY DEF RingInv, LiveInv, BridgeInv, ThreadsTypeOK
<1> QED
  BY <1>1, PartsAreSpecs, RingInvHolds, BufferTypesHold, LiveInvHolds, BridgeInvHolds, PTL

-----------------------------------------------------------------------------
(* The fence.                                                              *)

USE DEF NonNull

-----------------------------------------------------------------------------
(* Type correctness.                                                       *)

\* The empty bundle an engine starts with is a bundle.
LEMMA NoBundleType == NoBundle \in Bundle
BY DEF NoBundle, Bundle

\* Every command a handler builds is a Command.
LEMMA CmdInCommand == ASSUME NEW t \in CmdType \ {"PreviewNote", "PlaySample"} PROVE Cmd(t) \in Command
BY NoBundleType DEF Cmd, Command

\* The two commands that carry a bundle, and their serials, are commands.
LEMMA BundleCommandType ==
    ASSUME NEW t \in {"SetBundle", "SwapBundle", "StopSample"}, NEW n \in Nat, NEW b \in Bundle
    PROVE  /\ [Cmd(t) EXCEPT !.serial = n] \in Command
           /\ [Cmd(t) EXCEPT !.serial = n, !.bundle = b] \in Command
BY NoBundleType DEF Cmd, Command, CmdType

\* The commands that carry a sample are commands when the sample is there.
LEMMA SampleCommandType ==
    ASSUME NEW n \in Nat, NEW x \in Buffers
    PROVE  /\ [Cmd("PreviewNote") EXCEPT !.sample = x] \in Command
           /\ [Cmd("PlaySample") EXCEPT !.serial = n, !.sample = x] \in Command
BY NoBundleType, ObjectsAssumption DEF Cmd, Command, CmdType

\* What stop() leaves to send is a sequence of commands.
LEMMA StopType == Stop \in Seq(Command)
BY CmdInCommand DEF Stop, CmdType

\* What a bundle owns is an object.
LEMMA BundleObjects ==
    ASSUME NEW b \in Bundle
    PROVE  GraphOf(b) \subseteq Obj /\ RackOf(b) \subseteq Obj /\ SamplesOf(b) \subseteq Obj
BY DEF Bundle, GraphOf, RackOf, SamplesOf, Obj

\* Retiring objects yields pairs of an object and a serial.
LEMMA RetireType ==
    ASSUME NEW S \in SUBSET Obj, NEW n \in Nat
    PROVE  Retire(S, n) \subseteq Obj \X Nat
BY DEF Retire

\* publish_bundle keeps the published state, the tables and the channel typed.
LEMMA PublishBundleType ==
    ASSUME TypeOK, NEW before \in Seq(Command),
           NEW samples \in [Slots -> Buffers \cup {None}],
           NEW ns \in SUBSET Instances, NEW bs \in SUBSET Bridges,
           NEW parked \in SUBSET Obj,
           PublishBundle(before, samples, ns, bs, parked)
    PROVE  /\ slot' \in [Slots -> Buffers \cup {None}] /\ nodes' = ns /\ bridged' = bs
           /\ live' \in Bundle /\ serial' \in Nat /\ outbox' \in Seq(Command)
           /\ entries' \subseteq Obj \X Nat /\ staged' \subseteq Obj
<1> DEFINE n == serial + 1
           b == [id |-> n, rack |-> n, samples |-> samples, binds |-> ns \cup bs]
<1>1. n \in Nat /\ b \in Bundle
  BY DEF TypeOK, PublishTypeOK, Bundle
<1>2. [Cmd("SetBundle") EXCEPT !.serial = n, !.bundle = b] \in Command
  BY <1>1, BundleCommandType
<1>3. outbox' = Append(before, [Cmd("SetBundle") EXCEPT !.serial = n, !.bundle = b])
  BY DEF PublishBundle
<1>4. outbox' \in Seq(Command)
  BY <1>2, <1>3
<1>5. Retire(GraphOf(live) \cup RackOf(live) \cup parked, n) \subseteq Obj \X Nat
  BY <1>1, BundleObjects, RetireType DEF TypeOK, PublishTypeOK
<1> QED
  BY <1>1, <1>4, <1>5 DEF PublishBundle, TypeOK, PublishTypeOK

\* So does publish_graph, as a live swap or as a full publish.
LEMMA PublishGraphType ==
    ASSUME TypeOK, NEW ns \in SUBSET Instances, NEW bs \in SUBSET Bridges,
           NEW parked \in SUBSET Obj,
           PublishGraphOrBundle(ns, bs, parked)
    PROVE  /\ slot' \in [Slots -> Buffers \cup {None}] /\ nodes' = ns /\ bridged' = bs
           /\ live' \in Bundle /\ serial' \in Nat /\ outbox' \in Seq(Command)
           /\ entries' \subseteq Obj \X Nat /\ staged' \subseteq Obj
<1>1. CASE PublishGraph(ns, bs, parked)
  <2> DEFINE n == serial + 1
             b == [id |-> n, rack |-> live.rack, samples |-> SwapSamples, binds |-> ns \cup bs]
             c == [Cmd("SwapBundle") EXCEPT !.serial = n, !.bundle = b]
  <2>1. n \in Nat /\ b \in Bundle
    BY DEF TypeOK, PublishTypeOK, Bundle, SwapSamples
  <2>2. c \in Command
    BY <2>1, BundleCommandType
  <2>3. outbox' = <<c>> /\ live' = b /\ serial' = n
    BY <1>1 DEF PublishGraph
  <2>4. Retire(GraphOf(live) \cup parked, n) \subseteq Obj \X Nat
    BY <2>1, BundleObjects, RetireType DEF TypeOK, PublishTypeOK
  <2>5. outbox' \in Seq(Command) /\ live' \in Bundle /\ serial' \in Nat
    BY <2>1, <2>2, <2>3
  <2>6. entries' = entries \cup Retire(GraphOf(live) \cup parked, n) /\ staged' = staged
    BY <1>1 DEF PublishGraph
  <2>7. slot' = slot /\ nodes' = ns /\ bridged' = bs
    BY <1>1 DEF PublishGraph
  <2> QED
    BY <2>4, <2>5, <2>6, <2>7 DEF TypeOK, TablesTypeOK, PublishTypeOK
<1>2. CASE PublishBundle(<<>>, slot, ns, bs, staged \cup parked)
  <2>1. staged \cup parked \subseteq Obj /\ slot \in [Slots -> Buffers \cup {None}]
    BY DEF TypeOK, TablesTypeOK, PublishTypeOK
  <2>2. <<>> \in Seq(Command)
    OBVIOUS
  <2> QED
    BY <1>2, <2>1, <2>2, PublishBundleType
<1> QED
  BY <1>1, <1>2 DEF PublishGraphOrBundle

\* UndoStack::commit keeps both stacks typed, whichever entries it evicts.
LEMMA CommitType ==
    ASSUME HistoryTypeOK, NEW e \in HistoryEntry, Commit(e)
    PROVE  HistoryTypeOK'
<1> DEFINE all  == Append(past, e)
           kept == IF Len(all) > MaxEntries THEN Tail(all) ELSE all
           ops  == {i \in DOMAIN kept : kept[i] # GraphOp}
<1>1. all \in Seq(HistoryEntry) /\ all # <<>>
  BY AppendProperties DEF HistoryTypeOK
<1>2. kept \in Seq(HistoryEntry)
  BY <1>1, HeadTailProperties
<1> HIDE DEF all, kept
<1>3. ASSUME NEW i \in ops PROVE SubSeq(kept, i + 1, Len(kept)) \in Seq(HistoryEntry)
  BY <1>2, SubSeqProperties
<1>4. future' = <<>> /\ (past' = kept \/ \E i \in ops : past' = SubSeq(kept, i + 1, Len(kept)))
  BY DEF Commit, all, kept
<1>5. <<>> \in Seq(HistoryEntry)
  OBVIOUS
<1> HIDE DEF ops
<1> QED
  BY <1>2, <1>3, <1>4, <1>5 DEF HistoryTypeOK

\* Clearing the history keeps it typed.
LEMMA ForgetType == ForgetHistory => HistoryTypeOK'
BY DEF ForgetHistory, HistoryTypeOK

\* The objects a handler stages are objects.
LEMMA StageType ==
    ASSUME TypeOK, NEW S \in SUBSET (Obj \cup {None})
    PROVE  Stage(S) \subseteq Obj
BY DEF Stage, TypeOK, PublishTypeOK

\* What a table holds, and a handler may retire, is an object.
LEMMA TablesAreObjects ==
    ASSUME TypeOK
    PROVE  /\ \A s \in Slots : slot[s] \in Obj \cup {None}
           /\ \A n \in Instances : override[n] \in Obj \cup {None}
           /\ preview \in Obj \cup {None}
           /\ bridged \subseteq Obj
           /\ {slot[s] : s \in Slots} \cup bridged \subseteq Obj \cup {None}
           /\ Bridges \subseteq Obj /\ Buffers \subseteq Obj
BY DEF TypeOK, TablesTypeOK, Obj

\* The three parts of the type invariant a handler may change, and the two
\* it leaves alone.
LEMMA HandlerType ==
    ASSUME TypeOK, TablesTypeOK', PublishTypeOK', HistoryTypeOK',
           outbox' \in Seq(Command), UNCHANGED <<queue, dropped, engine>>
    PROVE  TypeOK'
BY DEF TypeOK, ChannelTypeOK, EngineTypeOK, engine, voices

\* A handler that publishes a bundle leaves everything typed, given that its
\* arguments are.
LEMMA BundleHandlerType ==
    ASSUME TypeOK, NEW before \in {<<>>, Stop},
           NEW samples \in [Slots -> Buffers \cup {None}],
           NEW ns \in SUBSET Instances, NEW bs \in SUBSET Bridges,
           NEW parked \in SUBSET Obj,
           PublishBundle(before, samples, ns, bs, parked),
           override' \in [Instances -> Buffers \cup {None}],
           registry' \subseteq Instances, ns \subseteq registry',
           loading' \in {"no", "wake", "external"},
           HistoryTypeOK', UNCHANGED <<preview, disarmed, queue, dropped, engine>>
    PROVE  TypeOK'
<1>e. <<>> \in Seq(Command)
  OBVIOUS
<1>1. before \in Seq(Command)
  BY <1>e, StopType
<1>2. /\ slot' \in [Slots -> Buffers \cup {None}] /\ nodes' = ns /\ bridged' = bs
      /\ live' \in Bundle /\ serial' \in Nat /\ outbox' \in Seq(Command)
      /\ entries' \subseteq Obj \X Nat /\ staged' \subseteq Obj
  BY <1>1, PublishBundleType
<1>3. TablesTypeOK' /\ PublishTypeOK'
  BY <1>2 DEF TypeOK, TablesTypeOK, PublishTypeOK
<1> QED
  BY <1>2, <1>3, HandlerType

\* The same for a handler that publishes the graph.
LEMMA GraphHandlerType ==
    ASSUME TypeOK,
           NEW ns \in SUBSET Instances, NEW bs \in SUBSET Bridges,
           NEW parked \in SUBSET Obj,
           PublishGraphOrBundle(ns, bs, parked),
           registry' \subseteq Instances, ns \subseteq registry',
           loading' \in {"no", "wake", "external"},
           HistoryTypeOK', UNCHANGED <<override, preview, disarmed, queue, dropped, engine>>
    PROVE  TypeOK'
<1>1. /\ slot' \in [Slots -> Buffers \cup {None}] /\ nodes' = ns /\ bridged' = bs
      /\ live' \in Bundle /\ serial' \in Nat /\ outbox' \in Seq(Command)
      /\ entries' \subseteq Obj \X Nat /\ staged' \subseteq Obj
  BY PublishGraphType
<1>2. TablesTypeOK' /\ PublishTypeOK'
  BY <1>1 DEF TypeOK, TablesTypeOK, PublishTypeOK
<1> QED
  BY <1>1, <1>2, HandlerType

\* Every handler of the session keeps the type invariant.
LEMMA HandlerKeepsTypes ==
    ASSUME TypeOK, Handler
    PROVE  TypeOK'
<1> USE DEF TypeOK
<1>0. /\ slot \in [Slots -> Buffers \cup {None}] /\ override \in [Instances -> Buffers \cup {None}]
      /\ nodes \in SUBSET Instances /\ bridged \in SUBSET Bridges /\ nodes \subseteq registry
      /\ registry \subseteq Instances /\ loading \in {"no", "wake", "external"}
      /\ staged \in SUBSET Obj
  BY DEF TablesTypeOK, PublishTypeOK
<1>s. ASSUME NEW S \in SUBSET ({slot[s] : s \in Slots} \cup {override[n] : n \in Instances}
                                 \cup bridged)
      PROVE  Stage(S) \in SUBSET Obj
  BY StageType, TablesAreObjects
<1>1. CASE StructuralEdit
  BY <1>0, <1>1, BundleHandlerType, ForgetType DEF StructuralEdit
<1>2. CASE ReplaceProject
  <2>1. PICK table \in [Slots -> FreshBuffers \cup {None}] :
          PublishBundle(Stop, table, {}, {}, Stage({slot[s] : s \in Slots} \cup bridged))
    BY <1>2 DEF ReplaceProject
  <2>2. table \in [Slots -> Buffers \cup {None}]
    BY DEF FreshBuffers
  <2>3. Stage({slot[s] : s \in Slots} \cup bridged) \in SUBSET Obj
    BY <1>s
  <2> QED
    BY <1>0, <1>2, <2>1, <2>2, <2>3, BundleHandlerType, ForgetType DEF ReplaceProject
<1>3. CASE BeginLoad
  <2>1. PICK table \in [Slots -> FreshBuffers \cup {None}] : slot' = table
    BY <1>3 DEF BeginLoad
  <2>2. slot' \in [Slots -> Buffers \cup {None}]
    BY <2>1 DEF FreshBuffers
  <2>3. staged' \subseteq Obj
    BY <1>3, <1>s DEF BeginLoad
  <2>4. TablesTypeOK' /\ PublishTypeOK'
    BY <1>3, <2>2, <2>3 DEF BeginLoad, TablesTypeOK, PublishTypeOK, published
  <2> QED
    BY <1>3, <2>4, HandlerType, ForgetType, StopType DEF BeginLoad
<1>4. CASE FinishLoad
  BY <1>0, <1>4, BundleHandlerType DEF FinishLoad, history, HistoryTypeOK
<1>5. ASSUME NEW n \in Instances, LoadInstance(n) PROVE TypeOK'
  <2>1. override' \in [Instances -> Buffers \cup {None}]
    BY <1>0, <1>5 DEF LoadInstance, FreshBuffers
  <2>2. TablesTypeOK' /\ PublishTypeOK' /\ HistoryTypeOK'
    BY <1>5, <2>1 DEF LoadInstance, TablesTypeOK, PublishTypeOK, HistoryTypeOK,
                      published, history, reclaimer
  <2> QED
    BY <1>5, <2>2, HandlerType DEF LoadInstance, ChannelTypeOK
<1>6. ASSUME NEW n \in Instances, AddInstance(n) PROVE TypeOK'
  BY <1>0, <1>6, GraphHandlerType, ForgetType DEF AddInstance
<1>7. ASSUME NEW n \in Instances, SetOverride(n) PROVE TypeOK'
  <2>1. override' \in [Instances -> Buffers \cup {None}]
    BY <1>0, <1>7 DEF SetOverride, FreshBuffers
  <2>2. Stage({override[n]}) \in SUBSET Obj
    BY <1>s
  <2> QED
    BY <1>0, <1>7, <2>1, <2>2, BundleHandlerType, ForgetType DEF SetOverride
<1>8. ASSUME NEW n \in Instances, ClearOverride(n) PROVE TypeOK'
  <2>1. override' \in [Instances -> Buffers \cup {None}]
    BY <1>0, <1>8 DEF ClearOverride
  <2>2. Stage({override[n]}) \in SUBSET Obj
    BY <1>s
  <2> QED
    BY <1>0, <1>8, <2>1, <2>2, BundleHandlerType, ForgetType DEF ClearOverride
<1>9. ASSUME NEW x \in Bridges, LoadBridge(x) PROVE TypeOK'
  BY <1>0, <1>9, GraphHandlerType, ForgetType DEF LoadBridge
<1>e. CASE LoadInProcess
  BY <1>0, <1>e, GraphHandlerType, ForgetType DEF LoadInProcess
<1>10. ASSUME NEW x \in Bridges, AddBridge(x) PROVE TypeOK'
  BY <1>0, <1>10, GraphHandlerType, ForgetType DEF AddBridge
<1>11. ASSUME NEW x \in Bridges, BridgeOn(x) PROVE TypeOK'
  BY <1>0, <1>11, BundleHandlerType DEF BridgeOn, history, HistoryTypeOK
<1>12. ASSUME NEW x \in Bridges, BridgeOff(x) PROVE TypeOK'
  BY <1>0, <1>12, BundleHandlerType, TablesAreObjects DEF BridgeOff, history, HistoryTypeOK
<1>13. ASSUME NEW s \in Slots, LoadSample(s) PROVE TypeOK'
  <2>1. PICK b \in FreshBuffers :
          PublishBundle(Stop, [slot EXCEPT ![s] = b], nodes, bridged, Stage({slot[s]}))
    BY <1>13 DEF LoadSample
  <2>2. [slot EXCEPT ![s] = b] \in [Slots -> Buffers \cup {None}]
    BY <1>0 DEF FreshBuffers
  <2>3. Stage({slot[s]}) \in SUBSET Obj
    BY <1>s
  <2> QED
    BY <1>0, <1>13, <2>1, <2>2, <2>3, BundleHandlerType, ForgetType DEF LoadSample
<1>14. ASSUME NEW s \in Slots, ClearSlot(s) PROVE TypeOK'
  <2>1. [slot EXCEPT ![s] = None] \in [Slots -> Buffers \cup {None}]
    BY <1>0
  <2>2. Stage({slot[s]}) \in SUBSET Obj
    BY <1>s
  <2> QED
    BY <1>0, <1>14, <2>1, <2>2, BundleHandlerType, ForgetType DEF ClearSlot
<1>r. ASSUME NEW s \in Slots, NEW b \in Buffers, ReplaceSampleBuffer(s, b), HistoryTypeOK',
             UNCHANGED <<override, registry, preview, loading, disarmed, queue, dropped, engine>>
      PROVE  TypeOK'
  <2>1. [slot EXCEPT ![s] = b] \in [Slots -> Buffers \cup {None}]
    BY <1>0
  <2>2. Stage({slot[s]}) \in SUBSET Obj
    BY <1>s
  <2> QED
    BY <1>0, <1>r, <2>1, <2>2, BundleHandlerType DEF ReplaceSampleBuffer
<1>15. ASSUME NEW s \in Slots, EditSample(s) PROVE TypeOK'
  <2>1. PICK b \in FreshBuffers :
          ReplaceSampleBuffer(s, b) /\ Commit([slot |-> s, before |-> slot[s], after |-> b])
    BY <1>15 DEF EditSample
  <2>2. b \in Buffers /\ slot[s] \in Buffers
    BY <1>0, <1>15 DEF FreshBuffers, EditSample
  <2>3. [slot |-> s, before |-> slot[s], after |-> b] \in HistoryEntry
    BY <2>2 DEF HistoryEntry
  <2> QED
    BY <1>15, <1>r, <2>1, <2>2, <2>3, CommitType DEF EditSample
<1>16. CASE EditGraph
  BY <1>0, <1>16, GraphHandlerType, CommitType DEF EditGraph, HistoryEntry
<1>p. ASSUME NEW e \in HistoryEntry, NEW b, e # GraphOp => b \in Buffers, Replay(e, b), HistoryTypeOK',
             UNCHANGED <<override, registry, preview, loading, disarmed, queue, dropped, engine>>
      PROVE  TypeOK'
  <2>1. CASE e # GraphOp /\ ReplaceSampleBuffer(e.slot, b)
    BY <1>p, <1>r, <2>1 DEF HistoryEntry
  <2>2. CASE e = GraphOp /\ PublishGraphOrBundle(nodes, bridged, {})
    BY <1>0, <1>p, <2>2, GraphHandlerType
  <2> QED
    BY <1>p, <2>1, <2>2 DEF Replay
<1>17. CASE Undo
  <2> DEFINE e == past[Len(past)]
  <2>1. e \in HistoryEntry /\ Replay(e, e.before)
    BY <1>17 DEF Undo, HistoryTypeOK
  <2>2. past' \in Seq(HistoryEntry) /\ future' \in Seq(HistoryEntry)
    BY <1>17, <2>1, SubSeqProperties, AppendProperties DEF Undo, HistoryTypeOK
  <2>3. e # GraphOp => e.before \in Buffers
    BY <2>1 DEF HistoryEntry
  <2> HIDE DEF e
  <2> QED
    BY <1>17, <1>p, <2>1, <2>2, <2>3 DEF Undo, HistoryTypeOK
<1>18. CASE Redo
  <2> DEFINE e == future[Len(future)]
  <2>1. e \in HistoryEntry /\ Replay(e, e.after)
    BY <1>18 DEF Redo, HistoryTypeOK
  <2>2. past' \in Seq(HistoryEntry) /\ future' \in Seq(HistoryEntry)
    BY <1>18, <2>1, SubSeqProperties, AppendProperties DEF Redo, HistoryTypeOK
  <2>3. e # GraphOp => e.after \in Buffers
    BY <2>1 DEF HistoryEntry
  <2> HIDE DEF e
  <2> QED
    BY <1>18, <1>p, <2>1, <2>2, <2>3 DEF Redo, HistoryTypeOK
<1>19. CASE RemoveNode
  <2>1. ASSUME NEW x \in bridged, PublishGraphOrBundle(nodes, bridged \ {x}, {x}) PROVE TypeOK'
    BY <1>0, <1>19, <2>1, GraphHandlerType, ForgetType, TablesAreObjects DEF RemoveNode
  <2>2. ASSUME NEW n \in nodes, PublishGraphOrBundle(nodes \ {n}, bridged, {}) PROVE TypeOK'
    BY <1>0, <1>19, <2>2, GraphHandlerType, ForgetType DEF RemoveNode
  <2>3. CASE PublishGraphOrBundle(nodes, bridged, {})
    BY <1>0, <1>19, <2>3, GraphHandlerType, ForgetType DEF RemoveNode
  <2> QED
    BY <1>19, <2>1, <2>2, <2>3 DEF RemoveNode
<1>20. CASE PreviewFile
  <2>1. PICK b \in FreshBuffers :
          preview' = b /\ outbox' = <<[Cmd("PlaySample") EXCEPT !.serial = serial + 1, !.sample = b]>>
    BY <1>20 DEF PreviewFile
  <2>2. b \in Buffers /\ serial + 1 \in Nat
    BY DEF FreshBuffers, PublishTypeOK
  <2>3. outbox' \in Seq(Command)
    <3>1. [Cmd("PlaySample") EXCEPT !.serial = serial + 1, !.sample = b] \in Command
      BY <2>2, SampleCommandType
    <3> QED
      BY <2>1, <3>1
  <2>4. Retire(NonNull({preview}), serial + 1) \subseteq Obj \X Nat
    BY <2>2, RetireType, TablesAreObjects
  <2>5. entries' = entries \cup Retire(NonNull({preview}), serial + 1) /\ serial' = serial + 1
    BY <1>20 DEF PreviewFile
  <2>6. TablesTypeOK' /\ PublishTypeOK' /\ HistoryTypeOK'
    BY <1>20, <2>1, <2>2, <2>4, <2>5 DEF PreviewFile, TablesTypeOK, PublishTypeOK, HistoryTypeOK, history
  <2> QED
    BY <1>20, <2>3, <2>6, HandlerType DEF PreviewFile
<1>21. CASE StopPreview
  <2>1. outbox' = <<[Cmd("StopSample") EXCEPT !.serial = serial + 1]>> /\ serial + 1 \in Nat
    BY <1>21 DEF StopPreview, PublishTypeOK
  <2>2. outbox' \in Seq(Command)
    <3>1. [Cmd("StopSample") EXCEPT !.serial = serial + 1] \in Command
      BY <2>1, BundleCommandType, NoBundleType
    <3> QED
      BY <2>1, <3>1
  <2>3. Retire({preview}, serial + 1) \subseteq Obj \X Nat
    BY <1>21, <2>1, RetireType, TablesAreObjects DEF StopPreview
  <2>4. TablesTypeOK' /\ PublishTypeOK' /\ HistoryTypeOK'
    BY <1>21, <2>1, <2>3 DEF StopPreview, TablesTypeOK, PublishTypeOK, HistoryTypeOK, history
  <2> QED
    BY <1>21, <2>2, <2>4, HandlerType DEF StopPreview
<1>u. ASSUME NEW c \in Command, SendUnfenced(c) PROVE TypeOK'
  <2>1. TablesTypeOK' /\ PublishTypeOK' /\ HistoryTypeOK' /\ outbox' \in Seq(Command)
    BY <1>u DEF SendUnfenced, TablesTypeOK, PublishTypeOK, HistoryTypeOK,
                session, tables, published, history, reclaimer
  <2> QED
    BY <1>u, <2>1, HandlerType DEF SendUnfenced
<1>22. ASSUME NEW s \in Slots, PreviewNote(s) PROVE TypeOK'
  <2>1. [Cmd("PreviewNote") EXCEPT !.sample = slot[s]] \in Command
    <3>1. slot[s] \in Buffers
      BY <1>0, <1>22 DEF PreviewNote
    <3> QED
      BY <3>1, SampleCommandType
  <2> QED
    BY <1>22, <1>u, <2>1 DEF PreviewNote
<1>23. CASE PreviewPluginNote
  BY <1>23, <1>u, CmdInCommand DEF PreviewPluginNote, CmdType
<1>24. CASE Play
  BY <1>24, <1>u, CmdInCommand DEF Play, CmdType
<1>25. CASE StopTransport
  BY <1>25, <1>u, CmdInCommand DEF StopTransport, CmdType
<1> QED
  BY <1>1, <1>2, <1>3, <1>4, <1>5, <1>6, <1>7, <1>8, <1>9, <1>e, <1>10, <1>11, <1>12, <1>13,
     <1>14, <1>15, <1>16, <1>17, <1>18, <1>19, <1>20, <1>21, <1>22, <1>23, <1>24, <1>25
     DEF Handler

\* Sending and sweeping keep the type invariant.
LEMMA ChannelKeepsTypes ==
    ASSUME TypeOK, Send \/ (\E noted \in 0..snap : Sweep(noted))
    PROVE  TypeOK'
<1> USE DEF TypeOK
<1>1. CASE Send
  <2>1. Head(outbox) \in Command /\ Tail(outbox) \in Seq(Command)
    BY <1>1, HeadTailProperties DEF Send, ChannelTypeOK
  <2>2. Append(queue, Head(outbox)) \in Seq(Command)
    BY <2>1, AppendProperties DEF ChannelTypeOK
  <2>c. ChannelTypeOK'
    BY <1>1, <2>1, <2>2 DEF Send, ChannelTypeOK
  <2>3. TablesTypeOK' /\ PublishTypeOK' /\ HistoryTypeOK' /\ EngineTypeOK'
    BY <1>1 DEF Send, session, tables, published, history, reclaimer, engine, voices,
                TablesTypeOK, PublishTypeOK, HistoryTypeOK, EngineTypeOK
  <2> QED
    BY <2>c, <2>3
<1>2. ASSUME NEW noted \in 0..snap, Sweep(noted) PROVE TypeOK'
  <2>1. entries' \subseteq Obj \X Nat /\ disarmed' \in BOOLEAN
    BY <1>2 DEF Sweep, PublishTypeOK, ChannelTypeOK
  <2> QED
    BY <1>2, <2>1 DEF Sweep, tables, published, history, engine, voices,
                TablesTypeOK, PublishTypeOK, HistoryTypeOK, ChannelTypeOK, EngineTypeOK
<1> QED
  BY <1>1, <1>2

\* The variables only the session changes.
LEMMA EngineHandlerType ==
    ASSUME TypeOK, UNCHANGED <<session, outbox, dropped>>, queue' \in Seq(Command), EngineTypeOK'
    PROVE  TypeOK'
BY DEF TypeOK, session, tables, published, history, reclaimer,
       TablesTypeOK, PublishTypeOK, HistoryTypeOK, ChannelTypeOK

\* Every step of a pull keeps the type invariant.
LEMMA EngineKeepsTypes ==
    ASSUME TypeOK, StartPull \/ Drain \/ EndDrain \/ Render \/ EndPull
    PROVE  TypeOK'
<1> USE DEF TypeOK
<1>0. bundle \in Bundle /\ override \in [Instances -> Buffers \cup {None}]
  BY DEF EngineTypeOK, TablesTypeOK
<1>1. CASE StartPull \/ EndDrain \/ EndPull
  <2>1. EngineTypeOK'
    BY <1>1 DEF StartPull, EndDrain, EndPull, SnapshotSerial, EngineTypeOK, voices
  <2> QED
    BY <1>1, <2>1, EngineHandlerType DEF StartPull, EndDrain, EndPull, ChannelTypeOK
<1>2. ASSUME NEW t \in CmdType, Pop(t)
      PROVE  /\ queue' \in Seq(Command) /\ Head(queue) \in Command
             /\ UNCHANGED <<session, outbox, dropped, pc, snap>>
  BY <1>2, HeadTailProperties DEF Pop, ChannelTypeOK
<1>3. ASSUME NEW n \in Instances, StartPluginVoice(n)
      PROVE  pluginVoices' \in [Instances -> SUBSET Buffers]
  BY <1>0, <1>3 DEF StartPluginVoice, EngineTypeOK
<1>4. CASE Drain
  <2>1. PICK t \in CmdType : Pop(t)
    BY <1>4 DEF Drain, CmdType, ApplySetBundle, ApplySwapBundle, ApplyPlaySample, ApplyStopSample,
       ApplyPreviewNote, ApplyPluginNote, ApplyTransportPlay, ApplyTransportStop
  <2>2. /\ queue' \in Seq(Command) /\ Head(queue) \in Command
        /\ UNCHANGED <<session, outbox, dropped, pc, snap>>
    BY <1>2, <2>1
  <2>3. /\ Head(queue).serial \in Nat /\ Head(queue).bundle \in Bundle
        /\ Head(queue).sample \in Buffers \cup {None}
        /\ Head(queue).type = "PreviewNote" => Head(queue).sample \in Buffers
    BY <2>2 DEF Command
  <2>4. ApplySerial => applied' \in Nat
    BY <2>3 DEF ApplySerial, MaxOf, EngineTypeOK
  <2>5. EngineTypeOK'
    <3>1. CASE ApplySetBundle
      BY <2>2, <2>3, <2>4, <3>1 DEF ApplySetBundle, PluginVoicesAfterReset, SeqVoicesAfterReset, EngineTypeOK
    <3>2. CASE ApplySwapBundle
      BY <2>2, <2>3, <2>4, <3>2 DEF ApplySwapBundle, EngineTypeOK, voices
    <3>3. CASE ApplyPlaySample \/ ApplyStopSample
      BY <2>2, <2>3, <2>4, <3>3 DEF ApplyPlaySample, ApplyStopSample, EngineTypeOK
    <3>4. CASE ApplyPreviewNote
      BY <2>2, <2>3, <3>4 DEF ApplyPreviewNote, Pop, EngineTypeOK
    <3>5. CASE ApplyPluginNote
      BY <1>3, <2>2, <3>5 DEF ApplyPluginNote, EngineTypeOK
    <3>6. CASE ApplyTransportPlay \/ ApplyTransportStop
      BY <2>2, <3>6 DEF ApplyTransportPlay, ApplyTransportStop, EngineTypeOK, voices
    <3> QED
      BY <1>4, <3>1, <3>2, <3>3, <3>4, <3>5, <3>6 DEF Drain
  <2> QED
    BY <2>2, <2>5, EngineHandlerType
<1>5. CASE Render
  <2>1. UNCHANGED <<session, outbox, queue, dropped, pc, bundle, applied, snap>>
    BY <1>5 DEF Render, Rendering, TriggerChannel, TriggerSeq, TriggerPlugin, VoiceEnds, ParkTransport
  <2>2. EngineTypeOK'
    <3>1. ASSUME NEW s \in Slots, TriggerChannel(s) \/ TriggerSeq(s) PROVE EngineTypeOK'
      BY <1>0, <2>1, <3>1 DEF TriggerChannel, TriggerSeq, EngineTypeOK, Bundle
    <3>2. ASSUME NEW n \in Instances, TriggerPlugin(n) PROVE EngineTypeOK'
      BY <1>3, <2>1, <3>2 DEF TriggerPlugin, EngineTypeOK
    <3>3. CASE VoiceEnds
      BY <2>1, <3>3 DEF VoiceEnds, EngineTypeOK
    <3>4. CASE ParkTransport
      BY <2>1, <3>4 DEF ParkTransport, EngineTypeOK, voices
    <3> QED
      BY <1>5, <3>1, <3>2, <3>3, <3>4 DEF Render
  <2> QED
    BY <2>1, <2>2, EngineHandlerType DEF ChannelTypeOK
<1> QED
  BY <1>1, <1>4, <1>5

\* Every state of every behaviour is well typed: no handler, pull or sweep
\* leaves a table, a command or a voice with something that is not one.
THEOREM TypeCorrect == Spec => []TypeOK
<1>1. Init => TypeOK
  <2> SUFFICES ASSUME Init PROVE TypeOK
    OBVIOUS
  <2>0. <<>> \in Seq(HistoryEntry) /\ <<>> \in Seq(Command)
    OBVIOUS
  <2>1. TablesTypeOK /\ PublishTypeOK /\ HistoryTypeOK /\ ChannelTypeOK
    BY <2>0, NoBundleType DEF Init, TablesTypeOK, PublishTypeOK, HistoryTypeOK, ChannelTypeOK
  <2>2. EngineTypeOK
    BY NoBundleType DEF Init, EngineTypeOK
  <2> QED
    BY <2>1, <2>2 DEF TypeOK
<1>2. TypeOK /\ [Next]_vars => TypeOK'
  <2> SUFFICES ASSUME TypeOK, [Next]_vars PROVE TypeOK'
    OBVIOUS
  <2>1. CASE Next
    BY <2>1, HandlerKeepsTypes, ChannelKeepsTypes, EngineKeepsTypes DEF Next
  <2>2. CASE UNCHANGED vars
    BY <2>2 DEF vars, session, tables, published, history, reclaimer, engine, voices, TypeOK,
                TablesTypeOK, PublishTypeOK, HistoryTypeOK, ChannelTypeOK, EngineTypeOK
  <2> QED
    BY <2>1, <2>2
<1> QED
  BY <1>1, <1>2, PTL DEF Spec

-----------------------------------------------------------------------------
(* The commands in flight.                                                 *)

\* They are a sequence of commands.
LEMMA InFlightType ==
    ASSUME TypeOK
    PROVE  /\ InFlight \in Seq(Command) /\ Len(InFlight) \in Nat
           /\ \A i \in 1 .. Len(InFlight) : InFlight[i] \in Command
<1>1. queue \in Seq(Command) /\ outbox \in Seq(Command)
  BY DEF TypeOK, ChannelTypeOK
<1>2. InFlight \in Seq(Command)
  BY <1>1 DEF InFlight
<1> QED
  BY <1>2

\* So are those of the next state.
LEMMA InFlightTypeNext ==
    ASSUME TypeOK'
    PROVE  /\ InFlight' \in Seq(Command) /\ Len(InFlight') \in Nat
           /\ \A i \in 1 .. Len(InFlight') : InFlight'[i] \in Command
<1>1. queue' \in Seq(Command) /\ outbox' \in Seq(Command)
  BY DEF TypeOK, ChannelTypeOK
<1>2. InFlight' \in Seq(Command)
  BY <1>1 DEF InFlight
<1> QED
  BY <1>2

\* A step extends the commands in flight: by c, perhaps behind a stop.
Grows(c) ==
    /\ Len(InFlight') > Len(InFlight)
    /\ \A i \in 1 .. Len(InFlight) : InFlight'[i] = InFlight[i]
    /\ InFlight'[Len(InFlight')] = c
    /\ \A i \in Len(InFlight) + 1 .. Len(InFlight') - 1 : InFlight'[i] = Cmd("TransportStop")

\* A handler that leaves c to send, alone or after a stop, does.
LEMMA HandlerGrows ==
    ASSUME TypeOK, outbox = <<>>, queue' = queue,
           NEW before \in {<<>>, Stop}, NEW c \in Command, outbox' = Append(before, c)
    PROVE  Grows(c)
<1>1. queue \in Seq(Command) /\ Stop \in Seq(Command)
  BY StopType DEF TypeOK, ChannelTypeOK
<1>2. InFlight = queue
  BY <1>1 DEF InFlight
<1>3. CASE before = <<>>
  <2>1. InFlight' = Append(queue, c)
    BY <1>1, <1>3 DEF InFlight
  <2>2. /\ Len(InFlight') = Len(queue) + 1 /\ InFlight'[Len(queue) + 1] = c
        /\ \A i \in 1 .. Len(queue) : InFlight'[i] = queue[i]
    BY <1>1, <2>1
  <2> QED
    BY <1>1, <1>2, <2>2 DEF Grows
<1>4. CASE before = Stop
  <2>1. outbox' \in Seq(Command) /\ Len(outbox') = 2 /\ outbox'[1] = Cmd("TransportStop")
        /\ outbox'[2] = c
    BY <1>1, <1>4 DEF Stop
  <2>2. /\ Len(InFlight') = Len(queue) + 2
        /\ \A i \in 1 .. Len(queue) : InFlight'[i] = queue[i]
        /\ \A i \in Len(queue) + 1 .. Len(queue) + 2 : InFlight'[i] = outbox'[i - Len(queue)]
    BY <1>1, <2>1 DEF InFlight
  <2>3. Len(queue) \in Nat
    BY <1>1
  <2>4. InFlight'[Len(queue) + 2] = c /\ InFlight'[Len(queue) + 1] = Cmd("TransportStop")
    BY <2>1, <2>2, <2>3
  <2> QED
    BY <1>2, <2>2, <2>3, <2>4 DEF Grows
<1> QED
  BY <1>3, <1>4

\* What a command covers stays covered by it when more commands follow.
LEMMA CoveredGrows ==
    ASSUME TypeOK, TypeOK', NEW c, Grows(c), entries \subseteq entries',
           NEW o, NEW i \in Nat, NEW K, Covered(o, i, K)
    PROVE  Covered(o, i, K)'
<1>1. PICK j \in i + 1 .. Len(InFlight) :
         InFlight[j].type \in K /\ <<o, InFlight[j].serial>> \in entries
  BY DEF Covered
<1>2. j \in 1 .. Len(InFlight) /\ j \in i + 1 .. Len(InFlight')
  BY InFlightType, InFlightTypeNext DEF Grows
<1>3. InFlight'[j] = InFlight[j]
  BY <1>2 DEF Grows
<1> QED
  BY <1>1, <1>2, <1>3 DEF Covered

\* The command that ends a voice of an instance still does.
LEMMA VoiceGrows ==
    ASSUME TypeOK, TypeOK', NEW c, Grows(c), entries \subseteq entries',
           NEW n \in Instances, NEW o, VoiceLinked(n, o),
           o # override[n] \/ override' = override
    PROVE  VoiceLinked(n, o)'
<1>1. CASE o = override[n]
  BY <1>1 DEF VoiceLinked
<1>2. ASSUME NEW j \in 1 .. Len(InFlight), InFlight[j].type = "SetBundle",
             n \in InFlight[j].bundle.binds, <<o, InFlight[j].serial>> \in entries
      PROVE  VoiceLinked(n, o)'
  <2>1. InFlight'[j] = InFlight[j] /\ j \in 1 .. Len(InFlight')
    BY InFlightType, InFlightTypeNext DEF Grows
  <2> QED
    BY <1>2, <2>1 DEF VoiceLinked
<1> QED
  BY <1>1, <1>2 DEF VoiceLinked

\* What retires with the serial of the last command is covered by it.
LEMMA CoveredByLast ==
    ASSUME TypeOK, TypeOK', NEW c, Grows(c), NEW o, <<o, c.serial>> \in entries',
           NEW i \in 0 .. Len(InFlight), NEW K, c.type \in K
    PROVE  Covered(o, i, K)'
<1>1. Len(InFlight') \in i + 1 .. Len(InFlight')
  BY InFlightType, InFlightTypeNext DEF Grows
<1> QED
  BY <1>1 DEF Covered, Grows

-----------------------------------------------------------------------------
(* What a step of the session owes the invariant.                          *)

\* What was linked stays linked, for the engine and each command in flight.
KeepsLinks ==
    /\ \A i \in 0 .. Len(InFlight) :
        /\ \A o \in Buffers : SampleLinked(o, i) => SampleLinked(o, i)'
        /\ \A o \in Buffers : PreviewLinked(o, i) => PreviewLinked(o, i)'
        /\ \A b \in Bundle : GraphLinked(b, i) => GraphLinked(b, i)'
        /\ \A b \in Bundle : RackLinked(b, i) => RackLinked(b, i)'
        /\ \A b \in Bundle : BindsLinked(b, i) => BindsLinked(b, i)'
    /\ \A n \in Instances : \A o \in Buffers : VoiceLinked(n, o) => VoiceLinked(n, o)'

\* What the engine reaches, or a command in flight carries, is still held.
KeepsHeld ==
    /\ EngineHolds \subseteq Held'
    /\ \A i \in 1 .. Len(InFlight) : CommandHolds(InFlight[i]) \subseteq Held'

\* Command c, new in flight at position i of the next state.
NewCommand(i, c) ==
    /\ CommandHolds(c) \subseteq Held'
    /\ c.type \notin {"PreviewNote", "PlaySample"} => c.sample = None
    /\ \A n \in Instances \ registry' : n \notin c.bundle.binds
    /\ c.type \in Fenced => i = Len(InFlight') /\ serial < c.serial /\ c.serial <= serial'
    /\ ~dropped => CommandLinked(c, i)'

\* A bundle stays linked if its parts do.
LEMMA BundleKept ==
    ASSUME KeepsLinks, NEW b \in Bundle, NEW i \in 0 .. Len(InFlight), BundleLinked(b, i)
    PROVE  BundleLinked(b, i)'
<1>1. GraphLinked(b, i)' /\ RackLinked(b, i)' /\ BindsLinked(b, i)'
  BY DEF KeepsLinks, BundleLinked
<1>2. ASSUME NEW o \in SamplesOf(b) PROVE SampleLinked(o, i)'
  <2>1. o \in Buffers
    BY DEF SamplesOf, Bundle
  <2> QED
    BY <2>1 DEF KeepsLinks, BundleLinked
<1> QED
  BY <1>1, <1>2 DEF BundleLinked, SamplesOf

\* A command in flight stays linked if its parts do.
LEMMA CommandKept ==
    ASSUME KeepsLinks, NEW c \in Command, NEW i \in 0 .. Len(InFlight), CommandLinked(c, i)
    PROVE  CommandLinked(c, i)'
<1>1. c.bundle \in Bundle /\ (c.type \in {"PreviewNote", "PlaySample"} => c.sample \in Buffers)
  BY DEF Command
<1>2. BundleLinked(c.bundle, i)'
  <2>1. BundleLinked(c.bundle, i)
    BY DEF CommandLinked
  <2>2. \A b \in Bundle : BundleLinked(b, i) => BundleLinked(b, i)'
    BY BundleKept
  <2> QED
    BY <1>1, <2>1, <2>2
<1>3. /\ \A o \in Buffers : SampleLinked(o, i) => SampleLinked(o, i)'
      /\ \A o \in Buffers : PreviewLinked(o, i) => PreviewLinked(o, i)'
  BY DEF KeepsLinks
<1> QED
  BY <1>1, <1>2, <1>3 DEF CommandLinked

\* A step of the session keeps the invariant if nothing it held is lost,
\* what was linked stays linked, and what it adds in flight is in order.
LEMMA SessionStep ==
    ASSUME TypeOK, TypeOK', Fence,
           Len(InFlight') >= Len(InFlight),
           \A i \in 1 .. Len(InFlight) : InFlight'[i] = InFlight[i],
           \A i \in Len(InFlight) + 1 .. Len(InFlight') : \A c \in Command :
                c = InFlight'[i] => NewCommand(i, c),
           UNCHANGED <<dropped, engine>>,
           KeepsHeld, LiveLinked', serial <= serial', registry \subseteq registry',
           \A n \in Instances \ registry' : override'[n] = None,
           ~dropped => KeepsLinks
    PROVE  Fence'
<1>0. /\ Len(InFlight) \in Nat /\ Len(InFlight') \in Nat
      /\ \A i \in 1 .. Len(InFlight) : InFlight[i] \in Command
      /\ \A i \in 1 .. Len(InFlight') : i \in 1 .. Len(InFlight) \/ i \in Len(InFlight) + 1 .. Len(InFlight')
  BY InFlightType, InFlightTypeNext
<1>n. ASSUME NEW i \in Len(InFlight) + 1 .. Len(InFlight')
      PROVE  \E c \in Command : c = InFlight'[i] /\ NewCommand(i, c)
  <2>1. InFlight'[i] \in Command
    BY <1>0, InFlightTypeNext
  <2> QED
    BY <2>1
<1>1. Safe'
  <2>1. EngineHolds' \subseteq Held'
    <3>1. EngineHolds' = EngineHolds
      BY DEF EngineHolds, engine, voices, GraphOf, RackOf, SamplesOf
    <3>2. EngineHolds \subseteq Held'
      BY DEF KeepsHeld
    <3> QED
      BY <3>1, <3>2
  <2>2. ASSUME NEW i \in 1 .. Len(InFlight') PROVE CommandHolds(InFlight'[i]) \subseteq Held'
    BY <1>0, <1>n DEF KeepsHeld, NewCommand
  <2> QED
    BY <2>1, <2>2 DEF Safe, CommandHolds
<1>2. Registered'
  <2> SUFFICES ASSUME NEW n \in Instances \ registry' PROVE Unknown(n)'
    BY DEF Registered
  <2>1. Unknown(n)
    BY DEF Fence, Registered
  <2>2. \A i \in 1 .. Len(InFlight') : n \notin InFlight'[i].bundle.binds
    BY <1>0, <1>n, <2>1 DEF Unknown, NewCommand
  <2> QED
    BY <2>1, <2>2 DEF Unknown, engine, voices
<1>3. Shapes'
  BY <1>0, <1>n DEF Fence, Shapes, NewCommand
<1>4. ASSUME ~dropped PROVE Serials'
  <2>0. snap' = snap /\ applied' = applied /\ Serials
    BY <1>4 DEF Fence, engine
  <2>1. applied \in Nat /\ serial \in Nat /\ serial' \in Nat
    BY DEF TypeOK, EngineTypeOK, PublishTypeOK
  <2>2. ASSUME NEW i \in 1 .. Len(InFlight'), InFlight'[i].type \in Fenced
        PROVE  /\ applied < InFlight'[i].serial /\ InFlight'[i].serial <= serial'
               /\ \A j \in i + 1 .. Len(InFlight') :
                    InFlight'[j].type \in Fenced => InFlight'[i].serial < InFlight'[j].serial
    <3>1. InFlight'[i].serial \in Nat
      BY InFlightTypeNext DEF Command
    <3>2. CASE i \in Len(InFlight) + 1 .. Len(InFlight')
      BY <1>0, <1>n, <2>0, <2>1, <2>2, <3>1, <3>2 DEF NewCommand, Serials
    <3>3. CASE i \in 1 .. Len(InFlight)
      <4>1. InFlight[i].type \in Fenced /\ InFlight'[i] = InFlight[i]
        BY <2>2, <3>3
      <4>2. applied < InFlight[i].serial /\ InFlight[i].serial <= serial
        BY <2>0, <3>3, <4>1 DEF Serials
      <4>3. ASSUME NEW j \in i + 1 .. Len(InFlight'), InFlight'[j].type \in Fenced
            PROVE  InFlight'[i].serial < InFlight'[j].serial
        <5>1. InFlight'[j].serial \in Nat
          BY <1>0, InFlightTypeNext, <3>3 DEF Command
        <5>2. CASE j \in i + 1 .. Len(InFlight)
          BY <1>0, <2>0, <3>3, <4>1, <4>3, <5>2 DEF Serials
        <5>3. CASE j \in Len(InFlight) + 1 .. Len(InFlight')
          <6>1. serial < InFlight'[j].serial
            BY <1>n, <4>3, <5>3 DEF NewCommand
          <6> QED
            BY <2>1, <3>1, <4>1, <4>2, <5>1, <6>1
        <5> QED
          BY <1>0, <5>2, <5>3
      <4> QED
        BY <2>1, <3>1, <4>1, <4>2, <4>3
    <3> QED
      BY <1>0, <3>2, <3>3
  <2>3. snap' <= applied' /\ applied' <= serial'
    BY <2>0, <2>1 DEF Serials
  <2> QED
    BY <2>0, <2>2, <2>3 DEF Serials
<1>5. ASSUME ~dropped PROVE Linked'
  <2>0. Linked /\ KeepsLinks
    BY <1>5 DEF Fence
  <2>1. /\ bundle \in Bundle /\ chVoices \subseteq Buffers /\ seqVoices \subseteq Buffers
        /\ pluginVoices \in [Instances -> SUBSET Buffers] /\ oneShot \in Buffers \cup {None}
        /\ 0 \in 0 .. Len(InFlight)
    BY <1>0 DEF TypeOK, EngineTypeOK
  <2>2. UNCHANGED <<bundle, chVoices, seqVoices, pluginVoices, oneShot>>
    BY DEF engine, voices
  <2>3. EngineLinked'
    <3>1. BundleLinked(bundle, 0)'
      BY <2>0, <2>1, <2>2, BundleKept DEF Linked, EngineLinked
    <3>2. \A o \in chVoices' \cup seqVoices' : SampleLinked(o, 0)'
      BY <2>0, <2>1, <2>2 DEF Linked, EngineLinked, KeepsLinks
    <3>3. oneShot' # None => PreviewLinked(oneShot, 0)'
      BY <2>0, <2>1, <2>2 DEF Linked, EngineLinked, KeepsLinks
    <3>4. \A n \in Instances : \A o \in pluginVoices'[n] : VoiceLinked(n, o)'
      BY <2>0, <2>1, <2>2 DEF Linked, EngineLinked, KeepsLinks
    <3> QED
      BY <3>1, <3>2, <3>3, <3>4 DEF EngineLinked
  <2>4. ASSUME NEW i \in 1 .. Len(InFlight'), NEW c, c = InFlight'[i] PROVE CommandLinked(c, i)'
    <3>1. CASE i \in Len(InFlight) + 1 .. Len(InFlight')
      BY <1>5, <1>n, <2>4, <3>1 DEF NewCommand
    <3>2. CASE i \in 1 .. Len(InFlight)
      BY <1>0, <2>0, <2>4, <3>2, CommandKept DEF Linked
    <3> QED
      BY <1>0, <3>1, <3>2
  <2> QED
    BY <2>3, <2>4 DEF Linked
<1> QED
  BY <1>1, <1>2, <1>3, <1>4, <1>5 DEF Fence

\* A command without a sample, a bundle or a serial owes the invariant nothing.
LEMMA PlainCommand ==
    ASSUME NEW type, type \notin Fenced \cup {"PreviewNote"}, NEW i
    PROVE  NewCommand(i, Cmd(type))
<1> DEFINE c == Cmd(type)
<1>1. c.type = type /\ c.sample = None /\ c.bundle = NoBundle
  BY DEF Cmd
<1>2. GraphOf(NoBundle) = {} /\ RackOf(NoBundle) = {} /\ SamplesOf(NoBundle) = {} /\ NoBundle.binds = {}
  BY DEF NoBundle, GraphOf, RackOf, SamplesOf
<1>3. type \notin {"PlaySample", "PreviewNote"}
  BY DEF Fenced
<1>4. CommandLinked(c, i)'
  BY <1>1, <1>2, <1>3 DEF CommandLinked, BundleLinked, GraphLinked, RackLinked, BindsLinked
<1>5. CommandHolds(c) = {}
  BY <1>1, <1>2 DEF CommandHolds, NonNull
<1> QED
  BY <1>1, <1>2, <1>3, <1>4, <1>5 DEF NewCommand

\* A handler that leaves one command to send, alone or after a stop.
LEMMA GrowStep ==
    ASSUME TypeOK, TypeOK', Fence, outbox = <<>>,
           UNCHANGED <<queue, dropped, engine>>,
           NEW before \in {<<>>, Stop}, NEW c \in Command, outbox' = Append(before, c),
           \A i \in Nat : i = Len(InFlight') => NewCommand(i, c),
           Held \subseteq Held', LiveLinked', serial <= serial', registry \subseteq registry',
           \A n \in Instances \ registry' : override'[n] = None,
           ~dropped => KeepsLinks
    PROVE  Fence'
<1>1. Grows(c)
  BY HandlerGrows
<1>2. Len(InFlight) \in Nat /\ Len(InFlight') \in Nat
  BY InFlightType, InFlightTypeNext
<1>3. ASSUME NEW i \in Len(InFlight) + 1 .. Len(InFlight'), NEW d \in Command, d = InFlight'[i]
      PROVE  NewCommand(i, d)
  <2>1. CASE i = Len(InFlight')
    BY <1>1, <1>2, <1>3, <2>1 DEF Grows
  <2>2. CASE i \in Len(InFlight) + 1 .. Len(InFlight') - 1
    <3>1. d = Cmd("TransportStop")
      BY <1>1, <1>3, <2>2 DEF Grows
    <3> QED
      BY <3>1, PlainCommand DEF Fenced
  <2> QED
    BY <1>2, <2>1, <2>2
<1>4. Len(InFlight') >= Len(InFlight) /\ \A i \in 1 .. Len(InFlight) : InFlight'[i] = InFlight[i]
  BY <1>1, <1>2 DEF Grows
<1>5. KeepsHeld
  BY DEF KeepsHeld, Fence, Safe
<1> QED
  BY <1>3, <1>4, <1>5, SessionStep

-----------------------------------------------------------------------------
(* Handlers that publish.                                                  *)

\* What a publish retires at serial n is in entries for ever after.
LEMMA Retired == ASSUME NEW S, NEW n, NEW o \in S PROVE <<o, n>> \in Retire(S, n)
BY DEF Retire

\* A handler that publishes a bundle keeps the invariant: every buffer,
\* binding and override it unlinks is parked, and the new bundle is made of
\* what the tables hold.
LEMMA BundleStep ==
    ASSUME TypeOK, TypeOK', Fence, outbox = <<>>,
           NEW before \in {<<>>, Stop},
           NEW samples \in [Slots -> Buffers \cup {None}],
           NEW ns \in SUBSET Instances, NEW bs \in SUBSET Bridges, NEW parked,
           PublishBundle(before, samples, ns, bs, parked),
           UNCHANGED <<preview, queue, dropped, engine>>,
           staged \subseteq parked,
           \A s \in Slots : slot[s] \in parked \cup {None} \cup {samples[r] : r \in Slots},
           bridged \subseteq bs \cup parked,
           \A n \in Instances : \/ override'[n] = override[n]
                                \/ n \in ns /\ override[n] \in parked \cup {None},
           registry \subseteq registry', ns \subseteq registry',
           \A n \in Instances \ registry' : override'[n] = None
    PROVE  Fence'
<1>0. serial \in Nat
  BY DEF TypeOK, PublishTypeOK
<1>n. PICK n \in Nat : n = serial + 1
  BY <1>0
<1>b. PICK b \in Bundle : b = [id |-> n, rack |-> n, samples |-> samples, binds |-> ns \cup bs]
  BY DEF Bundle
<1>c. PICK c \in Command : c = [Cmd("SetBundle") EXCEPT !.serial = n, !.bundle = b]
  BY BundleCommandType
<1>1. /\ serial' = n /\ live' = b /\ outbox' = Append(before, c)
      /\ entries' = entries \cup Retire(GraphOf(live) \cup RackOf(live) \cup parked, n)
      /\ slot' = samples /\ bridged' = bs
  BY <1>n, <1>b, <1>c DEF PublishBundle
<1>4. c.type = "SetBundle" /\ c.serial = n /\ c.bundle = b /\ c.sample = None
  BY <1>c DEF Cmd
<1>5. /\ b.samples = samples /\ b.binds \cap Bridges = bs
      /\ \A m \in Instances : m \in b.binds <=> m \in ns
  BY <1>b, ObjectsAssumption
<1>6. /\ entries \subseteq entries'
      /\ \A o \in GraphOf(live) \cup RackOf(live) \cup parked : <<o, c.serial>> \in entries'
  BY <1>1, <1>4, Retired
<1>7. Grows(c)
  BY <1>1, HandlerGrows
<1>8. Held \subseteq Held'
  <2>1. Retained \cup GraphOf(live) \cup RackOf(live) \cup parked \subseteq Retained'
    <3>1. ASSUME NEW o \in GraphOf(live) \cup RackOf(live) \cup parked PROVE o \in Retained'
      <4> <<o, c.serial>> \in entries' /\ <<o, c.serial>>[1] = o
        BY <1>6
      <4> QED
        BY DEF Retained
    <3>2. ASSUME NEW e \in entries PROVE e[1] \in Retained'
      BY <1>6 DEF Retained
    <3> QED
      BY <3>1, <3>2 DEF Retained
  <2>2. NonNull({slot[s] : s \in Slots}) \subseteq Held'
    BY <1>1, <2>1 DEF Held, SessionHeld, NonNull
  <2>3. NonNull({override[m] : m \in Instances}) \subseteq Held'
    BY <2>1 DEF Held, SessionHeld, NonNull
  <2>4. NonNull(bridged \cup {preview}) \subseteq Held'
    BY <1>1, <2>1 DEF Held, SessionHeld, NonNull
  <2> QED
    BY <2>1, <2>2, <2>3, <2>4 DEF Held, SessionHeld, NonNull
<1>9. LiveLinked'
  BY <1>1, <1>5 DEF LiveLinked, SamplesOf
<1>10. ~dropped => KeepsLinks
  <2>1. ASSUME NEW i \in 0 .. Len(InFlight), NEW o, NEW K, Covered(o, i, K) PROVE Covered(o, i, K)'
    BY <1>6, <1>7, <2>1, CoveredGrows
  <2>2. ASSUME NEW i \in 0 .. Len(InFlight), NEW K, "SetBundle" \in K,
               NEW o \in GraphOf(live) \cup RackOf(live) \cup parked
        PROVE  Covered(o, i, K)'
    BY <1>4, <1>6, <1>7, <2>2, CoveredByLast
  <2>3. ASSUME NEW i \in 0 .. Len(InFlight), NEW o \in Buffers, SampleLinked(o, i)
        PROVE  SampleLinked(o, i)'
    <3>1. o # None
      BY ObjectsAssumption
    <3>2. ASSUME NEW s \in Slots, slot[s] = o PROVE SampleLinked(o, i)'
      BY <1>1, <2>2, <3>1, <3>2 DEF SampleLinked
    <3>3. CASE o \in staged
      BY <2>2, <3>3 DEF SampleLinked
    <3>4. CASE Covered(o, i, {"SetBundle"})
      BY <2>1, <3>4 DEF SampleLinked
    <3> QED
      BY <2>3, <3>2, <3>3, <3>4 DEF SampleLinked
  <2>4. ASSUME NEW i \in 0 .. Len(InFlight), NEW o \in Buffers, PreviewLinked(o, i)
        PROVE  PreviewLinked(o, i)'
    BY <2>1, <2>4 DEF PreviewLinked
  <2>5. ASSUME NEW i \in 0 .. Len(InFlight), NEW a \in Bundle, GraphLinked(a, i)
        PROVE  GraphLinked(a, i)'
    BY <2>1, <2>2, <2>5 DEF GraphLinked
  <2>6. ASSUME NEW i \in 0 .. Len(InFlight), NEW a \in Bundle, RackLinked(a, i)
        PROVE  RackLinked(a, i)'
    BY <2>1, <2>2, <2>6 DEF RackLinked
  <2>7. ASSUME NEW i \in 0 .. Len(InFlight), NEW a \in Bundle, BindsLinked(a, i)
        PROVE  BindsLinked(a, i)'
    BY <1>1, <2>1, <2>2, <2>7 DEF BindsLinked
  <2>8. ASSUME NEW m \in Instances, NEW o \in Buffers, VoiceLinked(m, o)
        PROVE  VoiceLinked(m, o)'
    <3>1. Len(InFlight) \in Nat /\ Len(InFlight') \in Nat
      BY InFlightType, InFlightTypeNext
    <3>2. ASSUME o = override[m] PROVE VoiceLinked(m, o)'
      <4>1. CASE override'[m] = override[m]
        BY <3>2, <4>1 DEF VoiceLinked
      <4>2. CASE m \in ns /\ o \in parked
        <5>1. Len(InFlight') \in 1 .. Len(InFlight') /\ InFlight'[Len(InFlight')] = c
          BY <1>7, <3>1 DEF Grows
        <5> QED
          BY <1>4, <1>5, <1>6, <4>2, <5>1 DEF VoiceLinked
      <4>3. o # None
        BY ObjectsAssumption
      <4> QED
        BY <3>2, <4>1, <4>2, <4>3
    <3>3. ASSUME ~ (o = override[m]) PROVE VoiceLinked(m, o)'
      BY <1>6, <1>7, <2>8, <3>3, VoiceGrows
    <3> QED
      BY <3>2, <3>3
  <2> QED
    BY <2>3, <2>4, <2>5, <2>6, <2>7, <2>8 DEF KeepsLinks
<1>11. ASSUME NEW i \in Nat, i = Len(InFlight') PROVE NewCommand(i, c)
  <2>1. GraphOf(b) = GraphOf(live)' /\ RackOf(b) = RackOf(live)'
    BY <1>1
  <2>2. \A o \in SamplesOf(b) : \E s \in Slots : slot'[s] = o /\ o # None
    BY <1>1, <1>5 DEF SamplesOf
  <2>3. CommandHolds(c) \subseteq Held'
    <3>1. GraphOf(b) \cup RackOf(b) \cup bs \subseteq Held'
      BY <1>1, <2>1, ObjectsAssumption DEF Held, SessionHeld, NonNull
    <3>2. SamplesOf(b) \subseteq Held'
      BY <2>2 DEF Held, SessionHeld, NonNull
    <3>3. CommandHolds(c) = GraphOf(b) \cup RackOf(b) \cup bs \cup SamplesOf(b)
      BY <1>4, <1>5 DEF CommandHolds, NonNull
    <3> QED
      BY <3>1, <3>2, <3>3
  <2>4. CommandLinked(c, i)'
    <3>1. BundleLinked(b, i)'
      <4>1. \A o \in SamplesOf(b) : SampleLinked(o, i)'
        BY <2>2 DEF SampleLinked
      <4>2. GraphLinked(b, i)' /\ RackLinked(b, i)' /\ BindsLinked(b, i)'
        BY <1>1, <1>5, <2>1 DEF GraphLinked, RackLinked, BindsLinked
      <4> QED
        BY <4>1, <4>2 DEF BundleLinked
    <3> QED
      BY <1>4, <3>1 DEF CommandLinked
  <2> QED
    BY <1>0, <1>n, <1>1, <1>4, <1>5, <1>11, <2>3, <2>4 DEF NewCommand
<1>12. serial <= serial'
  BY <1>0, <1>n, <1>1
<1> QED
  BY <1>1, <1>8, <1>9, <1>10, <1>11, <1>12, GrowStep

\* What a publish must leave for the fence, in one word.
BundleReady(before, samples, ns, bs, parked) ==
    /\ PublishBundle(before, samples, ns, bs, parked) /\ outbox = <<>>
    /\ UNCHANGED <<preview, queue, dropped, engine>> /\ staged \subseteq parked
    /\ \A s \in Slots : slot[s] \in parked \cup {None} \cup {samples[r] : r \in Slots}
    /\ bridged \subseteq bs \cup parked
    /\ \A n \in Instances : \/ override'[n] = override[n]
                            \/ n \in ns /\ override[n] \in parked \cup {None}
    /\ registry \subseteq registry' /\ ns \subseteq registry'
    /\ \A n \in Instances \ registry' : override'[n] = None

\* The same, for a publish that is ready.
LEMMA ReadyStep ==
    ASSUME TypeOK, TypeOK', Fence, NEW samples \in [Slots -> Buffers \cup {None}],
           NEW ns \in SUBSET Instances, NEW bs \in SUBSET Bridges, NEW parked,
           BundleReady(Stop, samples, ns, bs, parked)
    PROVE  Fence'
<1>1. PICK before \in {<<>>, Stop} : before = Stop /\ BundleReady(before, samples, ns, bs, parked)
  OBVIOUS
<1> QED
  BY <1>1, BundleStep DEF BundleReady

\* So does a live swap: it unlinks the old graph runner and bindings only,
\* and takes rack and samples from the live bundle.
LEMMA GraphStep ==
    ASSUME TypeOK, TypeOK', Fence, outbox = <<>>,
           NEW ns \in SUBSET Instances, NEW bs \in SUBSET Bridges, NEW parked,
           PublishGraph(ns, bs, parked),
           UNCHANGED <<override, preview, queue, dropped, engine>>,
           bridged \subseteq bs \cup parked,
           registry \subseteq registry', ns \subseteq registry'
    PROVE  Fence'
<1>0. serial \in Nat /\ live \in Bundle
  BY DEF TypeOK, PublishTypeOK
<1>n. PICK n \in Nat : n = serial + 1
  BY <1>0
<1>b. PICK b \in Bundle :
        b = [id |-> n, rack |-> live.rack, samples |-> live.samples, binds |-> ns \cup bs]
  BY <1>0 DEF Bundle
<1>c. PICK c \in Command : c = [Cmd("SwapBundle") EXCEPT !.serial = n, !.bundle = b]
  BY BundleCommandType
<1>1. /\ serial' = n /\ live' = b /\ outbox' = Append(<<>>, c)
      /\ entries' = entries \cup Retire(GraphOf(live) \cup parked, n)
      /\ slot' = slot /\ staged' = staged /\ bridged' = bs
  BY <1>n, <1>b, <1>c DEF PublishGraph, SwapSamples
<1>4. c.type = "SwapBundle" /\ c.serial = n /\ c.bundle = b /\ c.sample = None
  BY <1>c DEF Cmd
<1>5. /\ b.binds \cap Bridges = bs /\ \A m \in Instances : m \in b.binds <=> m \in ns
      /\ RackOf(b) = RackOf(live) /\ SamplesOf(b) = SamplesOf(live)
  BY <1>b, ObjectsAssumption DEF RackOf, SamplesOf
<1>6. /\ entries \subseteq entries'
      /\ \A o \in GraphOf(live) \cup parked : <<o, c.serial>> \in entries'
  BY <1>1, <1>4, Retired
<1>7. Grows(c)
  BY <1>1, HandlerGrows
<1>l. SamplesOf(b) \subseteq {slot[s] : s \in Slots} \cup staged /\ None \notin SamplesOf(b)
  BY <1>5 DEF Fence, LiveLinked, SamplesOf
<1>8. Held \subseteq Held'
  <2>1. Retained \cup GraphOf(live) \cup parked \subseteq Retained'
    <3>1. ASSUME NEW o \in GraphOf(live) \cup parked PROVE o \in Retained'
      <4> <<o, c.serial>> \in entries' /\ <<o, c.serial>>[1] = o
        BY <1>6
      <4> QED
        BY DEF Retained
    <3>2. ASSUME NEW e \in entries PROVE e[1] \in Retained'
      BY <1>6 DEF Retained
    <3> QED
      BY <1>1, <3>1, <3>2 DEF Retained
  <2>2. NonNull(bridged) \subseteq Held'
    BY <1>1, <2>1 DEF Held, SessionHeld, NonNull
  <2>3. RackOf(live) = RackOf(live)'
    BY <1>1, <1>5
  <2> QED
    BY <1>1, <2>1, <2>2, <2>3 DEF Held, SessionHeld, NonNull
<1>9. LiveLinked'
  BY <1>1, <1>l DEF LiveLinked
<1>10. ~dropped => KeepsLinks
  <2>1. ASSUME NEW i \in 0 .. Len(InFlight), NEW o, NEW K, Covered(o, i, K) PROVE Covered(o, i, K)'
    BY <1>6, <1>7, <2>1, CoveredGrows
  <2>2. ASSUME NEW i \in 0 .. Len(InFlight), NEW K, "SwapBundle" \in K,
               NEW o \in GraphOf(live) \cup parked
        PROVE  Covered(o, i, K)'
    BY <1>4, <1>6, <1>7, <2>2, CoveredByLast
  <2>3. ASSUME NEW i \in 0 .. Len(InFlight), NEW o \in Buffers, SampleLinked(o, i)
        PROVE  SampleLinked(o, i)'
    BY <1>1, <2>1, <2>3 DEF SampleLinked
  <2>4. ASSUME NEW i \in 0 .. Len(InFlight), NEW o \in Buffers, PreviewLinked(o, i)
        PROVE  PreviewLinked(o, i)'
    BY <2>1, <2>4 DEF PreviewLinked
  <2>5. ASSUME NEW i \in 0 .. Len(InFlight), NEW a \in Bundle, GraphLinked(a, i)
        PROVE  GraphLinked(a, i)'
    BY <2>1, <2>2, <2>5 DEF GraphLinked
  <2>6. ASSUME NEW i \in 0 .. Len(InFlight), NEW a \in Bundle, RackLinked(a, i)
        PROVE  RackLinked(a, i)'
    <3>1. RackOf(live)' = RackOf(live)
      BY <1>1, <1>5
    <3> QED
      BY <2>1, <2>6, <3>1 DEF RackLinked
  <2>7. ASSUME NEW i \in 0 .. Len(InFlight), NEW a \in Bundle, BindsLinked(a, i)
        PROVE  BindsLinked(a, i)'
    BY <1>1, <2>1, <2>2, <2>7 DEF BindsLinked
  <2>8. ASSUME NEW m \in Instances, NEW o \in Buffers, VoiceLinked(m, o)
        PROVE  VoiceLinked(m, o)'
    BY <1>6, <1>7, <2>8, VoiceGrows
  <2> QED
    BY <2>3, <2>4, <2>5, <2>6, <2>7, <2>8 DEF KeepsLinks
<1>11. ASSUME NEW i \in Nat, i = Len(InFlight') PROVE NewCommand(i, c)
  <2>1. GraphOf(b) = GraphOf(live)' /\ RackOf(b) = RackOf(live)'
    BY <1>1
  <2>3. CommandHolds(c) \subseteq Held'
    <3>1. GraphOf(b) \cup RackOf(b) \cup bs \subseteq Held'
      BY <1>1, <2>1, ObjectsAssumption DEF Held, SessionHeld, NonNull
    <3>2. SamplesOf(b) \subseteq Held'
      BY <1>1, <1>l DEF Held, SessionHeld, Retained, NonNull
    <3>3. CommandHolds(c) = GraphOf(b) \cup RackOf(b) \cup bs \cup SamplesOf(b)
      BY <1>4, <1>5 DEF CommandHolds, NonNull
    <3> QED
      BY <3>1, <3>2, <3>3
  <2>4. CommandLinked(c, i)'
    <3>1. BundleLinked(b, i)'
      <4>1. \A o \in SamplesOf(b) : SampleLinked(o, i)'
        BY <1>1, <1>l DEF SampleLinked
      <4>2. GraphLinked(b, i)' /\ RackLinked(b, i)' /\ BindsLinked(b, i)'
        BY <1>1, <1>5, <2>1 DEF GraphLinked, RackLinked, BindsLinked
      <4> QED
        BY <4>1, <4>2 DEF BundleLinked
    <3> QED
      BY <1>4, <3>1 DEF CommandLinked
  <2> QED
    BY <1>0, <1>n, <1>1, <1>4, <1>5, <1>11, <2>3, <2>4 DEF NewCommand
<1>12. serial <= serial'
  BY <1>0, <1>n, <1>1
<1>13. \A m \in Instances \ registry' : override'[m] = None
  BY DEF Fence, Registered, Unknown
<1> QED
  BY <1>1, <1>8, <1>9, <1>10, <1>11, <1>12, <1>13, GrowStep

\* Either publish, for a handler that changes the graph.
LEMMA GraphOrBundleStep ==
    ASSUME TypeOK, TypeOK', Fence, outbox = <<>>,
           NEW ns \in SUBSET Instances, NEW bs \in SUBSET Bridges, NEW parked,
           PublishGraphOrBundle(ns, bs, parked),
           UNCHANGED <<override, preview, queue, dropped, engine>>,
           bridged \subseteq bs \cup parked,
           registry \subseteq registry', ns \subseteq registry'
    PROVE  Fence'
<1>1. CASE PublishGraph(ns, bs, parked)
  BY <1>1, GraphStep
<1>2. CASE PublishBundle(<<>>, slot, ns, bs, staged \cup parked)
  <2>1. slot \in [Slots -> Buffers \cup {None}]
    BY DEF TypeOK, TablesTypeOK
  <2>2. \A n \in Instances : override'[n] = override[n]
    OBVIOUS
  <2>3. \A n \in Instances \ registry' : override'[n] = None
    BY DEF Fence, Registered, Unknown
  <2>4. PICK samples \in [Slots -> Buffers \cup {None}], p \in {staged \cup parked} : samples = slot /\ p = staged \cup parked
    BY <2>1
  <2>5. /\ PublishBundle(<<>>, samples, ns, bs, p) /\ staged \subseteq p
        /\ \A s \in Slots : slot[s] \in p \cup {None} \cup {samples[r] : r \in Slots}
        /\ bridged \subseteq bs \cup p
    BY <1>2, <2>4
  <2> QED
    BY <2>2, <2>3, <2>5, BundleStep
<1> QED
  BY <1>1, <1>2 DEF PublishGraphOrBundle

\* A handler that plays or stops the one-shot retires the one before it.
LEMMA PreviewStep ==
    ASSUME TypeOK, TypeOK', Fence, outbox = <<>>,
           NEW c \in Command, c.type \in {"PlaySample", "StopSample"}, c.bundle = NoBundle,
           c.serial = serial + 1, c.sample = preview', c.type = "StopSample" => c.sample = None,
           outbox' = <<c>>, serial' = serial + 1,
           entries' = entries \cup Retire(NonNull({preview}), serial + 1),
           UNCHANGED <<slot, override, registry, bridged, live, staged, queue, dropped, engine>>
    PROVE  Fence'
<1>0. serial \in Nat /\ outbox' = Append(<<>>, c)
  BY DEF TypeOK, PublishTypeOK
<1>1. Grows(c)
  BY <1>0, HandlerGrows
<1>2. entries \subseteq entries' /\ \A o \in NonNull({preview}) : <<o, c.serial>> \in entries'
  BY Retired
<1>3. Held \subseteq Held'
  <2>1. ASSUME preview # None PROVE preview \in Retained'
    <3> <<preview, c.serial>> \in entries' /\ <<preview, c.serial>>[1] = preview
      BY <1>2, <2>1 DEF NonNull
    <3> QED
      BY DEF Retained
  <2>2. GraphOf(live)' = GraphOf(live) /\ RackOf(live)' = RackOf(live)
    OBVIOUS
  <2>3. Retained \subseteq Retained'
    BY <1>2 DEF Retained
  <2> QED
    BY <2>1, <2>2, <2>3 DEF Held, SessionHeld, NonNull
<1>4. LiveLinked'
  BY DEF Fence, LiveLinked, SamplesOf
<1>5. ~dropped => KeepsLinks
  <2>1. ASSUME NEW i \in 0 .. Len(InFlight), NEW o, NEW K, Covered(o, i, K) PROVE Covered(o, i, K)'
    BY <1>1, <1>2, <2>1, CoveredGrows
  <2>2. ASSUME NEW i \in 0 .. Len(InFlight), NEW o \in Buffers, SampleLinked(o, i)
        PROVE  SampleLinked(o, i)'
    BY <2>1, <2>2 DEF SampleLinked
  <2>3. ASSUME NEW i \in 0 .. Len(InFlight), NEW o \in Buffers, PreviewLinked(o, i)
        PROVE  PreviewLinked(o, i)'
    <3>1. CASE o = preview
      <4>1. <<o, c.serial>> \in entries'
        BY <1>2, <3>1, ObjectsAssumption DEF NonNull
      <4>2. Covered(o, i, {"PlaySample", "StopSample"})'
        BY <1>1, <4>1, CoveredByLast
      <4> QED
        BY <4>2 DEF PreviewLinked
    <3> QED
      BY <2>1, <2>3, <3>1 DEF PreviewLinked
  <2>4. ASSUME NEW i \in 0 .. Len(InFlight), NEW b \in Bundle
        PROVE  /\ GraphLinked(b, i) => GraphLinked(b, i)'
               /\ RackLinked(b, i) => RackLinked(b, i)'
               /\ BindsLinked(b, i) => BindsLinked(b, i)'
    BY <2>1 DEF GraphLinked, RackLinked, BindsLinked
  <2>5. ASSUME NEW m \in Instances, NEW o \in Buffers, VoiceLinked(m, o)
        PROVE  VoiceLinked(m, o)'
    BY <1>1, <1>2, <2>5, VoiceGrows
  <2> QED
    BY <2>2, <2>3, <2>4, <2>5 DEF KeepsLinks
<1>6. ASSUME NEW i \in Nat, i = Len(InFlight') PROVE NewCommand(i, c)
  <2>1. GraphOf(NoBundle) = {} /\ RackOf(NoBundle) = {} /\ SamplesOf(NoBundle) = {} /\ NoBundle.binds = {}
    BY DEF NoBundle, GraphOf, RackOf, SamplesOf
  <2>2. CommandHolds(c) \subseteq Held'
    BY <2>1 DEF CommandHolds, Held, SessionHeld, NonNull
  <2>3. CommandLinked(c, i)'
    BY <2>1 DEF CommandLinked, BundleLinked, GraphLinked, RackLinked, BindsLinked, PreviewLinked
  <2> QED
    BY <1>0, <1>6, <2>1, <2>2, <2>3 DEF NewCommand
<1>7. \A m \in Instances \ registry' : override'[m] = None
  BY DEF Fence, Registered, Unknown
<1> QED
  BY <1>0, <1>3, <1>4, <1>5, <1>6, <1>7, GrowStep

\* A command that unlinks nothing: a note on a slot's sample, or no sample.
LEMMA UnfencedStep ==
    ASSUME TypeOK, TypeOK', Fence, NEW c, SendUnfenced(c),
           \/ \E type : type \notin Fenced \cup {"PreviewNote"} /\ c = Cmd(type) /\ c \in Command
           \/ \E s \in Slots : slot[s] # None /\ c = [Cmd("PreviewNote") EXCEPT !.sample = slot[s]]
    PROVE  Fence'
<1>0. outbox = <<>> /\ outbox' = Append(<<>>, c) /\ UNCHANGED <<session, queue, dropped, engine>>
  BY DEF SendUnfenced, Idle
<1>1. UNCHANGED <<slot, override, registry, bridged, live, staged, preview, serial, entries>>
  BY <1>0 DEF session, tables, published, reclaimer
<1>2. Held' = Held /\ (LiveLinked => LiveLinked')
  BY <1>1 DEF Held, SessionHeld, Retained, LiveLinked, GraphOf, RackOf, SamplesOf
<1>3. c \in Command
  BY SampleCommandType DEF TypeOK, TablesTypeOK
<1>4. Grows(c)
  BY <1>0, <1>3, HandlerGrows
<1>5. ASSUME NEW i \in Nat, i = Len(InFlight') PROVE NewCommand(i, c)
  <2>1. CASE \E type : type \notin Fenced \cup {"PreviewNote"} /\ c = Cmd(type)
    BY <2>1, PlainCommand
  <2>2. ASSUME NEW s \in Slots, slot[s] # None, c = [Cmd("PreviewNote") EXCEPT !.sample = slot[s]]
        PROVE  NewCommand(i, c)
    <3>1. c.type = "PreviewNote" /\ c.sample = slot[s] /\ c.bundle = NoBundle
      BY <2>2 DEF Cmd
    <3>2. GraphOf(NoBundle) = {} /\ RackOf(NoBundle) = {} /\ SamplesOf(NoBundle) = {} /\ NoBundle.binds = {}
      BY DEF NoBundle, GraphOf, RackOf, SamplesOf
    <3>3. CommandHolds(c) \subseteq Held'
      BY <1>2, <3>1, <3>2 DEF CommandHolds, Held, SessionHeld, NonNull
    <3>4. CommandLinked(c, i)'
      BY <1>1, <3>1, <3>2
         DEF CommandLinked, BundleLinked, GraphLinked, RackLinked, BindsLinked, SampleLinked
    <3> QED
      BY <3>1, <3>2, <3>3, <3>4 DEF NewCommand, Fenced
  <2> QED
    BY <2>1, <2>2
<1>6. ~dropped => KeepsLinks
  <2>1. ASSUME NEW i \in 0 .. Len(InFlight), NEW o, NEW K, Covered(o, i, K) PROVE Covered(o, i, K)'
    BY <1>1, <1>4, <2>1, CoveredGrows
  <2>2. ASSUME NEW i \in 0 .. Len(InFlight), NEW o \in Buffers
        PROVE  /\ SampleLinked(o, i) => SampleLinked(o, i)'
               /\ PreviewLinked(o, i) => PreviewLinked(o, i)'
    BY <1>1, <2>1 DEF SampleLinked, PreviewLinked
  <2>3. ASSUME NEW i \in 0 .. Len(InFlight), NEW b \in Bundle
        PROVE  /\ GraphLinked(b, i) => GraphLinked(b, i)'
               /\ RackLinked(b, i) => RackLinked(b, i)'
               /\ BindsLinked(b, i) => BindsLinked(b, i)'
    BY <1>1, <2>1 DEF GraphLinked, RackLinked, BindsLinked
  <2>4. ASSUME NEW m \in Instances, NEW o \in Buffers, VoiceLinked(m, o)
        PROVE  VoiceLinked(m, o)'
    BY <1>1, <1>4, <2>4, VoiceGrows
  <2> QED
    BY <2>2, <2>3, <2>4 DEF KeepsLinks
<1>7. LiveLinked' /\ serial <= serial' /\ \A m \in Instances \ registry' : override'[m] = None
  BY <1>1, <1>2 DEF Fence, Registered, Unknown, TypeOK, PublishTypeOK
<1> QED
  BY <1>0, <1>1, <1>2, <1>3, <1>5, <1>6, <1>7, GrowStep

\* What the session staged or linked, BeginLoad stages.
LEMMA BeginLoadStep == ASSUME TypeOK, TypeOK', Fence, BeginLoad PROVE Fence'
<1>0. /\ outbox = <<>> /\ outbox' = Stop /\ staged' = Stage({slot[s] : s \in Slots} \cup bridged)
      /\ bridged' = {}
      /\ UNCHANGED <<override, registry, preview, live, serial, entries, queue, dropped, engine>>
  BY DEF BeginLoad, Idle, CanPublish, published
<1>1. PICK c \in Command : c = Cmd("TransportStop")
  BY CmdInCommand DEF CmdType
<1>2. outbox' = Append(<<>>, c)
  BY <1>0, <1>1 DEF Stop
<1>3. Grows(c)
  BY <1>0, <1>2, HandlerGrows
<1>4. /\ staged \subseteq staged'
      /\ \A s \in Slots : slot[s] # None => slot[s] \in staged'
      /\ bridged \subseteq staged'
  <2>1. None \notin bridged
    BY ObjectsAssumption DEF TypeOK, TablesTypeOK
  <2> QED
    BY <1>0, <2>1 DEF Stage, NonNull
<1>5. Held \subseteq Held'
  <2>1. GraphOf(live)' = GraphOf(live) /\ RackOf(live)' = RackOf(live)
    BY <1>0
  <2> QED
    BY <1>0, <1>4, <2>1 DEF Held, SessionHeld, Retained, NonNull
<1>6. LiveLinked'
  <2>1. SamplesOf(live)' = SamplesOf(live) /\ None \notin SamplesOf(live)
    BY <1>0 DEF SamplesOf
  <2> QED
    BY <1>4, <2>1 DEF Fence, LiveLinked
<1>7. ~dropped => KeepsLinks
  <2>1. ASSUME NEW i \in 0 .. Len(InFlight), NEW o, NEW K, Covered(o, i, K) PROVE Covered(o, i, K)'
    BY <1>0, <1>3, <2>1, CoveredGrows
  <2>2. ASSUME NEW i \in 0 .. Len(InFlight), NEW o \in Buffers
        PROVE  /\ SampleLinked(o, i) => SampleLinked(o, i)'
               /\ PreviewLinked(o, i) => PreviewLinked(o, i)'
    BY <1>0, <1>4, <2>1, ObjectsAssumption DEF SampleLinked, PreviewLinked
  <2>3. ASSUME NEW i \in 0 .. Len(InFlight), NEW b \in Bundle
        PROVE  /\ GraphLinked(b, i) => GraphLinked(b, i)'
               /\ RackLinked(b, i) => RackLinked(b, i)'
               /\ BindsLinked(b, i) => BindsLinked(b, i)'
    BY <1>0, <1>4, <2>1 DEF GraphLinked, RackLinked, BindsLinked
  <2>4. ASSUME NEW m \in Instances, NEW o \in Buffers, VoiceLinked(m, o)
        PROVE  VoiceLinked(m, o)'
    BY <1>0, <1>3, <2>4, VoiceGrows
  <2> QED
    BY <2>2, <2>3, <2>4 DEF KeepsLinks
<1>8. ASSUME NEW i \in Nat, i = Len(InFlight') PROVE NewCommand(i, c)
  BY <1>1, PlainCommand DEF Fenced
<1>9. serial <= serial' /\ \A m \in Instances \ registry' : override'[m] = None
  BY <1>0 DEF Fence, Registered, Unknown, TypeOK, PublishTypeOK
<1> QED
  BY <1>0, <1>2, <1>5, <1>6, <1>7, <1>8, <1>9, GrowStep


\* What is linked stays held, if the tables keep what they hold and the
\* entries what a command in flight covers.
LEMMA LinkedHeld ==
    ASSUME TypeOK, Shapes, Linked, SessionHeld \subseteq Held', staged \subseteq Held',
           ASSUME NEW o, NEW j \in 1 .. Len(InFlight), InFlight[j].type \in Fenced,
                  <<o, InFlight[j].serial>> \in entries
           PROVE  o \in Held'
    PROVE  KeepsHeld
<1>0. Len(InFlight) \in Nat /\ \A i \in 1 .. Len(InFlight) : InFlight[i] \in Command
  BY InFlightType
<1>1. ASSUME NEW o, NEW i \in 0 .. Len(InFlight), NEW K \in SUBSET Fenced, Covered(o, i, K)
      PROVE  o \in Held'
  <2>1. PICK j \in i + 1 .. Len(InFlight) :
           InFlight[j].type \in K /\ <<o, InFlight[j].serial>> \in entries
    BY <1>1 DEF Covered
  <2> QED
    BY <1>0, <2>1
<1>2. ASSUME NEW o, o # None, NEW i \in 0 .. Len(InFlight), SampleLinked(o, i) \/ PreviewLinked(o, i)
      PROVE  o \in Held'
  BY <1>1, <1>2 DEF SampleLinked, PreviewLinked, SessionHeld, NonNull, Fenced
<1>3. ASSUME NEW b, NEW i \in 0 .. Len(InFlight), BundleLinked(b, i)
      PROVE  GraphOf(b) \cup RackOf(b) \cup SamplesOf(b) \cup (b.binds \cap Bridges) \subseteq Held'
  <2>1. GraphOf(b) \subseteq Held' /\ RackOf(b) \subseteq Held'
    BY <1>1, <1>3 DEF BundleLinked, GraphLinked, RackLinked, SessionHeld, Fenced
  <2>2. SamplesOf(b) \subseteq Held'
    BY <1>2, <1>3 DEF BundleLinked, SamplesOf
  <2>3. b.binds \cap Bridges \subseteq Held'
    BY <1>1, <1>3, ObjectsAssumption DEF BundleLinked, BindsLinked, SessionHeld, Fenced, NonNull
  <2> QED
    BY <2>1, <2>2, <2>3
<1>4. EngineHolds \subseteq Held'
  <2>1. /\ chVoices \subseteq Buffers /\ seqVoices \subseteq Buffers
        /\ pluginVoices \in [Instances -> SUBSET Buffers] /\ 0 \in 0 .. Len(InFlight)
    BY <1>0 DEF TypeOK, EngineTypeOK
  <2>2. chVoices \cup seqVoices \subseteq Held'
    BY <1>2, <2>1, ObjectsAssumption DEF Linked, EngineLinked
  <2>3. NonNull({oneShot}) \subseteq Held'
    BY <1>2, <2>1 DEF Linked, EngineLinked, NonNull
  <2>4. ASSUME NEW n \in Instances, NEW o \in pluginVoices[n] PROVE o \in Held'
    <3>1. o # None /\ VoiceLinked(n, o)
      BY <2>1, <2>4, ObjectsAssumption DEF Linked, EngineLinked
    <3>2. CASE o = override[n]
      BY <3>1, <3>2 DEF SessionHeld, NonNull
    <3>3. ASSUME NEW j \in 1 .. Len(InFlight), InFlight[j].type = "SetBundle",
                 <<o, InFlight[j].serial>> \in entries
          PROVE  o \in Held'
      BY <3>3 DEF Fenced
    <3> QED
      BY <3>1, <3>2, <3>3 DEF VoiceLinked
  <2>5. GraphOf(bundle) \cup RackOf(bundle) \cup SamplesOf(bundle) \cup (bundle.binds \cap Bridges)
          \subseteq Held'
    BY <1>3, <2>1 DEF Linked, EngineLinked
  <2> QED
    BY <2>2, <2>3, <2>4, <2>5 DEF EngineHolds
<1>5. ASSUME NEW i \in 1 .. Len(InFlight) PROVE CommandHolds(InFlight[i]) \subseteq Held'
  <2>1. i \in 0 .. Len(InFlight) /\ CommandLinked(InFlight[i], i)
    BY <1>0 DEF Linked
  <2>2. InFlight[i].sample # None => InFlight[i].sample \in Held'
    BY <1>2, <2>1 DEF CommandLinked, Shapes
  <2> QED
    BY <1>3, <2>1, <2>2 DEF CommandLinked, CommandHolds, NonNull
<1> QED
  BY <1>4, <1>5 DEF KeepsHeld

\* A step of the session that sends nothing, and keeps every entry a command
\* in flight covers.
LEMMA QuietStep ==
    ASSUME TypeOK, TypeOK', Fence, InFlight' = InFlight, KeepsHeld,
           UNCHANGED <<slot, preview, bridged, live, serial, staged, dropped, engine>>,
           ~dropped => \A i \in 1 .. Len(InFlight) : \A o :
                InFlight[i].type \in Fenced /\ <<o, InFlight[i].serial>> \in entries
                    => <<o, InFlight[i].serial>> \in entries',
           registry \subseteq registry',
           \A n \in Instances : override'[n] = override[n] \/ override[n] = None,
           \A n \in Instances \ registry' : override'[n] = None
    PROVE  Fence'
<1>0. Len(InFlight) \in Nat
  BY InFlightType
<1>1. ASSUME ~dropped PROVE KeepsLinks
  <2>1. ASSUME NEW i \in 0 .. Len(InFlight), NEW o, NEW K \in SUBSET Fenced, Covered(o, i, K)
        PROVE  Covered(o, i, K)'
    BY <1>0, <1>1, <2>1, SMTT(60) DEF Covered
  <2>2. ASSUME NEW i \in 0 .. Len(InFlight), NEW o \in Buffers
        PROVE  /\ SampleLinked(o, i) => SampleLinked(o, i)'
               /\ PreviewLinked(o, i) => PreviewLinked(o, i)'
    BY <2>1 DEF SampleLinked, PreviewLinked, Fenced
  <2>3. GraphOf(live)' = GraphOf(live) /\ RackOf(live)' = RackOf(live)
    OBVIOUS
  <2>4. ASSUME NEW i \in 0 .. Len(InFlight), NEW b \in Bundle
        PROVE  /\ GraphLinked(b, i) => GraphLinked(b, i)'
               /\ RackLinked(b, i) => RackLinked(b, i)'
               /\ BindsLinked(b, i) => BindsLinked(b, i)'
    BY <2>1, <2>3 DEF GraphLinked, RackLinked, BindsLinked, Fenced
  <2>5. ASSUME NEW m \in Instances, NEW o \in Buffers, VoiceLinked(m, o)
        PROVE  VoiceLinked(m, o)'
    BY <1>0, <1>1, <2>5, ObjectsAssumption DEF VoiceLinked, Fenced
  <2> QED
    BY <2>2, <2>4, <2>5 DEF KeepsLinks
<1>2. LiveLinked'
  BY DEF Fence, LiveLinked, SamplesOf
<1>3. serial <= serial' /\ Len(InFlight') >= Len(InFlight)
  BY <1>0 DEF TypeOK, PublishTypeOK
<1>4. /\ \A i \in 1 .. Len(InFlight) : InFlight'[i] = InFlight[i]
      /\ Len(InFlight) + 1 .. Len(InFlight') = {}
  BY <1>0
<1> QED
  BY <1>1, <1>2, <1>3, <1>4, SessionStep

\* Loading a fresh instance: nobody knew it.
LEMMA LoadInstanceStep ==
    ASSUME TypeOK, TypeOK', Fence, NEW n \in Instances, LoadInstance(n)
    PROVE  Fence'
<1>0. /\ n \notin registry /\ registry' = registry \cup {n}
      /\ UNCHANGED <<slot, preview, bridged, live, serial, staged, entries, outbox, queue, dropped, engine>>
  BY DEF LoadInstance, published, reclaimer
<1>1. InFlight' = InFlight
  BY <1>0 DEF InFlight
<1>2. override[n] = None /\ \A m \in Instances \ {n} : override'[m] = override[m]
  <2>1. override[n] = None
    BY <1>0 DEF Fence, Registered, Unknown
  <2> QED
    BY <2>1 DEF LoadInstance, TypeOK, TablesTypeOK
<1>3. Held \subseteq Held'
  <2>1. GraphOf(live)' = GraphOf(live) /\ RackOf(live)' = RackOf(live)
    BY <1>0
  <2> QED
    BY <1>0, <1>2, <2>1 DEF Held, SessionHeld, Retained, NonNull
<1>4. KeepsHeld
  BY <1>3 DEF KeepsHeld, Fence, Safe
<1>5. \A m \in Instances \ registry' : override'[m] = None
  BY <1>0, <1>2 DEF Fence, Registered, Unknown
<1> QED
  BY <1>0, <1>1, <1>2, <1>4, <1>5, QuietStep

\* A sweep frees only what was retired at a serial the engine has passed; the
\* serials in flight are all later ones.  Once a command was lost it frees
\* nothing.
LEMMA SweepStep ==
    ASSUME TypeOK, TypeOK', Fence, NEW noted \in 0 .. snap, Sweep(noted)
    PROVE  Fence'
<1>0. /\ UNCHANGED <<slot, override, registry, preview, bridged, live, serial, staged,
                     outbox, queue, dropped, engine>>
      /\ dropped => entries' = entries
      /\ entries' \subseteq entries
      /\ \A e \in entries : e[2] > noted => e \in entries'
  <2>1. noted \in Nat /\ \A e \in entries : e[2] \in Nat
    BY DEF TypeOK, EngineTypeOK, PublishTypeOK
  <2>2. UNCHANGED <<tables, published, staged, outbox, queue, dropped, engine>>
    BY DEF Sweep
  <2>3. /\ dropped => entries' = entries
        /\ entries' \subseteq entries
        /\ \A e \in entries : e[2] > noted => e \in entries'
    <3>1. entries' = entries \/ (~dropped /\ entries' = {e \in entries : ~ (e[2] <= noted)})
      BY DEF Sweep, Freeable, TypeOK, PublishTypeOK, ChannelTypeOK
    <3> QED
      BY <2>1, <3>1
  <2> QED
    BY <2>2, <2>3 DEF tables, published
<1>1. InFlight' = InFlight
  BY <1>0 DEF InFlight
<1>2. \A m \in Instances \ registry' : override'[m] = None
  BY <1>0 DEF Fence, Registered, Unknown
<1>3. ASSUME ~dropped, NEW i \in 1 .. Len(InFlight), NEW o,
             InFlight[i].type \in Fenced, <<o, InFlight[i].serial>> \in entries
      PROVE  <<o, InFlight[i].serial>> \in entries'
  <2>1. InFlight[i].serial > applied /\ snap <= applied
    BY <1>3 DEF Fence, Serials
  <2>2. noted \in Nat /\ snap \in Nat /\ applied \in Nat /\ noted <= snap /\ InFlight[i].serial \in Nat
    BY InFlightType DEF TypeOK, EngineTypeOK, Command
  <2>3. InFlight[i].serial > noted
    BY <2>1, <2>2
  <2> QED
    BY <1>0, <1>3, <2>3
<1>4. KeepsHeld
  <2>1. CASE dropped
    <3>1. Held' = Held
      BY <1>0, <2>1 DEF Held, SessionHeld, Retained, GraphOf, RackOf
    <3> QED
      BY <3>1 DEF KeepsHeld, Fence, Safe
  <2>2. CASE ~dropped
    <3>1. SessionHeld \subseteq Held' /\ staged \subseteq Held'
      BY <1>0 DEF Held, SessionHeld, Retained, GraphOf, RackOf
    <3>2. ASSUME NEW o, NEW j \in 1 .. Len(InFlight), InFlight[j].type \in Fenced,
                 <<o, InFlight[j].serial>> \in entries
          PROVE  o \in Held'
      <4>1. <<o, InFlight[j].serial>> \in entries' /\ <<o, InFlight[j].serial>>[1] = o
        BY <1>3, <2>2, <3>2
      <4> QED
        BY <4>1 DEF Held, Retained
    <3> QED
      BY <2>2, <3>1, <3>2, LinkedHeld DEF Fence
  <2> QED
    BY <2>1, <2>2
<1> QED
  BY <1>0, <1>1, <1>2, <1>3, <1>4, QuietStep

\* A command that is sent moves from the handler to the queue, and stays in flight.
LEMMA SentStays ==
    ASSUME TypeOK, Send, queue' = Append(queue, Head(outbox))
    PROVE  InFlight' = InFlight
<1>0. /\ queue \in Seq(Command) /\ outbox \in Seq(Command) /\ outbox # <<>>
      /\ outbox' = Tail(outbox)
  BY DEF Send, TypeOK, ChannelTypeOK
<1>1. Head(outbox) \in Command /\ Tail(outbox) \in Seq(Command)
  BY <1>0, HeadTailProperties
<1>2. Append(queue, Head(outbox)) = queue \o <<Head(outbox)>> /\ <<Head(outbox)>> \in Seq(Command)
  BY <1>0, <1>1, AppendIsConcat
<1>3. <<Head(outbox)>> \o Tail(outbox) = outbox
  BY <1>0, <1>1
<1>4. (queue \o <<Head(outbox)>>) \o Tail(outbox) = queue \o (<<Head(outbox)>> \o Tail(outbox))
  BY <1>0, <1>1, <1>2, ConcatAssociative
<1> QED
  BY <1>0, <1>2, <1>3, <1>4 DEF InFlight

\* Sending: a command that finds room moves into the queue; one that finds
\* none is gone, and nothing is covered any more.
LEMMA SendStep == ASSUME TypeOK, TypeOK', Fence, Send PROVE Fence'
<1>0. /\ queue \in Seq(Command) /\ outbox \in Seq(Command) /\ outbox # <<>>
      /\ outbox' = Tail(outbox)
      /\ UNCHANGED <<slot, override, registry, preview, bridged, live, serial, staged, entries, engine>>
  BY DEF Send, TypeOK, ChannelTypeOK, session, tables, published, reclaimer
<1>1. CASE queue' = Append(queue, Head(outbox)) /\ UNCHANGED dropped
  <2>1. InFlight' = InFlight
    BY <1>1, SentStays
  <2>2. Held' = Held
    BY <1>0 DEF Held, SessionHeld, Retained, GraphOf, RackOf
  <2>3. KeepsHeld
    BY <2>2 DEF KeepsHeld, Fence, Safe
  <2>4. \A m \in Instances \ registry' : override'[m] = None
    BY <1>0 DEF Fence, Registered, Unknown
  <2> QED
    BY <1>0, <1>1, <2>1, <2>3, <2>4, QuietStep
<1>2. CASE dropped' = TRUE /\ UNCHANGED queue
  <2>1. ASSUME NEW i \in 1 .. Len(InFlight') PROVE \E j \in 1 .. Len(InFlight) : InFlight'[i] = InFlight[j]
    <3>1. /\ InFlight = queue \o outbox /\ InFlight' = queue \o Tail(outbox)
          /\ Len(queue) \in Nat /\ Len(outbox) \in Nat /\ Len(outbox) > 0
          /\ Len(Tail(outbox)) = Len(outbox) - 1
          /\ \A k \in 1 .. Len(outbox) - 1 : Tail(outbox)[k] = outbox[k + 1]
      BY <1>0, <1>2 DEF InFlight
    <3>2. Tail(outbox) \in Seq(Command)
      BY <1>0
    <3>3. i \in 1 .. Len(queue) + Len(outbox) - 1
      BY <1>0, <2>1, <3>1, <3>2
    <3>4. CASE i \in 1 .. Len(queue)
      BY <1>0, <3>1, <3>2, <3>4
    <3>5. CASE i \in Len(queue) + 1 .. Len(queue) + Len(outbox) - 1
      <4>1. InFlight'[i] = Tail(outbox)[i - Len(queue)]
        BY <1>0, <3>1, <3>2, <3>5
      <4>2. InFlight[i + 1] = outbox[i + 1 - Len(queue)]
        BY <1>0, <3>1, <3>5
      <4>3. Tail(outbox)[i - Len(queue)] = outbox[i - Len(queue) + 1]
        BY <3>1, <3>5
      <4>4. i + 1 \in 1 .. Len(InFlight) /\ i - Len(queue) + 1 = i + 1 - Len(queue)
        BY <1>0, <3>1, <3>5
      <4> QED
        BY <4>1, <4>2, <4>3, <4>4
    <3> QED
      BY <3>1, <3>3, <3>4, <3>5
  <2>2. Held' = Held /\ EngineHolds' = EngineHolds
    BY <1>0 DEF Held, SessionHeld, Retained, GraphOf, RackOf, SamplesOf, EngineHolds, engine, voices
  <2>3. Safe'
    <3>1. ASSUME NEW i \in 1 .. Len(InFlight') PROVE CommandHolds(InFlight'[i]) \subseteq Held'
      BY <2>1, <2>2 DEF Fence, Safe
    <3>2. EngineHolds' \subseteq Held'
      BY <2>2 DEF Fence, Safe
    <3> QED
      BY <3>1, <3>2 DEF Safe, CommandHolds
  <2>4. Registered'
    BY <1>0, <2>1 DEF Fence, Registered, Unknown, engine, voices
  <2>5. Shapes' /\ LiveLinked'
    BY <1>0, <2>1 DEF Fence, Shapes, LiveLinked, SamplesOf
  <2> QED
    BY <1>2, <2>3, <2>4, <2>5 DEF Fence
<1> QED
  BY <1>1, <1>2 DEF Send

-----------------------------------------------------------------------------
(* The engine.                                                             *)

\* A step of the engine takes k commands, none or one, off the front.
Takes(k) ==
    /\ Len(InFlight') = Len(InFlight) - k
    /\ \A i \in 1 .. Len(InFlight') : InFlight'[i] = InFlight[i + k]

\* What covered an object at position i + k now covers it at i; what covered
\* it for the engine still does unless the command taken is of that type.
LEMMA CoveredTaken ==
    ASSUME TypeOK, TypeOK', NEW k \in {0, 1}, Takes(k), entries' = entries,
           NEW o, NEW K, NEW i \in 0 .. Len(InFlight'),
           \/ Covered(o, i + k, K)
           \/ i = 0 /\ Covered(o, 0, K) /\ (k = 1 => InFlight[1].type \notin K)
    PROVE  Covered(o, i, K)'
<1>1. PICK j \in i + k + 1 .. Len(InFlight) :
         InFlight[j].type \in K /\ <<o, InFlight[j].serial>> \in entries
  BY InFlightType, InFlightTypeNext DEF Covered
<1>2. j - k \in i + 1 .. Len(InFlight') /\ InFlight'[j - k] = InFlight[j]
  BY InFlightType, InFlightTypeNext DEF Takes
<1> QED
  BY <1>1, <1>2 DEF Covered

\* What a command i + k links is linked at i.
LEMMA LinksTaken ==
    ASSUME TypeOK, TypeOK', NEW k \in {0, 1}, Takes(k), UNCHANGED session,
           NEW i \in 0 .. Len(InFlight'), NEW c, CommandLinked(c, i + k)
    PROVE  CommandLinked(c, i)'
<1>0. UNCHANGED <<slot, override, preview, bridged, live, serial, staged, entries>>
  BY DEF session, tables, published, reclaimer
<1>1. ASSUME NEW o, NEW K, Covered(o, i + k, K) PROVE Covered(o, i, K)'
  BY <1>0, <1>1, CoveredTaken
<1>2. GraphOf(live)' = GraphOf(live) /\ RackOf(live)' = RackOf(live)
  BY <1>0
<1>3. ASSUME NEW o, SampleLinked(o, i + k) PROVE SampleLinked(o, i)'
  BY <1>0, <1>1, <1>3 DEF SampleLinked
<1>4. ASSUME NEW o, PreviewLinked(o, i + k) PROVE PreviewLinked(o, i)'
  BY <1>0, <1>1, <1>4 DEF PreviewLinked
<1>5. BundleLinked(c.bundle, i)'
  <2>1. GraphLinked(c.bundle, i)' /\ RackLinked(c.bundle, i)' /\ BindsLinked(c.bundle, i)'
    BY <1>0, <1>1, <1>2 DEF CommandLinked, BundleLinked, GraphLinked, RackLinked, BindsLinked
  <2> QED
    BY <1>3, <2>1 DEF CommandLinked, BundleLinked
<1> QED
  BY <1>3, <1>4, <1>5 DEF CommandLinked

\* A step of the engine keeps the invariant if it reaches nothing new but
\* what is held, and what it reaches is linked.
LEMMA EngineStep ==
    ASSUME TypeOK, TypeOK', Fence, NEW k \in {0, 1}, Takes(k),
           UNCHANGED <<session, dropped>>,
           EngineHolds' \subseteq Held,
           \A n \in Instances \ registry : pluginVoices'[n] = {} /\ n \notin bundle'.binds,
           ~dropped => EngineLinked',
           ~dropped => /\ snap' <= applied'
                       /\ \/ applied' = applied /\ (k = 1 => InFlight[1].type \notin Fenced)
                          \/ applied' = applied /\ k = 0
                          \/ k = 1 /\ InFlight[1].type \in Fenced /\ applied' = InFlight[1].serial
    PROVE  Fence'
<1>0. UNCHANGED <<slot, override, registry, preview, bridged, live, serial, staged, entries>>
  BY DEF session, tables, published, reclaimer
<1>1. /\ Len(InFlight) \in Nat /\ Len(InFlight') \in Nat
      /\ \A i \in 1 .. Len(InFlight') : i + k \in 1 .. Len(InFlight) /\ InFlight'[i] = InFlight[i + k]
  BY InFlightType, InFlightTypeNext DEF Takes
<1>2. Held' = Held
  BY <1>0 DEF Held, SessionHeld, Retained, GraphOf, RackOf
<1>3. Safe'
  <2>1. ASSUME NEW i \in 1 .. Len(InFlight') PROVE CommandHolds(InFlight'[i]) \subseteq Held'
    BY <1>1, <1>2 DEF Fence, Safe
  <2>2. EngineHolds' \subseteq Held'
    BY <1>2
  <2> QED
    BY <2>1, <2>2 DEF Safe, CommandHolds
<1>4. Registered'
  BY <1>0, <1>1 DEF Fence, Registered, Unknown
<1>5. Shapes' /\ LiveLinked'
  BY <1>0, <1>1, SMTT(60) DEF Fence, Shapes, LiveLinked, SamplesOf
<1>6. ASSUME ~dropped PROVE Serials'
  <2>0. Serials /\ serial' = serial
    BY <1>0, <1>6 DEF Fence
  <2>1. \A i \in 1 .. Len(InFlight) : InFlight[i].serial \in Nat
    BY InFlightType DEF Command
  <2>2. snap \in Nat /\ applied \in Nat /\ serial \in Nat
    BY DEF TypeOK, EngineTypeOK, PublishTypeOK
  <2>3. snap' <= applied' /\ applied' <= serial'
    BY <1>1, <1>6, <2>0, <2>1, <2>2 DEF Serials, Takes
  <2>4. ASSUME NEW i \in 1 .. Len(InFlight'), InFlight'[i].type \in Fenced
        PROVE  applied' < InFlight'[i].serial
    <3>1. i + k \in 1 .. Len(InFlight) /\ InFlight'[i] = InFlight[i + k]
      BY <1>1
    <3>2. CASE applied' = applied
      BY <2>0, <2>4, <3>1, <3>2 DEF Serials
    <3>3. CASE k = 1 /\ InFlight[1].type \in Fenced /\ applied' = InFlight[1].serial
      <4>1. 1 \in 1 .. Len(InFlight) /\ i + k \in 1 + 1 .. Len(InFlight)
        BY <1>1, <3>1, <3>3
      <4> QED
        BY <2>0, <2>4, <3>1, <3>3, <4>1 DEF Serials
    <3> QED
      BY <1>6, <3>2, <3>3
  <2>5. ASSUME NEW i \in 1 .. Len(InFlight'), InFlight'[i].type \in Fenced,
               NEW j \in i + 1 .. Len(InFlight'), InFlight'[j].type \in Fenced
        PROVE  InFlight'[i].serial < InFlight'[j].serial
    <3>1. j \in 1 .. Len(InFlight') /\ j + k \in i + k + 1 .. Len(InFlight)
      BY <1>1, <2>5 DEF Takes
    <3> QED
      BY <1>1, <2>0, <2>5, <3>1 DEF Serials
  <2>6. ASSUME NEW i \in 1 .. Len(InFlight'), InFlight'[i].type \in Fenced
        PROVE  InFlight'[i].serial <= serial'
    BY <1>1, <2>0, <2>6 DEF Serials
  <2> QED
    BY <2>3, <2>4, <2>5, <2>6 DEF Serials
<1>7. ASSUME ~dropped PROVE Linked'
  <2>1. ASSUME NEW i \in 1 .. Len(InFlight'), NEW c, c = InFlight'[i] PROVE CommandLinked(c, i)'
    <3>1. i \in 0 .. Len(InFlight') /\ CommandLinked(c, i + k)
      BY <1>1, <1>7, <2>1 DEF Fence, Linked
    <3> QED
      BY <3>1, LinksTaken
  <2> QED
    BY <1>7, <2>1 DEF Linked
<1> QED
  BY <1>3, <1>4, <1>5, <1>6, <1>7 DEF Fence

\* What the engine reached stays linked unless the command taken was the one
\* to make it let go.
LEMMA StayTaken ==
    ASSUME TypeOK, TypeOK', NEW k \in {0, 1}, Takes(k), UNCHANGED session
    PROVE  /\ \A o : SampleLinked(o, 0) /\ (k = 1 => InFlight[1].type # "SetBundle")
                        => SampleLinked(o, 0)'
           /\ \A o : PreviewLinked(o, 0) /\ (k = 1 => InFlight[1].type \notin {"PlaySample", "StopSample"})
                        => PreviewLinked(o, 0)'
           /\ \A b : BundleLinked(b, 0) /\ (k = 1 => InFlight[1].type \notin {"SetBundle", "SwapBundle"})
                        => BundleLinked(b, 0)'
           /\ \A n, o : VoiceLinked(n, o) /\ (k = 1 => \/ InFlight[1].type # "SetBundle"
                                                     \/ n \notin InFlight[1].bundle.binds)
                        => VoiceLinked(n, o)'
<1>0. UNCHANGED <<slot, override, preview, bridged, live, serial, staged, entries>>
  BY DEF session, tables, published, reclaimer
<1>1. ASSUME NEW o, NEW K, Covered(o, 0, K), k = 1 => InFlight[1].type \notin K
      PROVE  Covered(o, 0, K)'
  <2>1. 0 \in 0 .. Len(InFlight')
    BY InFlightTypeNext
  <2> QED
    BY <1>0, <1>1, <2>1, CoveredTaken
<1>2. GraphOf(live)' = GraphOf(live) /\ RackOf(live)' = RackOf(live)
  BY <1>0
<1>3. ASSUME NEW o, SampleLinked(o, 0), k = 1 => InFlight[1].type # "SetBundle"
      PROVE  SampleLinked(o, 0)'
  BY <1>0, <1>1, <1>3 DEF SampleLinked
<1>4. ASSUME NEW o, PreviewLinked(o, 0), k = 1 => InFlight[1].type \notin {"PlaySample", "StopSample"}
      PROVE  PreviewLinked(o, 0)'
  BY <1>0, <1>1, <1>4 DEF PreviewLinked
<1>5. ASSUME NEW b, BundleLinked(b, 0), k = 1 => InFlight[1].type \notin {"SetBundle", "SwapBundle"}
      PROVE  BundleLinked(b, 0)'
  <2>1. GraphLinked(b, 0)' /\ RackLinked(b, 0)' /\ BindsLinked(b, 0)'
    BY <1>0, <1>1, <1>2, <1>5 DEF BundleLinked, GraphLinked, RackLinked, BindsLinked
  <2> QED
    BY <1>3, <1>5, <2>1 DEF BundleLinked
<1>6. ASSUME NEW n, NEW o, VoiceLinked(n, o),
             k = 1 => InFlight[1].type # "SetBundle" \/ n \notin InFlight[1].bundle.binds
      PROVE  VoiceLinked(n, o)'
  <2>1. CASE o = override[n]
    BY <1>0, <2>1 DEF VoiceLinked
  <2>2. ASSUME NEW j \in 1 .. Len(InFlight), InFlight[j].type = "SetBundle",
               n \in InFlight[j].bundle.binds, <<o, InFlight[j].serial>> \in entries
        PROVE  VoiceLinked(n, o)'
    <3>1. j - k \in 1 .. Len(InFlight') /\ InFlight'[j - k] = InFlight[j]
      BY <1>6, <2>2, InFlightType, InFlightTypeNext DEF Takes
    <3> QED
      BY <1>0, <2>2, <3>1 DEF VoiceLinked
  <2> QED
    BY <1>6, <2>1, <2>2 DEF VoiceLinked
<1> QED
  BY <1>3, <1>4, <1>5, <1>6

\* The engine pops the first command in flight.
LEMMA PopTakes ==
    ASSUME TypeOK, NEW t, Pop(t)
    PROVE  /\ Takes(1) /\ 1 \in 1 .. Len(InFlight) /\ InFlight[1] = Head(queue)
           /\ InFlight[1].type = t /\ UNCHANGED <<session, dropped, snap>>
<1>1. /\ queue \in Seq(Command) /\ outbox \in Seq(Command) /\ queue # <<>>
      /\ queue' = Tail(queue) /\ outbox' = outbox /\ Head(queue).type = t
      /\ UNCHANGED <<session, dropped, snap>>
  BY DEF Pop, TypeOK, ChannelTypeOK
<1>2. /\ Tail(queue) \in Seq(Command) /\ Len(Tail(queue)) = Len(queue) - 1
      /\ \A i \in 1 .. Len(Tail(queue)) : Tail(queue)[i] = queue[i + 1]
      /\ Len(queue) \in Nat /\ Len(queue) >= 1 /\ Len(outbox) \in Nat
  BY <1>1, HeadTailProperties
<1>3. /\ Len(InFlight) = Len(queue) + Len(outbox)
      /\ Len(InFlight') = Len(queue) - 1 + Len(outbox)
      /\ \A i \in 1 .. Len(queue) : InFlight[i] = queue[i]
      /\ \A i \in Len(queue) + 1 .. Len(queue) + Len(outbox) : InFlight[i] = outbox[i - Len(queue)]
      /\ \A i \in 1 .. Len(queue) - 1 : InFlight'[i] = queue[i + 1]
      /\ \A i \in Len(queue) .. Len(queue) - 1 + Len(outbox) : InFlight'[i] = outbox[i - (Len(queue) - 1)]
  <2>1. InFlight = queue \o outbox /\ InFlight' = Tail(queue) \o outbox
    BY <1>1 DEF InFlight
  <2>2. /\ Len(InFlight) = Len(queue) + Len(outbox)
        /\ \A i \in 1 .. Len(queue) + Len(outbox) :
              InFlight[i] = IF i <= Len(queue) THEN queue[i] ELSE outbox[i - Len(queue)]
    BY <1>1, <2>1, ConcatProperties
  <2>3. /\ Len(InFlight') = Len(Tail(queue)) + Len(outbox)
        /\ \A i \in 1 .. Len(Tail(queue)) + Len(outbox) :
              InFlight'[i] = IF i <= Len(Tail(queue)) THEN Tail(queue)[i] ELSE outbox[i - Len(Tail(queue))]
    BY <1>1, <1>2, <2>1, ConcatProperties
  <2> HIDE DEF InFlight
  <2>4. ASSUME NEW i \in Len(queue) .. Len(queue) - 1 + Len(outbox)
        PROVE  InFlight'[i] = outbox[i - (Len(queue) - 1)]
    BY <1>2, <2>3
  <2>5. ASSUME NEW i \in 1 .. Len(queue) - 1 PROVE InFlight'[i] = queue[i + 1]
    BY <1>2, <2>3
  <2> QED
    BY <1>2, <2>2, <2>3, <2>4, <2>5
<1>4. ASSUME NEW i \in 1 .. Len(InFlight') PROVE InFlight'[i] = InFlight[i + 1]
  <2>1. CASE i \in 1 .. Len(queue) - 1
    BY <1>2, <1>3, <2>1
  <2>2. CASE i \in Len(queue) .. Len(queue) - 1 + Len(outbox)
    <3>1. i - (Len(queue) - 1) = i + 1 - Len(queue)
      BY <1>2, <2>2
    <3> QED
      BY <1>2, <1>3, <2>2, <3>1
  <2> QED
    BY <1>2, <1>3, <2>1, <2>2
<1>5. InFlight[1] = Head(queue) /\ Len(InFlight') = Len(InFlight) - 1 /\ 1 \in 1 .. Len(InFlight)
  BY <1>1, <1>2, <1>3
<1> QED
  BY <1>1, <1>4, <1>5 DEF Takes

\* A voice of a bound instance starts on the override that is held and linked.
LEMMA PluginVoiceStarts ==
    ASSUME TypeOK, Fence, NEW m \in Instances, m \in bundle.binds, StartPluginVoice(m),
           override' = override
    PROVE  /\ m \in registry
           /\ \A n \in Instances : pluginVoices'[n] \subseteq pluginVoices[n] \cup Held
           /\ \A n \in Instances : n # m => pluginVoices'[n] = pluginVoices[n]
           /\ \A n \in Instances : \A o \in pluginVoices'[n] :
                o \in pluginVoices[n] \/ VoiceLinked(n, o)'
<1>1. m \in registry
  BY DEF Fence, Registered, Unknown
<1>2. \A n \in Instances : \/ pluginVoices'[n] = pluginVoices[n]
                           \/ n = m /\ pluginVoices'[n] = pluginVoices[n] \cup NonNull({override[m]})
  BY DEF StartPluginVoice, TypeOK, EngineTypeOK
<1>3. NonNull({override[m]}) \subseteq Held
  BY DEF Held, SessionHeld, NonNull
<1>4. \A n \in Instances : n # m => pluginVoices'[n] = pluginVoices[n]
  BY <1>2
<1> QED
  BY <1>1, <1>2, <1>3, <1>4 DEF VoiceLinked, NonNull

\* Applying a command: what it makes the engine reach it carried.
LEMMA DrainStep == ASSUME TypeOK, TypeOK', Fence, Drain PROVE Fence'
<1>1. PICK t \in CmdType : Pop(t)
  BY DEF Drain, CmdType, ApplySetBundle, ApplySwapBundle, ApplyPlaySample, ApplyStopSample,
     ApplyPreviewNote, ApplyPluginNote, ApplyTransportPlay, ApplyTransportStop
<1>2. /\ Takes(1) /\ 1 \in 1 .. Len(InFlight) /\ InFlight[1] = Head(queue)
      /\ InFlight[1].type = t /\ UNCHANGED <<session, dropped, snap>>
  BY <1>1, PopTakes
<1>3. PICK h \in Command : h = InFlight[1]
  BY <1>2, InFlightType
<1>4. /\ h = Head(queue) /\ h.type = t /\ h.serial \in Nat /\ applied \in Nat /\ serial \in Nat /\ snap \in Nat
      /\ bundle \in Bundle /\ pluginVoices \in [Instances -> SUBSET Buffers]
      /\ pluginVoices' \in [Instances -> SUBSET Buffers] /\ override' = override
  BY <1>2, <1>3 DEF Command, TypeOK, EngineTypeOK, PublishTypeOK, session, tables
<1>5. EngineHolds \subseteq Held /\ CommandHolds(h) \subseteq Held
  BY <1>2, <1>3 DEF Fence, Safe
<1>6. \A n \in Instances \ registry : n \notin h.bundle.binds /\ pluginVoices[n] = {} /\ n \notin bundle.binds
  BY <1>2, <1>3 DEF Fence, Registered, Unknown
<1>7. ASSUME ~dropped PROVE CommandLinked(h, 0)'
  <2>1. CommandLinked(h, 0 + 1) /\ 0 \in 0 .. Len(InFlight')
    BY <1>2, <1>3, <1>7, InFlightTypeNext DEF Fence, Linked
  <2> QED
    BY <1>2, <2>1, LinksTaken
<1>8. ~dropped => EngineLinked
  BY DEF Fence, Linked
<1>9. /\ \A o : SampleLinked(o, 0) /\ t # "SetBundle" => SampleLinked(o, 0)'
      /\ \A o : PreviewLinked(o, 0) /\ t \notin {"PlaySample", "StopSample"} => PreviewLinked(o, 0)'
      /\ \A b : BundleLinked(b, 0) /\ t \notin {"SetBundle", "SwapBundle"} => BundleLinked(b, 0)'
      /\ \A n, o : VoiceLinked(n, o) /\ (t # "SetBundle" \/ n \notin h.bundle.binds) => VoiceLinked(n, o)'
  BY <1>2, <1>3, StayTaken
<1>10. ASSUME t \in Fenced, ApplySerial, ~dropped
       PROVE  applied' = InFlight[1].serial /\ snap' <= applied'
  BY <1>2, <1>3, <1>4, <1>10 DEF ApplySerial, MaxOf, Fence, Serials
<1>11. ASSUME applied' = applied, ~dropped PROVE snap' <= applied'
  BY <1>2, <1>11 DEF Fence, Serials
<1>12. CASE ApplySetBundle
  <2>1. /\ t = "SetBundle" /\ ApplySerial /\ bundle' = h.bundle
        /\ chVoices' = {} /\ seqVoices' = {} /\ oneShot' = None
        /\ \A n \in Instances : pluginVoices'[n] = IF n \in h.bundle.binds THEN {} ELSE pluginVoices[n]
    BY <1>4, <1>12 DEF ApplySetBundle, Pop, SeqVoicesAfterReset, PluginVoicesAfterReset
  <2>2. EngineHolds' \subseteq Held
    BY <1>5, <2>1 DEF EngineHolds, CommandHolds, NonNull, GraphOf, RackOf, SamplesOf
  <2>3. \A n \in Instances \ registry : pluginVoices'[n] = {} /\ n \notin bundle'.binds
    BY <1>6, <2>1
  <2>4. ASSUME ~dropped PROVE EngineLinked'
    <3>1. BundleLinked(bundle, 0)'
      BY <1>7, <2>1, <2>4 DEF CommandLinked, BundleLinked, GraphLinked, RackLinked, BindsLinked
    <3> QED
      BY <1>8, <1>9, <2>1, <2>4, <3>1 DEF EngineLinked
  <2> QED
    BY <1>2, <1>10, <2>1, <2>2, <2>3, <2>4, EngineStep DEF Fenced
<1>13. CASE ApplySwapBundle
  <2>1. t = "SwapBundle" /\ ApplySerial /\ bundle' = h.bundle /\ UNCHANGED voices
    BY <1>4, <1>13 DEF ApplySwapBundle, Pop
  <2>2. EngineHolds' \subseteq Held
    BY <1>5, <2>1 DEF EngineHolds, CommandHolds, NonNull, GraphOf, RackOf, SamplesOf, voices
  <2>3. \A n \in Instances \ registry : pluginVoices'[n] = {} /\ n \notin bundle'.binds
    BY <1>6, <2>1 DEF voices
  <2>4. ASSUME ~dropped PROVE EngineLinked'
    <3>1. BundleLinked(bundle, 0)'
      BY <1>7, <2>1, <2>4 DEF CommandLinked, BundleLinked, GraphLinked, RackLinked, BindsLinked
    <3> QED
      BY <1>8, <1>9, <2>1, <2>4, <3>1 DEF EngineLinked, voices
  <2> QED
    BY <1>2, <1>10, <2>1, <2>2, <2>3, <2>4, EngineStep DEF Fenced
<1>14. CASE ApplyPlaySample \/ ApplyStopSample
  <2>1. /\ t \in {"PlaySample", "StopSample"} /\ ApplySerial
        /\ oneShot' = None \/ (t = "PlaySample" /\ oneShot' = h.sample)
        /\ UNCHANGED <<bundle, chVoices, seqVoices, pluginVoices>>
    BY <1>4, <1>14 DEF ApplyPlaySample, ApplyStopSample, Pop
  <2>2. EngineHolds' \subseteq Held
    BY <1>5, <2>1 DEF EngineHolds, CommandHolds, NonNull, GraphOf, RackOf, SamplesOf
  <2>3. \A n \in Instances \ registry : pluginVoices'[n] = {} /\ n \notin bundle'.binds
    BY <1>6, <2>1
  <2>4. ASSUME ~dropped PROVE EngineLinked'
    <3>1. BundleLinked(bundle, 0)'
      <4>1. \A b : b = bundle => BundleLinked(b, 0)'
        BY <1>8, <1>9, <2>1, <2>4 DEF EngineLinked
      <4> QED
        BY <2>1, <4>1 DEF BundleLinked, GraphLinked, RackLinked, BindsLinked
    <3>2. oneShot' # None => PreviewLinked(oneShot, 0)'
      BY <1>4, <1>7, <2>1, <2>4 DEF CommandLinked, PreviewLinked
    <3> QED
      BY <1>8, <1>9, <2>1, <2>4, <3>1, <3>2 DEF EngineLinked
  <2> QED
    BY <1>2, <1>10, <2>1, <2>2, <2>3, <2>4, EngineStep DEF Fenced
<1>u. ASSUME t \notin Fenced, UNCHANGED <<bundle, applied>>,
             chVoices' \subseteq chVoices \cup (IF t = "PreviewNote" THEN {h.sample} ELSE {}),
             UNCHANGED <<seqVoices, oneShot>>,
             \/ UNCHANGED pluginVoices
             \/ \E m \in Instances : m \in bundle.binds /\ StartPluginVoice(m)
      PROVE  Fence'
  <2>1. /\ \A n \in Instances : pluginVoices'[n] \subseteq pluginVoices[n] \cup Held
        /\ \A n \in Instances \ registry : pluginVoices'[n] = pluginVoices[n]
        /\ \A n \in Instances : \A o \in pluginVoices'[n] : o \in pluginVoices[n] \/ VoiceLinked(n, o)'
    BY <1>4, <1>u, PluginVoiceStarts
  <2>2. EngineHolds' \subseteq Held
    <3>1. t = "PreviewNote" => h.sample \in Held
      BY <1>4, <1>5 DEF CommandHolds, NonNull, Command
    <3>2. chVoices' \cup seqVoices' \cup NonNull({oneShot'}) \subseteq Held
      BY <1>5, <1>u, <3>1 DEF EngineHolds
    <3>3. \A n \in Instances : pluginVoices'[n] \subseteq Held
      BY <1>5, <2>1 DEF EngineHolds
    <3>4. (GraphOf(bundle) \cup RackOf(bundle) \cup SamplesOf(bundle) \cup (bundle.binds \cap Bridges))'
             \subseteq Held
      BY <1>5, <1>u DEF EngineHolds, GraphOf, RackOf, SamplesOf
    <3> QED
      BY <3>2, <3>3, <3>4 DEF EngineHolds
  <2>3. \A n \in Instances \ registry : pluginVoices'[n] = {} /\ n \notin bundle'.binds
    BY <1>6, <1>u, <2>1
  <2>4. ASSUME ~dropped PROVE EngineLinked'
    <3>1. BundleLinked(bundle, 0)'
      <4>1. \A b : b = bundle => BundleLinked(b, 0)'
        BY <1>4, <1>8, <1>9, <1>u, <2>4 DEF EngineLinked, Fenced
      <4> QED
        BY <1>u, <4>1 DEF BundleLinked, GraphLinked, RackLinked, BindsLinked
    <3>2. \A o \in chVoices' \cup seqVoices' : SampleLinked(o, 0)'
      BY <1>4, <1>7, <1>8, <1>9, <1>u, <2>4 DEF CommandLinked, EngineLinked, Fenced
    <3>3. oneShot' # None => PreviewLinked(oneShot, 0)'
      <4>1. \A o : o = oneShot /\ o # None => PreviewLinked(o, 0)'
        BY <1>8, <1>9, <1>u, <2>4 DEF EngineLinked, Fenced
      <4> QED
        BY <1>u, <4>1 DEF PreviewLinked
    <3>4. \A n \in Instances : \A o \in pluginVoices'[n] : VoiceLinked(n, o)'
      BY <1>8, <1>9, <1>u, <2>1, <2>4 DEF EngineLinked, Fenced
    <3> QED
      BY <3>1, <3>2, <3>3, <3>4 DEF EngineLinked
  <2> QED
    BY <1>2, <1>11, <1>u, <2>2, <2>3, <2>4, EngineStep
<1>15. CASE ApplyPreviewNote
  <2>1. t = "PreviewNote" /\ chVoices' = chVoices \cup {h.sample}
        /\ UNCHANGED <<bundle, applied, seqVoices, pluginVoices, oneShot>>
    BY <1>4, <1>15 DEF ApplyPreviewNote, Pop
  <2> QED
    BY <1>u, <2>1 DEF Fenced
<1>16. CASE ApplyPluginNote
  <2>1. t = "PluginNote" /\ UNCHANGED <<bundle, applied, chVoices, seqVoices, oneShot>>
        /\ (UNCHANGED pluginVoices \/ \E m \in Instances : m \in bundle.binds /\ StartPluginVoice(m))
    BY <1>4, <1>16 DEF ApplyPluginNote, Pop
  <2> QED
    BY <1>u, <2>1 DEF Fenced
<1>17. CASE ApplyTransportPlay \/ ApplyTransportStop
  <2>1. t \in {"TransportPlay", "TransportStop"} /\ chVoices' \subseteq chVoices
        /\ UNCHANGED <<bundle, applied, seqVoices, pluginVoices, oneShot>>
    BY <1>4, <1>17 DEF ApplyTransportPlay, ApplyTransportStop, Pop, voices
  <2> QED
    BY <1>u, <2>1 DEF Fenced
<1> QED
  BY <1>12, <1>13, <1>14, <1>15, <1>16, <1>17 DEF Drain

\* Rendering: voices start on what the bundle and the overrides hold, or
\* end; the snapshot reports what has been applied.
LEMMA RenderStep ==
    ASSUME TypeOK, TypeOK', Fence, StartPull \/ EndDrain \/ Render \/ EndPull
    PROVE  Fence'
<1>1. /\ UNCHANGED <<session, outbox, queue, dropped, bundle, applied>>
      /\ snap' \in {snap, applied}
  BY DEF StartPull, EndDrain, EndPull, SnapshotSerial, Render, Rendering, TriggerChannel, TriggerSeq,
         TriggerPlugin, VoiceEnds, ParkTransport
<1>2. /\ Len(InFlight) \in Nat /\ 0 \in 0 .. Len(InFlight) /\ override' = override
      /\ snap \in Nat /\ applied \in Nat /\ pluginVoices \in [Instances -> SUBSET Buffers]
  BY <1>1, InFlightType DEF TypeOK, EngineTypeOK, session, tables
<1>3. InFlight' = InFlight
  BY <1>1 DEF InFlight
<1>4. Takes(0)
  <2>1. \A i \in 1 .. Len(InFlight') : i + 0 = i
    BY <1>2, <1>3
  <2> QED
    BY <1>2, <1>3, <2>1 DEF Takes
<1>5. /\ \A o : SampleLinked(o, 0) => SampleLinked(o, 0)'
      /\ \A o : PreviewLinked(o, 0) => PreviewLinked(o, 0)'
      /\ \A b : BundleLinked(b, 0) => BundleLinked(b, 0)'
      /\ \A n, o : VoiceLinked(n, o) => VoiceLinked(n, o)'
  BY <1>1, <1>4, StayTaken
<1>6. EngineHolds \subseteq Held /\ (~dropped => EngineLinked)
  BY DEF Fence, Safe, Linked
<1>7. ASSUME chVoices' \cup seqVoices' \subseteq chVoices \cup seqVoices \cup SamplesOf(bundle),
             oneShot' \in {oneShot, None},
             \/ \A n \in Instances : pluginVoices'[n] \subseteq pluginVoices[n]
             \/ \E m \in Instances : m \in bundle.binds /\ StartPluginVoice(m)
      PROVE  Fence'
  <2>1. /\ \A n \in Instances : pluginVoices'[n] \subseteq pluginVoices[n] \cup Held
        /\ \A n \in Instances \ registry : pluginVoices'[n] \subseteq pluginVoices[n]
        /\ \A n \in Instances : \A o \in pluginVoices'[n] : o \in pluginVoices[n] \/ VoiceLinked(n, o)'
    BY <1>2, <1>7, PluginVoiceStarts
  <2>2. EngineHolds' \subseteq Held
    <3>1. chVoices' \cup seqVoices' \cup NonNull({oneShot'}) \subseteq Held
      BY <1>6, <1>7 DEF EngineHolds, NonNull
    <3>2. \A n \in Instances : pluginVoices'[n] \subseteq Held
      BY <1>6, <2>1 DEF EngineHolds
    <3>3. (GraphOf(bundle) \cup RackOf(bundle) \cup SamplesOf(bundle) \cup (bundle.binds \cap Bridges))'
             \subseteq Held
      BY <1>1, <1>6 DEF EngineHolds, GraphOf, RackOf, SamplesOf
    <3> QED
      BY <3>1, <3>2, <3>3 DEF EngineHolds
  <2>3. \A n \in Instances \ registry : pluginVoices'[n] = {} /\ n \notin bundle'.binds
    BY <1>1, <2>1 DEF Fence, Registered, Unknown
  <2>4. ASSUME ~dropped PROVE EngineLinked'
    <3>1. BundleLinked(bundle, 0)'
      <4>1. \A b : b = bundle => BundleLinked(b, 0)'
        BY <1>5, <1>6, <2>4 DEF EngineLinked
      <4> QED
        BY <1>1, <4>1 DEF BundleLinked, GraphLinked, RackLinked, BindsLinked
    <3>2. \A o \in chVoices' \cup seqVoices' : SampleLinked(o, 0)'
      BY <1>5, <1>6, <1>7, <2>4 DEF EngineLinked, BundleLinked
    <3>3. oneShot' # None => PreviewLinked(oneShot, 0)'
      <4>1. \A o : o = oneShot /\ o # None => PreviewLinked(o, 0)'
        BY <1>5, <1>6, <2>4 DEF EngineLinked
      <4> QED
        BY <1>7, <4>1 DEF PreviewLinked
    <3>4. \A n \in Instances : \A o \in pluginVoices'[n] : VoiceLinked(n, o)'
      BY <1>5, <1>6, <2>1, <2>4 DEF EngineLinked
    <3> QED
      BY <3>1, <3>2, <3>3, <3>4 DEF EngineLinked
  <2>5. ~dropped => snap' <= applied'
    BY <1>1, <1>2 DEF Fence, Serials
  <2> QED
    BY <1>1, <1>4, <2>2, <2>3, <2>4, <2>5, EngineStep
<1>8. CASE StartPull \/ EndDrain \/ EndPull
  BY <1>7, <1>8 DEF StartPull, EndDrain, EndPull, voices
<1>9. ASSUME NEW s \in Slots, TriggerChannel(s) \/ TriggerSeq(s) PROVE Fence'
  <2>1. bundle.samples[s] # None => bundle.samples[s] \in SamplesOf(bundle)
    BY DEF SamplesOf
  <2> QED
    BY <1>7, <1>9, <2>1 DEF TriggerChannel, TriggerSeq
<1>10. ASSUME NEW n \in Instances, TriggerPlugin(n) PROVE Fence'
  BY <1>7, <1>10 DEF TriggerPlugin
<1>11. CASE VoiceEnds
  BY <1>2, <1>7, <1>11 DEF VoiceEnds
<1>12. CASE ParkTransport
  BY <1>7, <1>12 DEF ParkTransport, voices
<1> QED
  BY <1>8, <1>9, <1>10, <1>11, <1>12 DEF Render

-----------------------------------------------------------------------------
(* Every handler, and the theorem.                                         *)

\* A handler that publishes from the tables as they are, but for one sample.
LEMMA TableStep ==
    ASSUME TypeOK, TypeOK', Fence, outbox = <<>>,
           NEW before \in {<<>>, Stop},
           NEW samples \in [Slots -> Buffers \cup {None}], NEW parked,
           PublishBundle(before, samples, nodes, bridged, parked), staged \subseteq parked,
           \A s \in Slots : slot[s] \in parked \cup {None} \/ samples[s] = slot[s],
           UNCHANGED <<override, registry, preview, queue, dropped, engine>>
    PROVE  Fence'
<1>1. nodes \in SUBSET Instances /\ bridged \in SUBSET Bridges /\ nodes \subseteq registry
  BY DEF TypeOK, TablesTypeOK
<1>2. \A n \in Instances \ registry' : override'[n] = None
  BY DEF Fence, Registered, Unknown
<1>3. /\ \A s \in Slots : slot[s] \in parked \cup {None} \cup {samples[r] : r \in Slots}
      /\ \A n \in Instances : override'[n] = override[n]
      /\ bridged \subseteq bridged \cup parked
  OBVIOUS
<1>4. PICK ns \in SUBSET Instances : ns = nodes
  BY <1>1
<1>5. PICK bs \in SUBSET Bridges : bs = bridged
  BY <1>1
<1> QED
  BY <1>1, <1>2, <1>3, <1>4, <1>5, BundleStep

\* Staging parks what it is given along with what was staged.
LEMMA StageParks ==
    ASSUME NEW S
    PROVE  staged \subseteq Stage(S) /\ \A o \in S : o \in Stage(S) \cup {None}
BY DEF Stage, NonNull

\* Every handler keeps the invariant.
LEMMA HandlerStep == ASSUME TypeOK, Handler, Fence PROVE Fence'
<1>t. TypeOK'
  BY HandlerKeepsTypes
<1>0. /\ slot \in [Slots -> Buffers \cup {None}] /\ override \in [Instances -> Buffers \cup {None}]
      /\ nodes \in SUBSET Instances /\ bridged \in SUBSET Bridges /\ nodes \subseteq registry
      /\ \A n \in Instances \ registry : override[n] = None
  BY DEF TypeOK, TablesTypeOK, Fence, Registered, Unknown
<1>s. \A s \in Slots : slot[s] \in staged \cup {None} \/ slot[s] = slot[s]
  OBVIOUS
<1>1. CASE StructuralEdit \/ FinishLoad
  <2>1. PICK before \in {<<>>, Stop} : PublishBundle(before, slot, nodes, bridged, staged)
    BY <1>1 DEF StructuralEdit, FinishLoad
  <2> QED
    BY <1>t, <1>0, <1>1, <2>1, TableStep DEF StructuralEdit, FinishLoad, CanPublish, Idle
<1>2. CASE ReplaceProject
  <2>1. PICK table \in [Slots -> FreshBuffers \cup {None}] :
          PublishBundle(Stop, table, {}, {}, Stage({slot[s] : s \in Slots} \cup bridged))
    BY <1>2 DEF ReplaceProject
  <2>2. table \in [Slots -> Buffers \cup {None}]
    BY DEF FreshBuffers
  <2>3. PICK parked \in {Stage({slot[s] : s \in Slots} \cup bridged)} : TRUE
    OBVIOUS
  <2>4. /\ staged \subseteq parked /\ bridged \subseteq {} \cup parked
        /\ \A s \in Slots : slot[s] \in parked \cup {None} \cup {table[r] : r \in Slots}
    <3>1. None \notin bridged
      BY <1>0, ObjectsAssumption
    <3>2. \A o \in {slot[s] : s \in Slots} \cup bridged : o \in parked \cup {None}
      BY <2>3, StageParks
    <3> QED
      BY <2>3, <3>1, <3>2, StageParks
  <2>5. /\ UNCHANGED <<override, registry, preview, queue, dropped, engine>> /\ outbox = <<>>
        /\ PublishBundle(Stop, table, {}, {}, parked)
    BY <1>2, <2>1, <2>3 DEF ReplaceProject, CanPublish, Idle
  <2> QED
    BY <1>t, <1>0, <2>2, <2>4, <2>5, BundleStep
<1>3. CASE BeginLoad
  BY <1>t, <1>3, BeginLoadStep
<1>5. ASSUME NEW n \in Instances, LoadInstance(n) PROVE Fence'
  BY <1>t, <1>5, LoadInstanceStep
<1>g. ASSUME NEW ns \in SUBSET Instances, NEW bs \in SUBSET Bridges, NEW parked,
             PublishGraphOrBundle(ns, bs, parked), bridged \subseteq bs \cup parked, outbox = <<>>,
             UNCHANGED <<override, preview, queue, dropped, engine>>,
             registry \subseteq registry', ns \subseteq registry'
      PROVE  Fence'
  BY <1>t, <1>g, GraphOrBundleStep
<1>6. ASSUME NEW n \in Instances, AddInstance(n) PROVE Fence'
  BY <1>0, <1>6, <1>g DEF AddInstance, CanPublish, Idle
<1>7. ASSUME NEW n \in Instances, SetOverride(n) \/ ClearOverride(n) PROVE Fence'
  <2>1. PICK parked \in {Stage({override[n]})} :
          PublishBundle(Stop, slot, nodes, bridged, parked)
    BY <1>7 DEF SetOverride, ClearOverride
  <2>2. /\ UNCHANGED <<registry, preview, queue, dropped, engine>> /\ outbox = <<>> /\ n \in nodes
    BY <1>7 DEF SetOverride, ClearOverride, CanPublish, Idle
  <2>3. staged \subseteq parked /\ override[n] \in parked \cup {None}
    BY <2>1, StageParks
  <2>4. \A m \in Instances : m # n => override'[m] = override[m]
    BY <1>0, <1>7 DEF SetOverride, ClearOverride
  <2>5. /\ \A m \in Instances : \/ override'[m] = override[m]
                                \/ m \in nodes /\ override[m] \in parked \cup {None}
        /\ \A m \in Instances \ registry' : override'[m] = None
    BY <1>0, <2>2, <2>3, <2>4
  <2>6. PICK samples \in [Slots -> Buffers \cup {None}] : samples = slot
    BY <1>0
  <2>7. /\ \A s \in Slots : slot[s] \in parked \cup {None} \cup {samples[r] : r \in Slots}
        /\ PublishBundle(Stop, samples, nodes, bridged, parked)
        /\ bridged \subseteq bridged \cup parked /\ registry \subseteq registry' /\ nodes \subseteq registry'
    BY <1>0, <2>1, <2>2, <2>6
  <2> QED
    <3>1. UNCHANGED <<preview, queue, dropped, engine>> /\ outbox = <<>> /\ staged \subseteq parked
      BY <2>2, <2>3
    <3>2. BundleReady(Stop, samples, nodes, bridged, parked)
      BY <2>5, <2>7, <3>1, Zenon DEF BundleReady
    <3> QED
      BY <1>t, <1>0, <3>2, ReadyStep
<1>9. ASSUME NEW x \in Bridges, LoadBridge(x) \/ AddBridge(x) PROVE Fence'
  BY <1>0, <1>9, <1>g DEF LoadBridge, AddBridge, CanPublish, Idle
<1>e. CASE LoadInProcess
  BY <1>0, <1>e, <1>g DEF LoadInProcess
<1>11. ASSUME NEW x \in Bridges, BridgeOn(x) \/ BridgeOff(x) PROVE Fence'
  <2>1. PICK bs \in SUBSET Bridges, parked \in SUBSET (staged \cup {x}) :
          /\ PublishBundle(Stop, slot, nodes, bs, parked)
          /\ staged \subseteq parked /\ bridged \subseteq bs \cup parked
    BY <1>0, <1>11 DEF BridgeOn, BridgeOff
  <2>2. UNCHANGED <<override, registry, preview, queue, dropped, engine>> /\ outbox = <<>>
    BY <1>11 DEF BridgeOn, BridgeOff, CanPublish, Idle
  <2>3. \A s \in Slots : slot[s] \in parked \cup {None} \cup {slot[r] : r \in Slots}
    OBVIOUS
  <2> QED
    BY <1>t, <1>0, <2>1, <2>2, <2>3, BundleStep
<1>r. ASSUME NEW s \in Slots, NEW b \in Buffers \cup {None},
             PublishBundle(Stop, [slot EXCEPT ![s] = b], nodes, bridged, Stage({slot[s]})),
             outbox = <<>>, UNCHANGED <<override, registry, preview, queue, dropped, engine>>
      PROVE  Fence'
  <2>1. PICK parked \in {Stage({slot[s]})} : TRUE
    OBVIOUS
  <2>2. PICK samples \in [Slots -> Buffers \cup {None}] : samples = [slot EXCEPT ![s] = b]
    BY <1>0
  <2>3. staged \subseteq parked /\ slot[s] \in parked \cup {None}
    BY <2>1, StageParks
  <2>4. \A q \in Slots : slot[q] \in parked \cup {None} \/ samples[q] = slot[q]
    BY <1>0, <2>2, <2>3
  <2> QED
    BY <1>t, <1>r, <2>1, <2>2, <2>3, <2>4, TableStep
<1>13. ASSUME NEW s \in Slots, LoadSample(s) \/ ClearSlot(s) \/ EditSample(s) PROVE Fence'
  <2>1. PICK b \in Buffers \cup {None} :
          PublishBundle(Stop, [slot EXCEPT ![s] = b], nodes, bridged, Stage({slot[s]}))
    BY <1>13 DEF LoadSample, ClearSlot, EditSample, ReplaceSampleBuffer, FreshBuffers
  <2> QED
    BY <1>13, <1>r, <2>1 DEF LoadSample, ClearSlot, EditSample, CanPublish, Idle
<1>16. CASE EditGraph
  BY <1>0, <1>16, <1>g DEF EditGraph, CanPublish, Idle
<1>17. CASE Undo \/ Redo
  <2>1. PICK e \in HistoryEntry : Replay(e, e.before) \/ Replay(e, e.after)
    <3>1. CASE Undo
      BY <3>1 DEF Undo, TypeOK, HistoryTypeOK
    <3>2. CASE Redo
      BY <3>2 DEF Redo, TypeOK, HistoryTypeOK
    <3> QED
      BY <1>17, <3>1, <3>2
  <2>2. UNCHANGED <<override, registry, preview, queue, dropped, engine>> /\ outbox = <<>>
    BY <1>17 DEF Undo, Redo, CanPublish, Idle
  <2>3. ASSUME NEW b \in {e.before, e.after}, e # GraphOp, ReplaceSampleBuffer(e.slot, b)
        PROVE  Fence'
    <3>1. e.slot \in Slots /\ b \in Buffers \cup {None}
      BY <2>1, <2>3 DEF HistoryEntry
    <3> QED
      BY <1>r, <2>2, <2>3, <3>1 DEF ReplaceSampleBuffer
  <2>4. CASE e = GraphOp /\ PublishGraphOrBundle(nodes, bridged, {})
    BY <1>0, <1>g, <2>2, <2>4
  <2> QED
    BY <2>1, <2>3, <2>4 DEF Replay
<1>19. CASE RemoveNode
  <2>1. ASSUME NEW x \in bridged, PublishGraphOrBundle(nodes, bridged \ {x}, {x}) PROVE Fence'
    BY <1>0, <1>19, <1>g, <2>1 DEF RemoveNode, CanPublish, Idle
  <2>2. ASSUME NEW n \in nodes, PublishGraphOrBundle(nodes \ {n}, bridged, {}) PROVE Fence'
    BY <1>0, <1>19, <1>g, <2>2 DEF RemoveNode, CanPublish, Idle
  <2>3. CASE PublishGraphOrBundle(nodes, bridged, {})
    BY <1>0, <1>19, <1>g, <2>3 DEF RemoveNode, CanPublish, Idle
  <2> QED
    BY <1>19, <2>1, <2>2, <2>3 DEF RemoveNode
<1>20. CASE PreviewFile \/ StopPreview
  <2>1. serial + 1 \in Nat
    BY DEF TypeOK, PublishTypeOK
  <2>2. PICK c \in Command :
          /\ outbox' = <<c>>
          /\ \/ c = [Cmd("PlaySample") EXCEPT !.serial = serial + 1, !.sample = preview']
             \/ preview' = None /\ c = [Cmd("StopSample") EXCEPT !.serial = serial + 1]
    <3>1. CASE PreviewFile
      <4>1. PICK b \in Buffers : preview' = b
              /\ outbox' = <<[Cmd("PlaySample") EXCEPT !.serial = serial + 1, !.sample = b]>>
        BY <3>1 DEF PreviewFile, FreshBuffers
      <4>2. [Cmd("PlaySample") EXCEPT !.serial = serial + 1, !.sample = b] \in Command
        BY <2>1, SampleCommandType
      <4> QED
        BY <3>1, <4>1, <4>2
    <3>2. CASE StopPreview
      <4>1. [Cmd("StopSample") EXCEPT !.serial = serial + 1] \in Command
        BY <2>1, BundleCommandType, NoBundleType
      <4> QED
        BY <3>2, <4>1 DEF StopPreview
    <3> QED
      BY <1>20, <3>1, <3>2
  <2>3. /\ c.type \in {"PlaySample", "StopSample"} /\ c.bundle = NoBundle /\ c.serial = serial + 1
        /\ c.sample = preview' /\ (c.type = "StopSample" => c.sample = None)
    BY <2>2 DEF Cmd
  <2>4. /\ serial' = serial + 1 /\ outbox = <<>>
        /\ entries' = entries \cup Retire(NonNull({preview}), serial + 1)
        /\ UNCHANGED <<slot, override, registry, bridged, live, staged, queue, dropped, engine>>
    BY <1>20 DEF PreviewFile, StopPreview, CanPublish, Idle, NonNull
  <2> QED
    BY <1>t, <2>2, <2>3, <2>4, PreviewStep
<1>22. ASSUME NEW s \in Slots, PreviewNote(s) PROVE Fence'
  BY <1>t, <1>22, UnfencedStep DEF PreviewNote
<1>23. CASE PreviewPluginNote \/ Play \/ StopTransport
  <2>1. PICK type \in {"PluginNote", "TransportPlay", "TransportStop"} : SendUnfenced(Cmd(type))
    BY <1>23 DEF PreviewPluginNote, Play, StopTransport
  <2>2. PICK c \in Command : c = Cmd(type)
    BY CmdInCommand DEF CmdType
  <2>3. type \notin Fenced \cup {"PreviewNote"}
    BY DEF Fenced
  <2> QED
    BY <1>t, <2>1, <2>2, <2>3, UnfencedStep
<1> QED
  BY <1>1, <1>2, <1>3, <1>5, <1>6, <1>7, <1>9, <1>e, <1>11, <1>13, <1>16, <1>17, <1>19, <1>20,
     <1>22, <1>23 DEF Handler

\* Fence is inductive.
LEMMA FenceStep == ASSUME TypeOK, TypeOK', Fence, [Next]_vars PROVE Fence'
<1>1. CASE Next
  BY <1>1, HandlerStep, SendStep, SweepStep, DrainStep, RenderStep DEF Next
<1>2. CASE UNCHANGED vars
  <2>1. /\ UNCHANGED <<session, outbox, queue, dropped, engine>>
        /\ UNCHANGED <<slot, override, registry, preview, bridged, live, serial, staged, entries>>
    BY <1>2 DEF vars, session, tables, published, reclaimer
  <2>2. InFlight' = InFlight
    BY <2>1 DEF InFlight
  <2>3. Held' = Held
    BY <2>1 DEF Held, SessionHeld, Retained, GraphOf, RackOf
  <2>4. KeepsHeld /\ \A m \in Instances \ registry' : override'[m] = None
    BY <2>1, <2>3 DEF KeepsHeld, Fence, Safe, Registered, Unknown
  <2> QED
    BY <2>1, <2>2, <2>4, QuietStep
<1> QED
  BY <1>1, <1>2

\* The invariant holds of the first state: nothing is in flight, nothing is reached.
LEMMA FenceInit == Init => Fence
<1> SUFFICES ASSUME Init PROVE Fence
  OBVIOUS
<1>1. InFlight = <<>> /\ Len(InFlight) = 0
  BY DEF Init, InFlight
<1>2. GraphOf(NoBundle) = {} /\ RackOf(NoBundle) = {} /\ SamplesOf(NoBundle) = {} /\ NoBundle.binds = {}
  BY DEF NoBundle, GraphOf, RackOf, SamplesOf
<1>3. Safe
  BY <1>1, <1>2 DEF Init, Safe, EngineHolds, NonNull
<1>4. Registered /\ LiveLinked /\ Shapes
  BY <1>1, <1>2 DEF Init, Registered, Unknown, LiveLinked, Shapes
<1>5. Serials
  BY <1>1 DEF Init, Serials
<1>6. Linked
  BY <1>1, <1>2 DEF Init, Linked, EngineLinked, BundleLinked, GraphLinked, RackLinked, BindsLinked
<1> QED
  BY <1>3, <1>4, <1>5, <1>6 DEF Fence

\* The inductive invariant holds throughout: everything the engine reaches, at
\* once or by a command in flight, is held outside the undo history, and its
\* retirement, if it has been retired, is covered by a command in flight.
THEOREM FenceHolds == Spec => []Fence
<1>1. Init => Fence
  BY FenceInit
<1>2. TypeOK /\ TypeOK' /\ Fence /\ [Next]_vars => Fence'
  BY FenceStep
<1> QED
  BY <1>1, <1>2, TypeCorrect, PTL DEF Spec

\* The fence is safe: whatever the interleaving of handlers, pulls, lost
\* commands and sweeps, the audio thread never reaches a destroyed object.
THEOREM Safety == Spec => []NoUseAfterFree
<1>1. Fence => NoUseAfterFree
  <2>1. EngineReach \subseteq EngineHolds
    BY DEF EngineReach, EngineHolds
  <2>2. Held \subseteq Owned
    BY DEF Held, Owned
  <2> QED
    BY <2>1, <2>2 DEF Fence, Safe, NoUseAfterFree
<1> QED
  BY <1>1, FenceHolds, PTL

\* Nor does a command that is still in the queue point to one.
THEOREM NoDangling == Spec => []NoDanglingCommand
<1>1. TypeOK /\ Fence => NoDanglingCommand
  <2> SUFFICES ASSUME TypeOK, Fence PROVE Carried(queue) \subseteq Owned
    BY DEF NoDanglingCommand
  <2>1. Held \subseteq Owned
    BY DEF Held, Owned
  <2>2. queue \in Seq(Command) /\ outbox \in Seq(Command)
    BY DEF TypeOK, ChannelTypeOK
  <2>3. ASSUME NEW i \in DOMAIN queue PROVE CommandHolds(queue[i]) \subseteq Owned
    <3>1. i \in 1 .. Len(InFlight) /\ InFlight[i] = queue[i]
      BY <2>2 DEF InFlight
    <3> QED
      BY <2>1, <3>1 DEF Fence, Safe
  <2> QED
    BY <2>3 DEF Carried, CommandHolds
<1> QED
  BY <1>1, FenceHolds, TypeCorrect, PTL

-----------------------------------------------------------------------------
(* A live swap keeps the samples. Every bundle in flight that comes by a   *)
(* swap has the samples of the bundle before it, in flight or the engine's *)
(* own, and the session's live bundle those of the last one.               *)

Carriers == {"SetBundle", "SwapBundle"}

\* No command in flight at or after i and before j brings a bundle.
NoneBetween(i, j) == \A k \in i .. j - 1 : InFlight[k].type \notin Carriers

\* What position i finds as the samples of the bundle is the given table.
Finds(i, samples) ==
    /\ NoneBetween(1, i) => bundle.samples = samples
    /\ \A j \in 1 .. i - 1 :
          InFlight[j].type \in Carriers /\ NoneBetween(j + 1, i) => InFlight[j].bundle.samples = samples

SwapChain ==
    /\ \A i \in 1 .. Len(InFlight) :
          InFlight[i].type = "SwapBundle" => Finds(i, InFlight[i].bundle.samples)
    /\ Finds(Len(InFlight) + 1, live.samples)
SwapInv == ~dropped => SwapChain

\* A handler adds at most one command that brings a bundle, the one then live; a swap has
\* the samples that were live.
Adds(c) ==
    /\ Grows(c)
    /\ \/ c.type = "SetBundle" /\ live' = c.bundle
       \/ c.type = "SwapBundle" /\ live' = c.bundle /\ c.bundle.samples = live.samples
       \/ c.type \notin Carriers /\ live' = live

\* What a position in flight finds does not change when more commands follow.
LEMMA FindsKept ==
    ASSUME TypeOK, TypeOK', NEW c, Grows(c), bundle' = bundle,
           NEW i \in 1 .. Len(InFlight) + 1, NEW samples, Finds(i, samples)
    PROVE  Finds(i, samples)'
<1>1. /\ Len(InFlight) \in Nat /\ Len(InFlight') \in Nat
      /\ \A k \in 1 .. i - 1 : InFlight'[k] = InFlight[k]
  BY InFlightType, InFlightTypeNext DEF Grows
<1>2. NoneBetween(1, i)' <=> NoneBetween(1, i)
  BY <1>1 DEF NoneBetween
<1>3. \A j \in 1 .. i - 1 : NoneBetween(j + 1, i)' <=> NoneBetween(j + 1, i)
  BY <1>1 DEF NoneBetween
<1> QED
  BY <1>1, <1>2, <1>3 DEF Finds

\* A step that adds a command keeps the chain.
LEMMA AddsKeeps ==
    ASSUME TypeOK, TypeOK', SwapChain, NEW c, Adds(c), bundle' = bundle
    PROVE  SwapChain'
<1>0. PICK n \in Nat, m \in Nat : n = Len(InFlight) /\ m = Len(InFlight')
  BY InFlightType, InFlightTypeNext
<1>1. m > n /\ Grows(c) /\ InFlight'[m] = c
  BY <1>0 DEF Adds, Grows
<1>2. \A k \in n + 1 .. m - 1 : InFlight'[k].type \notin Carriers
  BY <1>0 DEF Adds, Grows, Cmd, Carriers
<1>3. \A k \in 1 .. n : InFlight'[k] = InFlight[k]
  BY <1>0 DEF Adds, Grows
<1>4. ASSUME NEW j \in 1 .. n, NoneBetween(j + 1, n + 1)' PROVE NoneBetween(j + 1, n + 1)
  BY <1>1, <1>3, <1>4 DEF NoneBetween
<1>5. CASE c.type \notin Carriers
  <2>1. live' = live
    BY <1>5 DEF Adds, Carriers
  <2>2. ASSUME NEW i \in 1 .. m, InFlight'[i].type = "SwapBundle"
        PROVE  Finds(i, InFlight[i].bundle.samples)' 
    <3>1. i \in 1 .. n
      BY <1>1, <1>2, <1>5, <2>2 DEF Carriers
    <3>2. InFlight'[i] = InFlight[i] /\ i \in 1 .. n + 1
      BY <1>1, <1>3, <3>1
    <3>3. Finds(i, InFlight[i].bundle.samples)
      BY <1>0, <2>2, <3>1, <3>2 DEF SwapChain
    <3> QED
      BY <1>1, <3>2, <3>3, <1>0, FindsKept
  <2>3. Finds(n + 1, live.samples)
    BY <1>0 DEF SwapChain
  <2>4. NoneBetween(1, m + 1)' => NoneBetween(1, n + 1)
    BY <1>1, <1>3 DEF NoneBetween
  <2>5. ASSUME NEW j \in 1 .. m, InFlight'[j].type \in Carriers, NoneBetween(j + 1, m + 1)'
        PROVE  InFlight'[j].bundle.samples = live.samples
    <3>1. j \in 1 .. n /\ InFlight'[j] = InFlight[j]
      BY <1>1, <1>2, <1>3, <1>5, <2>5
    <3>2. NoneBetween(j + 1, n + 1)
      BY <1>1, <1>3, <2>5, <3>1 DEF NoneBetween
    <3> QED
      BY <1>1, <2>3, <2>5, <3>1, <3>2 DEF Finds
  <2>6. Finds(m + 1, live.samples)'
    BY <1>1, <2>1, <2>3, <2>4, <2>5 DEF Finds
  <2> QED
    BY <1>0, <2>2, <2>6 DEF SwapChain
<1>6. CASE c.type \in Carriers
  <2>1. live' = c.bundle /\ (c.type = "SwapBundle" => c.bundle.samples = live.samples)
    BY <1>6 DEF Adds, Carriers
  <2>2. ASSUME NEW i \in 1 .. m, InFlight'[i].type = "SwapBundle"
        PROVE  Finds(i, InFlight[i].bundle.samples)'
    <3>1. CASE i \in 1 .. n
      <4>1. InFlight'[i] = InFlight[i] /\ i \in 1 .. n + 1
        BY <1>1, <1>3, <3>1
      <4>2. Finds(i, InFlight[i].bundle.samples)
        BY <1>0, <2>2, <3>1, <4>1 DEF SwapChain
      <4> QED
        BY <1>1, <4>1, <4>2, <1>0, FindsKept
    <3>2. CASE i = m
      <4>1. InFlight'[i].bundle.samples = live.samples
        BY <1>1, <2>1, <2>2, <3>2
      <4>2. Finds(n + 1, live.samples)
        BY <1>0 DEF SwapChain
      <4>3. NoneBetween(1, m)' => NoneBetween(1, n + 1)
        BY <1>1, <1>3 DEF NoneBetween
      <4>4. ASSUME NEW j \in 1 .. m - 1, InFlight'[j].type \in Carriers, NoneBetween(j + 1, m)'
            PROVE  InFlight'[j].bundle.samples = live.samples
        <5>1. j \in 1 .. n /\ InFlight'[j] = InFlight[j]
          BY <1>1, <1>2, <1>3, <4>4
        <5>2. NoneBetween(j + 1, n + 1)
          BY <1>1, <1>3, <4>4, <5>1 DEF NoneBetween
        <5> QED
          BY <1>1, <4>2, <4>4, <5>1, <5>2 DEF Finds
      <4> QED
        BY <1>1, <3>2, <4>1, <4>2, <4>3, <4>4 DEF Finds
    <3>3. CASE i \in n + 1 .. m - 1
      BY <1>2, <2>2, <3>3 DEF Carriers
    <3> QED
      BY <1>1, <3>1, <3>2, <3>3
  <2>3. ~NoneBetween(1, m + 1)'
    BY <1>1, <1>6 DEF NoneBetween
  <2>4. ASSUME NEW j \in 1 .. m, NoneBetween(j + 1, m + 1)' PROVE j = m
    BY <1>1, <1>6, <2>4 DEF NoneBetween
  <2>5. Finds(m + 1, live.samples)'
    BY <1>1, <2>1, <2>3, <2>4 DEF Finds
  <2> QED
    BY <1>0, <2>2, <2>5 DEF SwapChain
<1> QED
  BY <1>5, <1>6

\* So does a step that adds none, and leaves both bundles.
LEMMA SameKeeps ==
    ASSUME SwapChain, InFlight' = InFlight, UNCHANGED <<live, bundle>>
    PROVE  SwapChain'
BY DEF SwapChain, Finds, NoneBetween

\* The engine takes the first command, and its bundle if it brings one.
LEMMA TakesKeeps ==
    ASSUME TypeOK, TypeOK', SwapChain, Takes(1), 1 \in 1 .. Len(InFlight), live' = live,
           IF InFlight[1].type \in Carriers THEN bundle' = InFlight[1].bundle ELSE bundle' = bundle
    PROVE  SwapChain'
<1>0. PICK n \in Nat : n = Len(InFlight)
  BY InFlightType
<1>1. n >= 1 /\ Len(InFlight') = n - 1 /\ \A i \in 1 .. n - 1 : InFlight'[i] = InFlight[i + 1]
  BY <1>0, InFlightTypeNext DEF Takes
<1> DEFINE Now(j, i) == \A k \in j + 1 .. i : InFlight[k].type \notin Carriers
           Later(j, i) == \A k \in j .. i - 1 : InFlight'[k].type \notin Carriers
<1>2. ASSUME NEW i \in 1 .. n, NEW j \in 1 .. i, Later(j, i) PROVE Now(j, i)
  <2> SUFFICES ASSUME NEW k \in j + 1 .. i PROVE InFlight[k].type \notin Carriers
    OBVIOUS
  <2>1. k - 1 \in j .. i - 1 /\ k - 1 \in 1 .. n - 1 /\ k - 1 + 1 = k
    BY <1>1
  <2>2. InFlight'[k - 1] = InFlight[k]
    BY <1>1, <2>1
  <2> QED
    BY <1>2, <2>1, <2>2
<1>3. ASSUME NEW i \in 1 .. n, NEW samples, Finds(i + 1, samples) PROVE Finds(i, samples)'
  <2>1. ASSUME NoneBetween(1, i)' PROVE bundle'.samples = samples
    <3>0. Later(1, i)
      BY <2>1 DEF NoneBetween
    <3>1. NoneBetween(2, i + 1)
      <4>1. Now(1, i)
        <5> HIDE DEF Now, Later
        <5> QED
          BY <1>1, <1>2, <3>0
      <4> QED
        BY <1>1, <4>1 DEF NoneBetween
    <3>2. CASE InFlight[1].type \in Carriers
      BY <1>1, <1>3, <3>1, <3>2 DEF Finds
    <3>3. CASE InFlight[1].type \notin Carriers
      <4>1. NoneBetween(1, i + 1)
        BY <1>1, <3>1, <3>3 DEF NoneBetween
      <4> QED
        BY <1>3, <3>3, <4>1 DEF Finds
    <3> QED
      BY <3>2, <3>3
  <2>2. ASSUME NEW j \in 1 .. i - 1, InFlight'[j].type \in Carriers, NoneBetween(j + 1, i)'
        PROVE  InFlight'[j].bundle.samples = samples
    <3>1. InFlight'[j] = InFlight[j + 1] /\ j + 1 \in 1 .. i
      BY <1>1
    <3>0. Later(j + 1, i)
      BY <2>2 DEF NoneBetween
    <3>2. NoneBetween(j + 2, i + 1)
      <4>1. Now(j + 1, i)
        <5> HIDE DEF Now, Later
        <5> QED
          BY <1>1, <1>2, <3>0, <3>1
      <4> QED
        BY <1>1, <4>1 DEF NoneBetween
    <3> QED
      BY <1>1, <1>3, <2>2, <3>1, <3>2 DEF Finds
  <2> QED
    BY <2>1, <2>2 DEF Finds
<1>4. ASSUME NEW i \in 1 .. n - 1, InFlight'[i].type = "SwapBundle"
      PROVE  Finds(i, InFlight[i].bundle.samples)'
  <2>1. InFlight'[i] = InFlight[i + 1] /\ i + 1 \in 1 .. n
    BY <1>1
  <2>2. Finds(i + 1, InFlight[i + 1].bundle.samples)
    BY <1>0, <1>4, <2>1 DEF SwapChain
  <2> QED
    BY <1>1, <1>3, <2>1, <2>2
<1>5. Finds(n, live.samples)'
  BY <1>0, <1>1, <1>3 DEF SwapChain
<1> QED
  BY <1>0, <1>1, <1>4, <1>5 DEF SwapChain

\* A publish adds the bundle that is then live, and a swap keeps the samples that were.
LEMMA PublishAdds ==
    ASSUME TypeOK, TypeOK', outbox = <<>>, queue' = queue,
           NEW before \in {<<>>, Stop}, NEW samples, NEW ns, NEW bs, NEW parked,
           PublishBundle(before, samples, ns, bs, parked)
    PROVE  \E c : Adds(c)
<1>1. PICK c : c = [Cmd("SetBundle") EXCEPT !.serial = serial', !.bundle = live']
  OBVIOUS
<1>2. outbox' = Append(before, c) /\ c.type = "SetBundle" /\ c.bundle = live'
  BY <1>1 DEF PublishBundle, Cmd
<1>3. c \in Command
  BY <1>1, BundleCommandType DEF TypeOK, PublishTypeOK
<1> QED
  BY <1>2, <1>3, HandlerGrows DEF Adds

\* So does a publish of the graph.
LEMMA GraphAdds ==
    ASSUME TypeOK, TypeOK', outbox = <<>>, queue' = queue, NEW ns, NEW bs, NEW parked,
           PublishGraphOrBundle(ns, bs, parked)
    PROVE  \E c : Adds(c)
<1>1. CASE PublishGraph(ns, bs, parked)
  <2>1. PICK c : c = [Cmd("SwapBundle") EXCEPT !.serial = serial', !.bundle = live']
    OBVIOUS
  <2>2. outbox' = Append(<<>>, c) /\ c.type = "SwapBundle" /\ c.bundle = live'
        /\ c.bundle.samples = live.samples
    BY <1>1, <2>1 DEF PublishGraph, Cmd, SwapSamples
  <2>3. c \in Command
    BY <2>1, BundleCommandType DEF TypeOK, PublishTypeOK
  <2> QED
    BY <2>2, <2>3, HandlerGrows DEF Adds
<1>2. CASE PublishBundle(<<>>, slot, ns, bs, staged \cup parked)
  BY <1>2, PublishAdds
<1> QED
  BY <1>1, <1>2 DEF PublishGraphOrBundle

\* A command that brings no bundle leaves the live one.
LEMMA PlainAdds ==
    ASSUME TypeOK, TypeOK', outbox = <<>>, queue' = queue, live' = live,
           NEW c, outbox' = <<c>>, c.type \notin Carriers
    PROVE  Adds(c)
<1>1. c \in Command /\ outbox' = Append(<<>>, c)
  <2>1. outbox' \in Seq(Command) /\ outbox'[1] = c /\ Len(outbox') = 1
    BY DEF TypeOK, ChannelTypeOK
  <2> QED
    BY <2>1
<1> QED
  BY <1>1, HandlerGrows DEF Adds

\* Every handler keeps the chain.
LEMMA HandlerSwaps == ASSUME TypeOK, TypeOK', Handler, SwapInv PROVE SwapInv'
<1>a. ASSUME dropped' = dropped, bundle' = bundle, NEW c, Adds(c) PROVE SwapInv'
  BY <1>a, AddsKeeps DEF SwapInv
<1>p. ASSUME UNCHANGED <<dropped, engine, queue>>, outbox = <<>>, NEW before \in {<<>>, Stop},
             NEW samples, NEW ns, NEW bs, NEW parked, PublishBundle(before, samples, ns, bs, parked)
      PROVE  SwapInv'
  BY <1>p, <1>a, PublishAdds DEF engine
<1>g. ASSUME UNCHANGED <<dropped, engine, queue>>, outbox = <<>>,
             NEW ns, NEW bs, NEW parked, PublishGraphOrBundle(ns, bs, parked)
      PROVE  SwapInv'
  BY <1>g, <1>a, GraphAdds DEF engine
<1>c. ASSUME UNCHANGED <<dropped, engine, queue, live>>, outbox = <<>>,
             NEW c, outbox' = <<c>>, c.type \notin Carriers
      PROVE  SwapInv'
  BY <1>c, <1>a, PlainAdds DEF engine
<1>1. CASE StructuralEdit \/ FinishLoad
  BY <1>1, <1>p DEF StructuralEdit, FinishLoad, CanPublish, Idle
<1>2. CASE ReplaceProject
  BY <1>2, <1>p DEF ReplaceProject, CanPublish, Idle
<1>3. CASE BeginLoad
  <2>1. Cmd("TransportStop").type \notin Carriers
    BY DEF Cmd, Carriers
  <2> QED
    BY <1>3, <1>c, <2>1 DEF BeginLoad, CanPublish, Idle, Stop, published
<1>4. ASSUME NEW n \in Instances, LoadInstance(n) PROVE SwapInv'
  <2>1. InFlight' = InFlight /\ UNCHANGED <<live, bundle, dropped>>
    BY <1>4 DEF LoadInstance, InFlight, published, engine
  <2> QED
    BY <2>1, SameKeeps DEF SwapInv
<1>5. ASSUME NEW n \in Instances, AddInstance(n) PROVE SwapInv'
  BY <1>5, <1>g DEF AddInstance, CanPublish, Idle
<1>6. ASSUME NEW n \in Instances, SetOverride(n) \/ ClearOverride(n) PROVE SwapInv'
  BY <1>6, <1>p DEF SetOverride, ClearOverride, CanPublish, Idle
<1>7. ASSUME NEW x \in Bridges, LoadBridge(x) \/ AddBridge(x) PROVE SwapInv'
  BY <1>7, <1>g DEF LoadBridge, AddBridge, CanPublish, Idle
<1>8. CASE LoadInProcess \/ EditGraph \/ RemoveNode
  BY <1>8, <1>g DEF LoadInProcess, EditGraph, RemoveNode, CanPublish, Idle
<1>9. ASSUME NEW x \in Bridges, BridgeOn(x) \/ BridgeOff(x) PROVE SwapInv'
  BY <1>9, <1>p DEF BridgeOn, BridgeOff, CanPublish, Idle
<1>10. ASSUME NEW s \in Slots, LoadSample(s) \/ ClearSlot(s) \/ EditSample(s) PROVE SwapInv'
  BY <1>10, <1>p DEF LoadSample, ClearSlot, EditSample, ReplaceSampleBuffer, CanPublish, Idle
<1>11. CASE Undo \/ Redo
  <2>1. PICK e, b : Replay(e, b)
    BY <1>11 DEF Undo, Redo
  <2>2. outbox = <<>> /\ UNCHANGED <<dropped, engine, queue>>
    BY <1>11 DEF Undo, Redo, CanPublish, Idle
  <2> QED
    BY <1>p, <1>g, <2>1, <2>2 DEF Replay, ReplaceSampleBuffer
<1>12. CASE PreviewFile \/ StopPreview
  <2>1. \E c : outbox' = <<c>> /\ c.type \in {"PlaySample", "StopSample"}
    <3>1. \A b, n : /\ [Cmd("PlaySample") EXCEPT !.serial = n, !.sample = b].type = "PlaySample"
                   /\ [Cmd("StopSample") EXCEPT !.serial = n].type = "StopSample"
      BY DEF Cmd
    <3> QED
      BY <1>12, <3>1 DEF PreviewFile, StopPreview
  <2>2. outbox = <<>> /\ UNCHANGED <<dropped, engine, queue, live>>
    BY <1>12 DEF PreviewFile, StopPreview, CanPublish, Idle
  <2> QED
    BY <1>c, <2>1, <2>2 DEF Carriers
<1>13. ASSUME NEW c, SendUnfenced(c), c.type \notin Carriers PROVE SwapInv'
  BY <1>13, <1>c DEF SendUnfenced, session, published, Idle
<1>14. ASSUME NEW s \in Slots, PreviewNote(s) PROVE SwapInv'
  <2>1. PICK c : c = [Cmd("PreviewNote") EXCEPT !.sample = slot[s]]
    OBVIOUS
  <2>2. c.type \notin Carriers /\ SendUnfenced(c)
    BY <1>14, <2>1 DEF PreviewNote, Cmd, Carriers
  <2> QED
    BY <1>13, <2>2
<1>15. CASE PreviewPluginNote \/ Play \/ StopTransport
  <2>1. \A t \in {"PluginNote", "TransportPlay", "TransportStop"} : Cmd(t).type \notin Carriers
    BY DEF Cmd, Carriers
  <2> QED
    BY <1>13, <1>15, <2>1 DEF PreviewPluginNote, Play, StopTransport
<1> QED
  BY <1>1, <1>2, <1>3, <1>4, <1>5, <1>6, <1>7, <1>8, <1>9, <1>10, <1>11, <1>12, <1>14, <1>15 DEF Handler

\* The engine takes a command, and its bundle if it brings one.
LEMMA DrainSwaps == ASSUME TypeOK, TypeOK', Drain, SwapInv PROVE SwapInv'
<1>0. ASSUME NEW t, Pop(t), IF t \in Carriers THEN bundle' = Head(queue).bundle ELSE bundle' = bundle
      PROVE  SwapInv'
  <2>1. /\ Takes(1) /\ 1 \in 1 .. Len(InFlight) /\ InFlight[1] = Head(queue)
        /\ InFlight[1].type = t /\ UNCHANGED <<session, dropped, snap>>
    BY <1>0, PopTakes
  <2>2. live' = live
    BY <2>1 DEF session, published
  <2> QED
    BY <1>0, <2>1, <2>2, TakesKeeps DEF SwapInv
<1>1. CASE ApplySetBundle \/ ApplySwapBundle
  BY <1>0, <1>1 DEF ApplySetBundle, ApplySwapBundle, Carriers
<1>2. \A t \in {"PlaySample", "StopSample", "PreviewNote", "PluginNote", "TransportPlay", "TransportStop"} :
          t \notin Carriers
  BY DEF Carriers
<1>3. CASE ApplyPlaySample \/ ApplyStopSample \/ ApplyPreviewNote
  BY <1>0, <1>2, <1>3 DEF ApplyPlaySample, ApplyStopSample, ApplyPreviewNote
<1>4. CASE ApplyPluginNote \/ ApplyTransportPlay \/ ApplyTransportStop
  BY <1>0, <1>2, <1>4 DEF ApplyPluginNote, ApplyTransportPlay, ApplyTransportStop
<1> QED
  BY <1>1, <1>3, <1>4 DEF Drain

\* A command that is sent stays in flight, or is lost, and then nothing is promised.
LEMMA SendSwaps == ASSUME TypeOK, Send, SwapInv PROVE SwapInv'
<1>1. CASE dropped' = TRUE
  BY <1>1 DEF SwapInv
<1>2. CASE queue' = Append(queue, Head(outbox)) /\ UNCHANGED dropped
  <2>1. InFlight' = InFlight
    BY <1>2, SentStays DEF Send
  <2>2. UNCHANGED <<live, bundle>>
    BY DEF Send, session, published, engine
  <2> QED
    BY <1>2, <2>1, <2>2, SameKeeps DEF SwapInv
<1> QED
  BY <1>1, <1>2 DEF Send

\* Every step keeps the chain.
LEMMA SwapStep == ASSUME TypeOK, TypeOK', SwapInv, [Next]_vars PROVE SwapInv'
<1>0. ASSUME UNCHANGED <<queue, outbox, live, bundle, dropped>> PROVE SwapInv'
  <2>1. InFlight' = InFlight
    BY <1>0 DEF InFlight
  <2> QED
    BY <1>0, <2>1, SameKeeps DEF SwapInv
<1>1. CASE \E noted \in 0..snap : Sweep(noted)
  BY <1>0, <1>1 DEF Sweep, published, engine
<1>2. CASE StartPull \/ EndDrain \/ EndPull
  BY <1>0, <1>2 DEF StartPull, EndDrain, EndPull, session, published
<1>3. CASE Render
  <2>1. Rendering
    BY <1>3 DEF Render, TriggerChannel, TriggerSeq, TriggerPlugin, VoiceEnds, ParkTransport
  <2> QED
    BY <1>0, <2>1 DEF Rendering, session, published
<1>4. CASE UNCHANGED vars
  BY <1>0, <1>4 DEF vars, session, published, engine
<1> QED
  BY <1>1, <1>2, <1>3, <1>4, HandlerSwaps, DrainSwaps, SendSwaps DEF Next

\* The sender's contract of kSwapBundle: as long as no command has been lost, the bundle a
\* swap brings has the samples of the bundle it replaces, whatever was published, sent and
\* applied in between; so voices may survive the swap.
THEOREM SwapKeepsSamplesHolds == Spec => SwapKeepsSamples
<1>1. Init => SwapInv
  <2>1. Init => Len(InFlight) = 0 /\ live = NoBundle /\ bundle = NoBundle
    BY DEF Init, InFlight
  <2> QED
    BY <2>1 DEF SwapInv, SwapChain, Finds
<1>2. TypeOK /\ TypeOK' /\ SwapInv /\ [Next]_vars => SwapInv'
  BY SwapStep
<1>3. TypeOK /\ SwapInv /\ [Next]_vars => [ApplySwapBundle /\ ~dropped => bundle'.samples = bundle.samples]_vars
  <2> SUFFICES ASSUME TypeOK, SwapInv, ApplySwapBundle, ~dropped
               PROVE  bundle'.samples = bundle.samples
    OBVIOUS
  <2>1. 1 \in 1 .. Len(InFlight) /\ InFlight[1] = Head(queue) /\ InFlight[1].type = "SwapBundle"
    BY PopTakes DEF ApplySwapBundle
  <2>2. Finds(1, InFlight[1].bundle.samples)
    BY <2>1 DEF SwapInv, SwapChain
  <2>3. bundle.samples = InFlight[1].bundle.samples
    BY <2>2 DEF Finds, NoneBetween
  <2> QED
    BY <2>1, <2>3 DEF ApplySwapBundle
<1> QED
  BY <1>1, <1>2, <1>3, TypeCorrect, PTL DEF Spec, SwapKeepsSamples
=============================================================================
