------------------------- MODULE PollingClockProofs -------------------------
(***************************************************************************)
(* Proofs about PollingClock for all intervals and all bounds on the time  *)
(* that scans and flushes take: flushInterval/interval+1 slices are enough *)
(* as long as no CMDB call fails.                                          *)
(***************************************************************************)
EXTENDS PollingClock, FiniteSetTheorems, TLAPS

-----------------------------------------------------------------------------
(* The inductive invariant *)

\* the ages of the scans that run
Running == {a \in 0..MaxScan : scanning[a] > 0}

\* the scans that run and the slices in the channel, and those among them that
\* the running flush does not take
Alive == Cardinality(Running) + buffer
Fresh == Alive - left

(* A running flush is not late.                                            *)
FlushInv == left > 0 => flushClock <= takes.flush

(* Every scan that runs has begun at a tick of its own, and is not late.   *)
AgeInv ==
  \A a \in Running :
    scanning[a] = 1 /\ a <= takes.scan /\ \E k \in Nat : a = scanClock + k * Interval

(* What the flush leaves comes from ticks since the last tick of flusher,  *)
(* and what it takes from ticks since the last but one, each at most the   *)
(* time of a scan earlier.  Ticks are an interval apart, so that the first *)
(* of n was (n - 1) * Interval + scanClock ago.                            *)
TickInv ==
  /\ Fresh > 0 => (Fresh - 1) * Interval + scanClock <= flushClock + takes.scan
  /\ left > 0 => (Alive - 1) * Interval + scanClock
                   <= FlushInterval + flushClock + takes.scan

\* the premise of NoScanWaits
Short == errors = 0 /\ takes.scan + takes.flush < Interval - (FlushInterval % Interval)

ClockInv ==
  /\ TypeOK /\ FlushInv /\ AgeInv
  /\ Short => waiting = 0 /\ TickInv

-----------------------------------------------------------------------------
(* Arithmetic *)

LEMMA Cancel ==
  ASSUME NEW a \in Int, NEW b \in Int, NEW n \in Nat, n > 0, a * n < b * n
  PROVE  a < b
  <1> SUFFICES ASSUME b <= a PROVE FALSE
    OBVIOUS
  <1>1. b * n <= a * n
    BY Z3
  <1> QED BY <1>1

(* The channel holds a slice of every interval up to the first multiple of *)
(* the interval after the flush interval.                                  *)
LEMMA BufferCapSpan ==
  /\ BufferCap \in Nat
  /\ FlushInterval % Interval \in Nat
  /\ BufferCap * Interval = FlushInterval + (Interval - (FlushInterval % Interval))
  BY ClockAssumption DEF BufferCap

(* Numbers an interval apart: how many of them are at most limit.          *)
LEMMA SpacedCount ==
  ASSUME NEW start \in Nat, NEW step \in Nat, step > 0, NEW limit \in Nat,
         NEW R, R \subseteq 0..limit, R # {},
         \A a \in R : \E k \in Nat : a = start + k * step
  PROVE  /\ IsFiniteSet(R)
         /\ (Cardinality(R) - 1) * step + start <= limit
  <1>1. PICK a0 \in R : start <= a0
    <2>1. PICK a \in R : TRUE
      OBVIOUS
    <2>2. PICK k \in Nat : a = start + k * step
      OBVIOUS
    <2>3. k * step \in Nat
      OBVIOUS
    <2> QED BY <2>2, <2>3
  <1> DEFINE m == (limit - start) \div step
             f == [a \in R |-> (a - start) \div step]
  <1>2. m \in Nat /\ m * step <= limit - start
    BY <1>1
  <1>3. ASSUME NEW a \in R
        PROVE  f[a] \in 0..m /\ a = start + f[a] * step
    <2>1. PICK k \in Nat : a = start + k * step
      OBVIOUS
    <2>2. a - start = k * step /\ (k * step) \div step = k
      BY <2>1
    <2>3. f[a] = k
      BY <2>2
    <2>4. a <= limit
      OBVIOUS
    <2>5. k <= m
      BY <2>1, <2>4
    <2> QED BY <1>2, <2>1, <2>3, <2>5
  <1> HIDE DEF m, f
  <1>4. f \in Injection(R, 0..m)
    <2>1. f \in [R -> 0..m]
      BY <1>3 DEF f
    <2>2. \A a, b \in R : f[a] = f[b] => a = b
      BY <1>3
    <2> QED BY <2>1, <2>2 DEF Injection, IsInjective
  <1>5. IsFiniteSet(0..m) /\ Cardinality(0..m) = m + 1
    BY <1>2, FS_Interval
  <1>6. IsFiniteSet(R) /\ Cardinality(R) <= m + 1
    BY <1>4, <1>5, FS_Injection
  <1>7. Cardinality(R) \in Nat
    BY <1>6, FS_CardinalityType
  <1>8. (Cardinality(R) - 1) * step <= m * step
    BY <1>2, <1>6, <1>7
  <1> QED BY <1>2, <1>6, <1>7, <1>8

-----------------------------------------------------------------------------
(* Consequences of the invariant *)

LEMMA RunningFinite ==
  ASSUME TypeOK
  PROVE  /\ IsFiniteSet(Running) /\ Cardinality(Running) \in Nat
         /\ Alive \in Nat /\ Fresh \in Nat
  <1>1. IsFiniteSet(0..MaxScan) /\ Running \subseteq 0..MaxScan
    BY ClockAssumption, FS_Interval DEF Running
  <1>2. IsFiniteSet(Running) /\ Cardinality(Running) \in Nat
    BY <1>1, FS_Subset, FS_CardinalityType
  <1>3. buffer \in Nat /\ left \in Nat /\ left <= buffer
    BY BufferCapSpan DEF TypeOK
  <1> QED BY <1>2, <1>3 DEF Alive, Fresh

(* The scans that run have begun within the time of a scan.                *)
LEMMA RunningSpan ==
  ASSUME TypeOK, AgeInv, Running # {}
  PROVE  (Cardinality(Running) - 1) * Interval + scanClock <= takes.scan
  <1>1. scanClock \in Nat /\ takes.scan \in Nat
    BY ClockAssumption DEF TypeOK
  <1>2. Running \subseteq 0..takes.scan
    BY <1>1, ClockAssumption DEF AgeInv, Running
  <1>3. \A a \in Running : \E k \in Nat : a = scanClock + k * Interval
    BY DEF AgeInv
  <1> QED BY <1>1, <1>2, <1>3, ClockAssumption, SpacedCount

(* The channel has room for every scan that runs.                          *)
LEMMA Room ==
  ASSUME TypeOK, FlushInv, Short, TickInv
  PROVE  Alive <= BufferCap
  <1>1. /\ Alive \in Nat /\ Fresh \in Nat /\ BufferCap \in Nat
        /\ FlushInterval % Interval \in Nat
    BY RunningFinite, BufferCapSpan
  <1>2. /\ scanClock \in Nat /\ flushClock \in Nat /\ flushClock <= FlushInterval
        /\ takes.scan \in Nat /\ takes.flush \in Nat /\ left \in Nat
        /\ Interval \in Nat /\ 0 < Interval /\ FlushInterval \in Nat
    BY ClockAssumption, BufferCapSpan DEF TypeOK
  <1>3. takes.scan + takes.flush < Interval - (FlushInterval % Interval)
    BY DEF Short
  <1>4. SUFFICES ASSUME Alive > 0 PROVE Alive <= BufferCap
    BY <1>1
  <1> DEFINE p == (Alive - 1) * Interval
  <1>5. p \in Int
    BY <1>1, <1>2
  <1>6. p < FlushInterval + (Interval - (FlushInterval % Interval))
    <2>1. CASE left > 0
      <3>1. p + scanClock <= FlushInterval + flushClock + takes.scan
        BY <2>1 DEF TickInv
      <3>2. flushClock <= takes.flush
        BY <2>1 DEF FlushInv
      <3> HIDE DEF p
      <3> QED BY <1>1, <1>2, <1>3, <1>5, <3>1, <3>2
    <2>2. CASE left = 0
      <3>1. Fresh = Alive
        BY <1>1, <2>2 DEF Fresh
      <3>2. p + scanClock <= flushClock + takes.scan
        BY <1>4, <3>1 DEF TickInv
      <3> HIDE DEF p
      <3> QED BY <1>1, <1>2, <1>3, <1>5, <3>2
    <2> QED BY <1>2, <2>1, <2>2
  <1>7. (Alive - 1) * Interval < BufferCap * Interval
    BY <1>6, BufferCapSpan
  <1>8. Alive - 1 < BufferCap
    BY <1>1, <1>2, <1>7, Cancel
  <1> QED BY <1>1, <1>8

-----------------------------------------------------------------------------
(* Init and the steps *)

LEMMA InitInv == Init => ClockInv
  <1> SUFFICES ASSUME Init PROVE ClockInv
    OBVIOUS
  <1>1. TypeOK
    BY ClockAssumption, BufferCapSpan DEF Init, TypeOK
  <1>2. Running = {}
    BY DEF Init, Running
  <1>3. Alive = 0 /\ Fresh = 0
    BY <1>2, FS_EmptySet DEF Init, Alive, Fresh
  <1>4. left = 0 /\ waiting = 0
    BY DEF Init
  <1> QED BY <1>1, <1>2, <1>3, <1>4 DEF ClockInv, FlushInv, AgeInv, TickInv

LEMMA ScanTickInv == ASSUME ClockInv, ScanTick PROVE ClockInv'
  <1>0. TypeOK /\ FlushInv /\ AgeInv /\ (Short => waiting = 0 /\ TickInv)
    BY DEF ClockInv
  <1>1. /\ scanClock = Interval /\ scanClock' = 0
        /\ scanning \in [0..MaxScan -> Nat] /\ 0 \in 0..MaxScan
        /\ scanning' = [scanning EXCEPT ![0] = scanning[0] + 1]
        /\ UNCHANGED <<takes, flushClock, buffer, waiting, left, errors, conn>>
        /\ Interval \in Nat /\ 0 < Interval
    BY <1>0, ClockAssumption DEF TypeOK, ScanTick
  <1>2. TypeOK'
    BY <1>0, <1>1 DEF TypeOK
  <1>3. FlushInv'
    BY <1>0, <1>1 DEF FlushInv
  <1>4. ASSUME NEW a \in Running
        PROVE  /\ scanning[a] = 1 /\ a <= takes.scan /\ a > 0
               /\ \E k \in Nat : a = 0 + k * Interval
    <2>1. PICK k \in Nat : a = Interval + k * Interval
      BY <1>0, <1>1 DEF AgeInv
    <2>2. k * Interval \in Nat /\ k + 1 \in Nat /\ a = 0 + (k + 1) * Interval
      BY <1>1, <2>1
    <2>3. a > 0
      BY <1>1, <2>1, <2>2
    <2> QED BY <1>0, <2>2, <2>3 DEF AgeInv
  <1>5. scanning[0] = 0
    <2>1. 0 \notin Running
      BY <1>4
    <2> QED BY <1>1, <2>1 DEF Running
  <1>6. Running' = Running \cup {0}
    BY <1>1, <1>5 DEF Running
  <1>7. AgeInv'
    <2> SUFFICES ASSUME NEW a \in Running'
                 PROVE  /\ scanning'[a] = 1 /\ a <= takes'.scan
                        /\ \E k \in Nat : a = scanClock' + k * Interval
      BY DEF AgeInv
    <2>1. CASE a = 0
      <3>1. 0 = 0 + 0 * Interval /\ takes.scan >= 0
        BY <1>0, <1>1, ClockAssumption DEF TypeOK
      <3> QED BY <1>1, <1>5, <2>1, <3>1
    <2>2. CASE a # 0
      <3>1. a \in Running /\ a \in 0..MaxScan
        BY <1>6, <2>2 DEF Running
      <3>2. scanning'[a] = scanning[a]
        BY <1>1, <2>2, <3>1
      <3> QED BY <1>1, <1>4, <3>1, <3>2
    <2> QED BY <2>1, <2>2
  <1>8. Alive' = Alive + 1 /\ Fresh' = Fresh + 1 /\ Alive \in Nat /\ Fresh \in Nat
    <2>1. Cardinality(Running)' = Cardinality(Running) + 1
      <3>1. 0 \notin Running
        BY <1>4
      <3> QED BY <1>0, <1>6, <3>1, RunningFinite, FS_AddElement
    <2>2. /\ buffer \in Nat /\ left \in Nat /\ Cardinality(Running) \in Nat
          /\ Alive \in Nat /\ Fresh \in Nat
      BY <1>0, RunningFinite, BufferCapSpan DEF TypeOK
    <2>3. Alive' = Alive + 1
      BY <1>1, <2>1, <2>2 DEF Alive
    <2>4. Fresh' = Fresh + 1
      BY <1>1, <2>2, <2>3 DEF Fresh
    <2> QED BY <2>2, <2>3, <2>4
  <1>9. ASSUME Short' PROVE TickInv' /\ waiting' = 0
    <2>1. Short /\ TickInv /\ waiting = 0
      BY <1>0, <1>1, <1>9 DEF Short
    <2>2. flushClock \in Nat /\ takes.scan \in Nat /\ FlushInterval \in Nat
      BY <1>0, ClockAssumption DEF TypeOK
    <2>3. Fresh * Interval <= flushClock + takes.scan
      <3>1. CASE Fresh = 0
        BY <1>1, <2>2, <3>1
      <3>2. CASE Fresh > 0
        <4>1. (Fresh - 1) * Interval + Interval <= flushClock + takes.scan
          BY <1>1, <2>1, <3>2 DEF TickInv
        <4>2. (Fresh - 1) * Interval + Interval = Fresh * Interval
          BY <1>1, <1>8
        <4> QED BY <4>1, <4>2
      <3> QED BY <1>8, <3>1, <3>2
    <2>4. left > 0 => Alive * Interval <= FlushInterval + flushClock + takes.scan
      <3> HAVE left > 0
      <3>1. (Alive - 1) * Interval + Interval <= FlushInterval + flushClock + takes.scan
        BY <1>1, <2>1 DEF TickInv
      <3> QED BY <1>1, <1>8, <3>1
    <2>5. Fresh' - 1 = Fresh /\ Alive' - 1 = Alive
      BY <1>8
    <2>6. Fresh * Interval + 0 = Fresh * Interval /\ Alive * Interval + 0 = Alive * Interval
      BY <1>1, <1>8
    <2> QED BY <1>1, <2>1, <2>3, <2>4, <2>5, <2>6 DEF TickInv
  <1> QED BY <1>2, <1>3, <1>7, <1>9 DEF ClockInv

LEMMA ScanSendInv ==
  ASSUME ClockInv, NEW a \in 0..MaxScan, ScanSend(a) PROVE ClockInv'
  <1>0. TypeOK /\ FlushInv /\ AgeInv /\ (Short => waiting = 0 /\ TickInv)
    BY DEF ClockInv
  <1>1. /\ a \in Running
        /\ scanning \in [0..MaxScan -> Nat]
        /\ scanning' = [scanning EXCEPT ![a] = scanning[a] - 1]
        /\ UNCHANGED <<takes, scanClock, flushClock, left, errors, conn>>
        /\ buffer \in Nat /\ waiting \in Nat /\ left \in 0..buffer
    BY <1>0, BufferCapSpan DEF TypeOK, ScanSend, Running
  <1>2. \/ buffer < BufferCap /\ buffer' = buffer + 1 /\ waiting' = waiting
        \/ ~(buffer < BufferCap) /\ buffer' = buffer /\ waiting' = waiting + 1
    BY DEF ScanSend
  <1>3. scanning[a] = 1
    BY <1>0, <1>1 DEF AgeInv
  <1>4. TypeOK'
    <2>1. scanning' \in [0..MaxScan -> Nat]
      BY <1>1, <1>3
    <2>2. buffer' \in 0..BufferCap /\ waiting' \in Nat /\ left \in 0..buffer'
      <3>1. BufferCap \in Nat /\ buffer <= BufferCap
        BY <1>0, BufferCapSpan DEF TypeOK
      <3> QED BY <1>1, <1>2, <3>1
    <2> QED BY <1>0, <1>1, <2>1, <2>2 DEF TypeOK
  <1>5. FlushInv'
    BY <1>0, <1>1 DEF FlushInv
  <1>6. Running' = Running \ {a}
    <2>1. ASSUME NEW b \in 0..MaxScan
          PROVE  scanning'[b] > 0 <=> (b # a /\ scanning[b] > 0)
      BY <1>1, <1>3
    <2> QED BY <2>1 DEF Running
  <1>7. AgeInv'
    <2> SUFFICES ASSUME NEW b \in Running'
                 PROVE  /\ scanning'[b] = 1 /\ b <= takes'.scan
                        /\ \E k \in Nat : b = scanClock' + k * Interval
      BY DEF AgeInv
    <2>1. b \in Running /\ b # a /\ b \in 0..MaxScan
      BY <1>6 DEF Running
    <2>2. scanning'[b] = scanning[b]
      BY <1>1, <2>1
    <2> QED BY <1>0, <1>1, <2>1, <2>2 DEF AgeInv
  <1>8. Cardinality(Running)' = Cardinality(Running) - 1
    BY <1>0, <1>1, <1>6, RunningFinite, FS_RemoveElement
  <1>9. ASSUME Short' PROVE TickInv' /\ waiting' = 0
    <2>1. Short /\ TickInv /\ waiting = 0
      BY <1>0, <1>1, <1>9 DEF Short
    <2>2. Alive <= BufferCap /\ Alive \in Nat /\ Cardinality(Running) \in Nat
      BY <1>0, <2>1, Room, RunningFinite
    <2>3. Cardinality(Running) > 0
      <3>1. Cardinality(Running) # 0
        BY <1>0, <1>1, RunningFinite, FS_EmptySet
      <3> QED BY <2>2, <3>1
    <2>4. buffer < BufferCap
      BY <1>1, <2>2, <2>3, BufferCapSpan DEF Alive
    <2>5. buffer' = buffer + 1 /\ waiting' = 0
      BY <1>2, <2>1, <2>4
    <2>6. Alive' = Alive
      BY <1>1, <1>8, <2>2, <2>5 DEF Alive
    <2>7. Fresh' = Fresh
      BY <1>1, <2>6 DEF Fresh
    <2> QED BY <1>1, <2>1, <2>5, <2>6, <2>7 DEF TickInv
  <1> QED BY <1>4, <1>5, <1>7, <1>9 DEF ClockInv

LEMMA FlushTickInv == ASSUME ClockInv, FlushTick PROVE ClockInv'
  <1>0. TypeOK /\ FlushInv /\ AgeInv /\ (Short => waiting = 0 /\ TickInv)
    BY DEF ClockInv
  <1>1. /\ flushClock = FlushInterval /\ flushClock' = 0 /\ left' = buffer
        /\ UNCHANGED <<takes, scanClock, scanning, buffer, waiting, errors, conn>>
    BY DEF FlushTick
  <1>2. /\ takes.scan \in Nat /\ takes.flush \in Nat /\ takes.flush < FlushInterval
        /\ scanClock \in Nat /\ FlushInterval \in Nat /\ buffer \in Nat /\ left \in Nat
        /\ left <= buffer
    BY <1>0, ClockAssumption, BufferCapSpan DEF TypeOK
  <1>3. TypeOK'
    BY <1>0, <1>1, <1>2 DEF TypeOK
  <1>4. FlushInv'
    BY <1>1, <1>2 DEF FlushInv
  <1>5. Running' = Running
    BY <1>1 DEF Running
  <1>6. AgeInv'
    BY <1>0, <1>1, <1>5 DEF AgeInv
  <1>7. ASSUME Short' PROVE TickInv' /\ waiting' = 0
    <2>1. Short /\ TickInv /\ waiting = 0
      BY <1>0, <1>1, <1>7 DEF Short
    <2>2. left = 0
      BY <1>0, <1>1, <1>2 DEF FlushInv
    <2>3. /\ Cardinality(Running) \in Nat /\ Alive \in Nat /\ Alive' = Alive
          /\ Fresh = Alive /\ Fresh' = Cardinality(Running)
      BY <1>0, <1>1, <1>2, <1>5, <2>2, RunningFinite DEF Alive, Fresh
    <2>4. ASSUME Fresh' > 0
          PROVE  (Fresh' - 1) * Interval + scanClock' <= flushClock' + takes'.scan
      <3>1. Running # {}
        BY <2>3, <2>4, FS_EmptySet
      <3>2. (Cardinality(Running) - 1) * Interval + scanClock <= takes.scan
        BY <1>0, <3>1, RunningSpan
      <3>3. 0 + takes.scan = takes.scan
        BY <1>2
      <3> QED BY <1>1, <2>3, <3>2, <3>3
    <2>5. ASSUME left' > 0
          PROVE  (Alive' - 1) * Interval + scanClock'
                   <= FlushInterval + flushClock' + takes'.scan
      <3>1. Alive > 0
        BY <1>1, <1>2, <2>3, <2>5 DEF Alive
      <3>2. (Alive - 1) * Interval + scanClock <= FlushInterval + takes.scan
        BY <1>1, <2>1, <2>3, <3>1 DEF TickInv
      <3>3. FlushInterval + 0 = FlushInterval
        BY <1>2
      <3> QED BY <1>1, <2>3, <3>2, <3>3
    <2> QED BY <1>1, <2>1, <2>4, <2>5 DEF TickInv
  <1> QED BY <1>3, <1>4, <1>6, <1>7 DEF ClockInv

(* Receiving leaves the types, and without scans that wait it takes a      *)
(* slice out of the channel.                                               *)
LEMMA RecvType ==
  ASSUME TypeOK, Recv, left > 0
  PROVE  /\ buffer' \in 0..BufferCap /\ waiting' \in Nat /\ left - 1 \in 0..buffer'
         /\ waiting = 0 => buffer' = buffer - 1 /\ waiting' = 0
  <1>1. /\ waiting \in Nat /\ buffer \in Nat /\ buffer <= BufferCap /\ left \in Nat
        /\ left <= buffer /\ BufferCap \in Nat
    BY BufferCapSpan DEF TypeOK
  <1>2. CASE waiting > 0
    BY <1>1, <1>2 DEF Recv
  <1>3. CASE ~(waiting > 0)
    BY <1>1, <1>3 DEF Recv
  <1> QED BY <1>2, <1>3

LEMMA FlushInsertInv == ASSUME ClockInv, FlushInsert PROVE ClockInv'
  <1>0. TypeOK /\ FlushInv /\ AgeInv /\ (Short => waiting = 0 /\ TickInv)
    BY DEF ClockInv
  <1>1. /\ left > 0 /\ Recv /\ left' = left - 1
        /\ UNCHANGED <<takes, scanClock, flushClock, scanning, errors, conn>>
    BY DEF FlushInsert
  <1>2. TypeOK'
    BY <1>0, <1>1, RecvType DEF TypeOK
  <1>3. FlushInv'
    BY <1>0, <1>1 DEF FlushInv
  <1>4. Running' = Running
    BY <1>1 DEF Running
  <1>5. AgeInv'
    BY <1>0, <1>1, <1>4 DEF AgeInv
  <1>6. ASSUME Short' PROVE TickInv' /\ waiting' = 0
    <2>1. Short /\ TickInv /\ waiting = 0
      BY <1>0, <1>1, <1>6 DEF Short
    <2>2. buffer' = buffer - 1 /\ waiting' = 0
      BY <1>0, <1>1, <2>1, RecvType
    <2>3. /\ Cardinality(Running) \in Nat /\ Alive \in Nat /\ Fresh \in Nat
          /\ buffer \in Nat /\ left \in Nat
      BY <1>0, RunningFinite, BufferCapSpan DEF TypeOK
    <2>4. Alive' = Alive - 1
      BY <1>4, <2>2, <2>3 DEF Alive
    <2>5. Fresh' = Fresh
      BY <1>1, <2>3, <2>4 DEF Fresh
    <2>6. /\ scanClock \in Nat /\ flushClock \in Nat /\ takes.scan \in Nat
          /\ Interval \in Nat /\ FlushInterval \in Nat
      BY <1>0, ClockAssumption DEF TypeOK
    <2>7. (Alive' - 1) * Interval + scanClock <= FlushInterval + flushClock + takes.scan
      <3>1. (Alive - 1) * Interval + scanClock <= FlushInterval + flushClock + takes.scan
        BY <1>1, <2>1 DEF TickInv
      <3>2. (Alive' - 1) * Interval = (Alive - 1) * Interval - Interval
        BY <2>3, <2>4, <2>6
      <3>3. (Alive - 1) * Interval \in Int
        BY <2>3, <2>6
      <3> QED BY <2>6, <3>1, <3>2, <3>3
    <2> QED BY <1>1, <2>1, <2>2, <2>5, <2>7 DEF TickInv
  <1> QED BY <1>2, <1>3, <1>5, <1>6 DEF ClockInv

LEMMA FlushErrorInv == ASSUME ClockInv, FlushError PROVE ClockInv'
  <1>0. TypeOK /\ FlushInv /\ AgeInv
    BY DEF ClockInv
  <1>1. /\ left > 0 /\ Recv /\ left' = 0 /\ errors < MaxErrors /\ errors' = errors + 1
        /\ conn' \in {conn, "closed"}
        /\ UNCHANGED <<takes, scanClock, flushClock, scanning>>
    BY DEF FlushError
  <1>2. errors \in Nat /\ errors' \in 0..MaxErrors /\ errors' # 0
    BY <1>0, <1>1, ClockAssumption DEF TypeOK
  <1>3. TypeOK'
    <2>1. buffer' \in 0..BufferCap /\ waiting' \in Nat
      BY <1>0, <1>1, RecvType
    <2>2. left' \in 0..buffer'
      BY <1>1, <2>1, BufferCapSpan
    <2> QED BY <1>0, <1>1, <1>2, <2>1, <2>2 DEF TypeOK
  <1>4. FlushInv'
    BY <1>1 DEF FlushInv
  <1>5. Running' = Running
    BY <1>1 DEF Running
  <1>6. AgeInv'
    BY <1>0, <1>1, <1>5 DEF AgeInv
  <1>7. ~Short'
    BY <1>2 DEF Short
  <1> QED BY <1>3, <1>4, <1>6, <1>7 DEF ClockInv

LEMMA ElapseInv == ASSUME ClockInv, Elapse PROVE ClockInv'
  <1>0. TypeOK /\ FlushInv /\ AgeInv /\ (Short => waiting = 0 /\ TickInv)
    BY DEF ClockInv
  <1>1. /\ scanClock < Interval /\ flushClock < FlushInterval
        /\ scanning[takes.scan] = 0
        /\ left > 0 => flushClock < takes.flush
        /\ scanClock' = scanClock + 1 /\ flushClock' = flushClock + 1
        /\ scanning' = [a \in 0..MaxScan |-> IF a = 0 THEN 0 ELSE scanning[a - 1]]
        /\ UNCHANGED <<takes, buffer, waiting, left, errors, conn>>
    BY DEF Elapse
  <1>2. /\ scanClock \in Nat /\ flushClock \in Nat /\ takes.scan \in Nat
        /\ takes.flush \in Nat /\ takes.scan <= MaxScan /\ MaxScan \in Nat
        /\ Interval \in Nat /\ FlushInterval \in Nat
        /\ scanning \in [0..MaxScan -> Nat]
    BY <1>0, ClockAssumption DEF TypeOK
  <1>3. TypeOK'
    <2>1. scanning' \in [0..MaxScan -> Nat]
      <3>1. ASSUME NEW a \in 0..MaxScan, a # 0 PROVE scanning[a - 1] \in Nat
        <4>1. a - 1 \in 0..MaxScan
          BY <1>2, <3>1
        <4> QED BY <1>2, <4>1
      <3> QED BY <1>1, <3>1
    <2> QED BY <1>0, <1>1, <1>2, <2>1 DEF TypeOK
  <1>4. FlushInv'
    BY <1>1, <1>2 DEF FlushInv
  <1>5. ASSUME NEW a \in Running'
        PROVE  a - 1 \in Running /\ scanning'[a] = scanning[a - 1] /\ a \in Nat
    <2>1. a \in 0..MaxScan /\ scanning'[a] > 0
      BY DEF Running
    <2>2. a # 0
      BY <1>1, <2>1
    <2>3. a - 1 \in 0..MaxScan /\ scanning'[a] = scanning[a - 1]
      BY <1>1, <1>2, <2>1, <2>2
    <2> QED BY <2>1, <2>3 DEF Running
  <1>6. ASSUME NEW a \in Running
        PROVE  a + 1 \in Running' /\ a < takes.scan /\ a \in Nat
    <2>1. a \in 0..MaxScan /\ scanning[a] > 0 /\ a <= takes.scan
      BY <1>0 DEF Running, AgeInv
    <2>2. a # takes.scan
      BY <1>1, <2>1
    <2>3. a + 1 \in 0..MaxScan /\ a < takes.scan
      BY <1>2, <2>1, <2>2
    <2>4. scanning'[a + 1] = scanning[a]
      BY <1>1, <1>2, <2>1, <2>3
    <2> QED BY <2>1, <2>3, <2>4 DEF Running
  <1>7. AgeInv'
    <2> SUFFICES ASSUME NEW a \in Running'
                 PROVE  /\ scanning'[a] = 1 /\ a <= takes'.scan
                        /\ \E k \in Nat : a = scanClock' + k * Interval
      BY DEF AgeInv
    <2>1. a - 1 \in Running /\ scanning'[a] = scanning[a - 1] /\ a \in Nat
      BY <1>5
    <2>2. scanning[a - 1] = 1 /\ a - 1 < takes.scan
      BY <1>0, <1>6, <2>1 DEF AgeInv
    <2>3. PICK k \in Nat : a - 1 = scanClock + k * Interval
      BY <1>0, <2>1 DEF AgeInv
    <2>4. k * Interval \in Nat
      BY <1>2
    <2>5. a = scanClock + 1 + k * Interval
      BY <1>2, <2>1, <2>3, <2>4
    <2>6. a <= takes.scan
      BY <1>2, <2>1, <2>2
    <2> QED BY <1>1, <2>1, <2>2, <2>5, <2>6
  <1>8. Cardinality(Running)' = Cardinality(Running)
    <2> DEFINE f == [a \in Running |-> a + 1]
               T == Running'
    <2>1. IsFiniteSet(Running)
      BY <1>0, RunningFinite
    <2>2. f \in [Running -> T] /\ \A a \in Running : f[a] = a + 1
      BY <1>6
    <2> HIDE DEF f
    <2>3. \A a, b \in Running : f[a] = f[b] => a = b
      BY <1>6, <2>2
    <2>4. \A t \in T : \E a \in Running : f[a] = t
      <3> SUFFICES ASSUME NEW t \in T PROVE \E a \in Running : f[a] = t
        OBVIOUS
      <3>1. t - 1 \in Running /\ t \in Nat
        BY <1>5
      <3>2. f[t - 1] = t
        BY <2>2, <3>1
      <3> QED BY <3>1, <3>2
    <2> HIDE DEF T
    <2>5. f \in Bijection(Running, T)
      BY <2>2, <2>3, <2>4 DEF Bijection, Injection, Surjection, IsInjective
    <2>6. Cardinality(T) = Cardinality(Running)
      BY <2>1, <2>5, FS_Bijection DEF ExistsBijection
    <2> QED BY <2>6 DEF T
  <1>9. ASSUME Short' PROVE TickInv' /\ waiting' = 0
    <2>1. Short /\ TickInv /\ waiting = 0
      BY <1>0, <1>1, <1>9 DEF Short
    <2>2. Alive \in Nat /\ Fresh \in Nat
      BY <1>0, RunningFinite
    <2>3. Alive' = Alive
      BY <1>1, <1>8 DEF Alive
    <2>4. Fresh' = Fresh
      BY <1>1, <2>3 DEF Fresh
    <2>5. (Fresh - 1) * Interval \in Int /\ (Alive - 1) * Interval \in Int
      BY <1>2, <2>2
    <2> DEFINE p == (Fresh - 1) * Interval
               q == (Alive - 1) * Interval
    <2>6. /\ Fresh > 0 => p + scanClock <= flushClock + takes.scan
          /\ left > 0 => q + scanClock <= FlushInterval + flushClock + takes.scan
      BY <2>1 DEF TickInv
    <2>7. p \in Int /\ q \in Int
      BY <2>5
    <2> HIDE DEF p, q
    <2>8. /\ Fresh > 0 => p + (scanClock + 1) <= (flushClock + 1) + takes.scan
          /\ left > 0 => q + (scanClock + 1) <= FlushInterval + (flushClock + 1) + takes.scan
      BY <1>2, <2>6, <2>7
    <2> QED BY <1>1, <2>1, <2>3, <2>4, <2>8 DEF TickInv, p, q
  <1> QED BY <1>3, <1>4, <1>7, <1>9 DEF ClockInv

(* The invariant is inductive. *)
LEMMA NextInv == ClockInv /\ [Next]_vars => ClockInv'
  <1> SUFFICES ASSUME ClockInv, [Next]_vars PROVE ClockInv'
    OBVIOUS
  <1>1. CASE UNCHANGED vars
    <2>1. Running' = Running
      BY <1>1 DEF vars, Running
    <2>2. Alive' = Alive /\ Fresh' = Fresh
      BY <1>1, <2>1 DEF vars, Alive, Fresh
    <2> QED
      BY <1>1, <2>1, <2>2
      DEF vars, ClockInv, TypeOK, FlushInv, AgeInv, TickInv, Short
  <1>2. CASE Next
    BY <1>2, ScanTickInv, ScanSendInv, FlushTickInv, FlushInsertInv, FlushErrorInv, ElapseInv,
       <1>1 DEF Next, Bounded
  <1> QED BY <1>1, <1>2

-----------------------------------------------------------------------------
(* Theorems *)

LEMMA Invariance == Spec => []ClockInv
  BY InitInv, NextInv, PTL DEF Spec

(* The variables have their types; above all, never more than BufferCap    *)
(* slices are in the channel, and a flush never waits for a slice that is  *)
(* not there (polling.go:26, 103-113).                                     *)
THEOREM TypeCorrect == Spec => []TypeOK
  <1>1. ClockInv => TypeOK
    BY DEF ClockInv
  <1> QED BY <1>1, Invariance, PTL

(* For all intervals, a channel of flushInterval/interval+1 slices is      *)
(* large enough until a CMDB call fails, if scan and flush together take   *)
(* less than the flush interval lacks to the next multiple of the interval *)
(* (polling.go:26).                                                        *)
THEOREM ChannelLargeEnough == Spec => []NoScanWaits
  <1>1. ClockInv => NoScanWaits
    BY DEF ClockInv, NoScanWaits, Short
  <1> QED BY <1>1, Invariance, PTL
=============================================================================
