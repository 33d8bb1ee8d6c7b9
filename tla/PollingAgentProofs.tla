------------------------- MODULE PollingAgentProofs -------------------------
(***************************************************************************)
(* Proofs about the polling agent for any number of scans and flushes and  *)
(* any intervals.                                                          *)
(***************************************************************************)
EXTENDS PollingAgent, TLAPS

-----------------------------------------------------------------------------
(* The flow channel as a sequence without repetitions *)

LEMMA CapIsPositive == BufferCap \in Nat /\ BufferCap >= 1
BY IntervalAssumption, FlushIntervalAssumption DEF BufferCap

(* Sending a new batch adds it to the channel's elements and repeats none. *)
LEMMA AppendElems ==
  ASSUME NEW S, NEW s \in Seq(S), NEW x \in S
  PROVE  /\ Append(s, x) \in Seq(S)
         /\ Len(Append(s, x)) = Len(s) + 1
         /\ Elems(Append(s, x)) = Elems(s) \cup {x}
         /\ x \notin Elems(s) /\ NoRepeat(s) => NoRepeat(Append(s, x))
  <1>1. /\ Append(s, x) \in Seq(S)
        /\ Len(Append(s, x)) = Len(s) + 1
        /\ \A i \in 1..Len(s) : Append(s, x)[i] = s[i]
        /\ Append(s, x)[Len(s) + 1] = x
        /\ Len(s) \in Nat
    OBVIOUS
  <1> DEFINE t == Append(s, x)
  <1> HIDE DEF t
  <1>2. Elems(t) = Elems(s) \cup {x}
    BY <1>1 DEF Elems, t
  <1>3. ASSUME x \notin Elems(s), NoRepeat(s) PROVE NoRepeat(t)
    BY <1>1, <1>3 DEF Elems, NoRepeat, t
  <1> QED BY <1>1, <1>2, <1>3 DEF t

(* Receiving takes the head, and only the head, out of the channel. *)
LEMMA TailElems ==
  ASSUME NEW S, NEW s \in Seq(S), s # <<>>, NoRepeat(s)
  PROVE  /\ Head(s) \in S
         /\ Tail(s) \in Seq(S)
         /\ Len(Tail(s)) = Len(s) - 1
         /\ Head(s) \in Elems(s)
         /\ Elems(Tail(s)) = Elems(s) \ {Head(s)}
         /\ NoRepeat(Tail(s))
  <1>1. /\ Head(s) \in S
        /\ Tail(s) \in Seq(S)
        /\ Len(s) \in Nat /\ Len(s) >= 1
        /\ Len(Tail(s)) = Len(s) - 1
        /\ Head(s) = s[1]
        /\ \A i \in 1..(Len(s) - 1) : Tail(s)[i] = s[i + 1]
    OBVIOUS
  <1> DEFINE t == Tail(s)  h == Head(s)  n == Len(s)
  <1> HIDE DEF t, h, n
  <1>2. /\ n \in Nat /\ n >= 1 /\ Len(t) = n - 1 /\ h = s[1]
        /\ \A i \in 1..(n - 1) : t[i] = s[i + 1]
    BY <1>1 DEF t, h, n
  <1>3. \A i, j \in 1..n : s[i] = s[j] => i = j
    BY DEF NoRepeat, n
  <1>4. h \in Elems(s)
    BY <1>2 DEF Elems, n
  <1>5. Elems(t) \subseteq Elems(s) \ {h}
    <2> SUFFICES ASSUME NEW i \in 1..(n - 1)
                 PROVE  t[i] \in Elems(s) /\ t[i] # h
      BY <1>2 DEF Elems
    <2>1. i + 1 \in 1..n /\ i + 1 # 1 /\ 1 \in 1..n
      BY <1>2
    <2> QED BY <2>1, <1>2, <1>3 DEF Elems, n
  <1>6. Elems(s) \ {h} \subseteq Elems(t)
    <2> SUFFICES ASSUME NEW k \in 1..n, s[k] # h
                 PROVE  s[k] \in Elems(t)
      BY DEF Elems, n
    <2>1. k - 1 \in 1..(n - 1) /\ (k - 1) + 1 = k
      BY <1>2
    <2>2. t[k - 1] = s[k]
      BY <2>1, <1>2
    <2> QED BY <2>1, <2>2, <1>2 DEF Elems
  <1>7. NoRepeat(t)
    <2> SUFFICES ASSUME NEW i \in 1..(n - 1), NEW j \in 1..(n - 1), t[i] = t[j]
                 PROVE  i = j
      BY <1>2 DEF NoRepeat
    <2>1. i + 1 \in 1..n /\ j + 1 \in 1..n
      BY <1>2
    <2>2. s[i + 1] = s[j + 1]
      BY <1>2
    <2>3. i + 1 = j + 1
      BY <2>1, <2>2, <1>3
    <2> QED BY <2>3
  <1> QED BY <1>1, <1>4, <1>5, <1>6, <1>7 DEF t, h

-----------------------------------------------------------------------------
(* Type correctness *)

(* Initially nothing is scanned, buffered or inserted. *)
LEMMA InitTypeOK == Init => TypeOK
BY CapIsPositive DEF Init, TypeOK, ErrCap

(* Every step keeps the types and the channel capacities. *)
LEMMA NextTypeOK == TypeOK /\ [Next]_vars => TypeOK'
  <1> SUFFICES ASSUME TypeOK, [Next]_vars PROVE TypeOK'
    OBVIOUS
  <1> USE CapIsPositive DEF TypeOK, ErrCap, scanVars, flushVars
  <1>1. ASSUME NEW b \in Batch, ScanTick(b) \/ ScanOk(b) \/ ScanFail(b)
                                \/ ScanSendErr(b) \/ ScanPanic(b)
        PROVE  TypeOK'
    BY <1>1 DEF ScanTick, ScanOk, ScanFail, ScanSendErr, ScanPanic
  <1>2. ASSUME NEW b \in Batch, ScanSend(b) PROVE TypeOK'
    BY <1>2, AppendElems DEF ScanSend
  <1>3. ASSUME NEW g \in Flusher, FlushTick(g) PROVE TypeOK'
    BY <1>3 DEF FlushTick
  <1>4. ASSUME NEW g \in Flusher, FlushRecv(g) PROVE TypeOK'
    <2>1. /\ Head(buffer) \in Batch
          /\ buffer' \in Seq(Batch)
          /\ Len(buffer') <= BufferCap
      BY <1>4 DEF FlushRecv
    <2> QED BY <1>4, <2>1 DEF FlushRecv
  <1>5. ASSUME NEW g \in Flusher, FlushRecvClosed(g) \/ FlushDone(g)
                                  \/ FlushSendErr(g)
        PROVE  TypeOK'
    <2>1. CASE FlushRecvClosed(g)
      BY <2>1 DEF FlushRecvClosed
    <2>2. CASE FlushDone(g)
      BY <2>2 DEF FlushDone
    <2>3. CASE FlushSendErr(g)
      BY <2>3 DEF FlushSendErr
    <2> QED BY <1>5, <2>1, <2>2, <2>3
  <1>6. ASSUME NEW g \in Flusher, Insert(g) PROVE TypeOK'
    BY <1>6 DEF Insert, InsertEmpty, InsertOk, InsertErr, Held
  <1>7. CASE WatchRecvErr \/ FlusherRecvErr
    BY <1>7 DEF WatchRecvErr, FlusherRecvErr
  <1>8. CASE Signal \/ ShutdownStep \/ Closed \/ InsertPanic
    BY <1>8 DEF InsertPanic, Signal, ShutdownStep, CloseDb, Closed, CloseBuffer,
                Exit
  <1>9. CASE Gone \/ UNCHANGED vars
    BY <1>9 DEF Gone, vars
  <1> QED BY <1>1, <1>2, <1>3, <1>4, <1>5, <1>6, <1>7, <1>8, <1>9
          DEF Next, ScanStep, FlushStep

(* The variables keep their types and no channel holds more than it was    *)
(* made for, whatever the intervals and however many goroutines run.       *)
THEOREM TypeCorrect == Spec => []TypeOK
  <1> QED BY InitTypeOK, NextTypeOK, PTL DEF Spec

-----------------------------------------------------------------------------
(* Conservation of batches *)

(* A step that leaves every place alone keeps the invariant. *)
LEMMA PlacesUnchanged ==
  ASSUME EachBatchInOnePlace, UNCHANGED <<Sent, buffer, cur, acked, dropped>>
  PROVE  EachBatchInOnePlace'
BY DEF EachBatchInOnePlace, PlacesCoverSent, PlacesDisjoint, HeldByOneFlush,
       Buffered, Inserting, Settled, Elems, NoRepeat

(* buffer <- flows: the batch enters the channel. *)
LEMMA SendKeepsPlaces ==
  ASSUME IInv, NEW b \in Batch, ScanSend(b)
  PROVE  EachBatchInOnePlace' /\ HoldOnlyInInsert'
  <1> USE DEF IInv, TypeOK, ScanSend, flushVars
  <1>1. /\ buffer \in Seq(Batch)
        /\ buffer' = Append(buffer, b)
        /\ UNCHANGED <<pc, cur, acked, dropped>>
    OBVIOUS
  <1>2. b \notin Sent /\ Sent' = Sent \cup {b}
    BY DEF Sent
  <1>3. b \notin Buffered \cup Inserting \cup Settled
    BY <1>2 DEF EachBatchInOnePlace, PlacesCoverSent
  <1>4. /\ Buffered' = Buffered \cup {b}
        /\ NoRepeat(buffer)'
    BY <1>1, <1>3, AppendElems DEF EachBatchInOnePlace, Buffered
  <1>5. Inserting' = Inserting /\ Settled' = Settled
    BY <1>1 DEF Inserting, Settled
  <1>6. HeldByOneFlush' /\ HoldOnlyInInsert'
    BY <1>1 DEF EachBatchInOnePlace, HeldByOneFlush, HoldOnlyInInsert
  <1>7. PlacesCoverSent' /\ PlacesDisjoint'
    BY <1>1, <1>2, <1>3, <1>4, <1>5
       DEF EachBatchInOnePlace, PlacesCoverSent, PlacesDisjoint
  <1> QED BY <1>4, <1>6, <1>7 DEF EachBatchInOnePlace

(* flows := <-buffer: the batch goes from the channel into the hands of g. *)
LEMMA RecvKeepsPlaces ==
  ASSUME IInv, NEW g \in Flusher, FlushRecv(g)
  PROVE  EachBatchInOnePlace' /\ HoldOnlyInInsert'
  <1> DEFINE b == Head(buffer)
  <1> USE DEF IInv, TypeOK, FlushRecv, scanVars
  <1>1. /\ b \in Batch
        /\ b \in Buffered
        /\ Buffered' = Buffered \ {b}
        /\ NoRepeat(buffer)'
    BY TailElems DEF EachBatchInOnePlace, Buffered
  <1>2. Sent' = Sent /\ Settled' = Settled
    BY DEF Sent, Settled
  <1> HIDE DEF b
  <1>3. /\ cur[g] = NoBatch
        /\ cur' = [cur EXCEPT ![g] = b]
        /\ pc' = [pc EXCEPT ![g] = "insert"]
        /\ b # NoBatch
    BY <1>1, NoBatchAssumption DEF HoldOnlyInInsert, b
  <1>4. Inserting' = Inserting \cup {b}
    BY <1>3 DEF Inserting
  <1>5. b \notin Inserting
    BY <1>1 DEF EachBatchInOnePlace, PlacesDisjoint
  <1>6. HeldByOneFlush'
    <2>1. \A h \in Flusher : cur[h] # b
      BY <1>3, <1>5 DEF Inserting
    <2> QED BY <1>3, <2>1 DEF EachBatchInOnePlace, HeldByOneFlush
  <1>7. HoldOnlyInInsert'
    BY <1>3 DEF HoldOnlyInInsert
  <1>8. PlacesCoverSent' /\ PlacesDisjoint'
    BY <1>1, <1>2, <1>4, <1>5
       DEF EachBatchInOnePlace, PlacesCoverSent, PlacesDisjoint
  <1> QED BY <1>1, <1>6, <1>7, <1>8 DEF EachBatchInOnePlace

(* InsertOrUpdateHostFlows returns: what g held is settled, one way only.  *)
LEMMA InsertKeepsPlaces ==
  ASSUME IInv, NEW g \in Flusher, Insert(g)
  PROVE  EachBatchInOnePlace' /\ HoldOnlyInInsert'
  <1> USE DEF IInv, TypeOK
  <1>1. /\ cur' = [cur EXCEPT ![g] = NoBatch]
        /\ UNCHANGED <<scan, buffer>>
        /\ \/ acked' = acked \cup Held(g) /\ dropped' = dropped
           \/ dropped' = dropped \cup Held(g) /\ acked' = acked
        /\ \A h \in Flusher \ {g} : pc'[h] = pc[h]
    BY DEF Insert, InsertEmpty, InsertOk, InsertErr, scanVars
  <1>2. Held(g) \subseteq Inserting
    BY DEF Held, Inserting
  <1>3. Inserting' = Inserting \ Held(g)
    BY <1>1 DEF EachBatchInOnePlace, HeldByOneFlush, Held, Inserting
  <1>4. Settled' = Settled \cup Held(g)
    BY <1>1 DEF Settled
  <1>5. Sent' = Sent /\ Buffered' = Buffered /\ NoRepeat(buffer)'
    BY <1>1 DEF Sent, Buffered, EachBatchInOnePlace
  <1>6. HeldByOneFlush' /\ HoldOnlyInInsert'
    BY <1>1 DEF EachBatchInOnePlace, HeldByOneFlush, HoldOnlyInInsert
  <1>7. acked' \cap dropped' = {}
    BY <1>1, <1>2 DEF EachBatchInOnePlace, PlacesDisjoint, Settled
  <1>8. PlacesCoverSent' /\ PlacesDisjoint'
    BY <1>2, <1>3, <1>4, <1>5, <1>7
       DEF EachBatchInOnePlace, PlacesCoverSent, PlacesDisjoint
  <1> QED BY <1>5, <1>6, <1>8 DEF EachBatchInOnePlace

(* Initially no batch is anywhere. *)
LEMMA InitIInv == Init => IInv
  <1> SUFFICES ASSUME Init PROVE IInv
    OBVIOUS
  <1>1. Buffered = {} /\ Inserting = {} /\ Settled = {} /\ Sent = {}
    BY DEF Init, Buffered, Elems, Inserting, Settled, Sent
  <1>2. NoRepeat(buffer) /\ HeldByOneFlush /\ HoldOnlyInInsert
    BY DEF Init, NoRepeat, HeldByOneFlush, HoldOnlyInInsert
  <1>3. acked \cap dropped = {}
    BY DEF Init
  <1> QED BY <1>1, <1>2, <1>3, InitTypeOK
          DEF IInv, EachBatchInOnePlace, PlacesCoverSent, PlacesDisjoint

(* Every step keeps each sent batch in one place. *)
LEMMA NextIInv == IInv /\ [Next]_vars => IInv'
  <1> SUFFICES ASSUME IInv, [Next]_vars PROVE IInv'
    OBVIOUS
  <1>0. TypeOK /\ TypeOK'
    BY NextTypeOK DEF IInv
  <1> DEFINE Goal == EachBatchInOnePlace' /\ HoldOnlyInInsert'
  <1>1. ASSUME NEW b \in Batch, ScanTick(b) \/ ScanOk(b) \/ ScanFail(b)
                                \/ ScanSendErr(b) \/ ScanPanic(b)
        PROVE  Goal
    <2>1. Sent' = Sent
      BY <1>0, <1>1 DEF TypeOK, Sent, ScanTick, ScanOk, ScanFail, ScanSendErr,
                        ScanPanic, scanVars
    <2>2. UNCHANGED <<buffer, cur, acked, dropped, pc>>
      BY <1>1 DEF ScanTick, ScanOk, ScanFail, ScanSendErr, ScanPanic, flushVars
    <2> QED BY <2>1, <2>2, PlacesUnchanged DEF IInv, HoldOnlyInInsert
  <1>2. ASSUME NEW b \in Batch, ScanSend(b) PROVE Goal
    BY <1>2, SendKeepsPlaces
  <1>3. ASSUME NEW g \in Flusher, FlushTick(g) \/ FlushRecvClosed(g)
                                  \/ FlushDone(g) \/ FlushSendErr(g)
        PROVE  Goal
    <2>1. UNCHANGED <<Sent, buffer, cur, acked, dropped>>
      BY <1>3 DEF Sent, FlushTick, FlushRecvClosed, FlushDone, FlushSendErr,
                  scanVars
    <2>2. HoldOnlyInInsert'
      BY <1>0, <1>3 DEF IInv, TypeOK, HoldOnlyInInsert, FlushTick,
                        FlushRecvClosed, FlushDone, FlushSendErr
    <2> QED BY <2>1, <2>2, PlacesUnchanged DEF IInv
  <1>4. ASSUME NEW g \in Flusher, FlushRecv(g) PROVE Goal
    BY <1>4, RecvKeepsPlaces
  <1>5. ASSUME NEW g \in Flusher, Insert(g) PROVE Goal
    BY <1>5, InsertKeepsPlaces
  <1>6. ASSUME \/ WatchRecvErr \/ FlusherRecvErr \/ Signal \/ ShutdownStep
               \/ Closed \/ InsertPanic \/ Gone \/ UNCHANGED vars
        PROVE  Goal
    <2>1. UNCHANGED <<scan, buffer, cur, acked, dropped, pc>>
      BY <1>6 DEF WatchRecvErr, FlusherRecvErr, Signal, ShutdownStep, CloseDb,
                  CloseBuffer, Closed, Exit, InsertPanic, Gone, vars, scanVars,
                  flushVars
    <2>2. UNCHANGED <<Sent, buffer, cur, acked, dropped>>
      BY <2>1 DEF Sent
    <2> QED BY <2>1, <2>2, PlacesUnchanged DEF IInv, HoldOnlyInInsert
  <1> QED BY <1>0, <1>1, <1>2, <1>3, <1>4, <1>5, <1>6
          DEF IInv, Next, ScanStep, FlushStep

(* A sent batch is in exactly one place, for any number of overlapping     *)
(* scans and flushes.                                                      *)
THEOREM BatchesConserved == Spec => []EachBatchInOnePlace
  <1>1. IInv => EachBatchInOnePlace
    BY DEF IInv
  <1> QED BY InitIInv, NextIInv, <1>1, PTL DEF Spec

-----------------------------------------------------------------------------
(* The agent implements FlowPipe *)

(* Every step of the agent is a step of the pipe or leaves it alone. *)
LEMMA NextRefines == IInv /\ [Next]_vars => [Pipe!Next]_(Pipe!pipeVars)
  <1> SUFFICES ASSUME IInv, [Next]_vars
               PROVE  Pipe!Next \/ UNCHANGED <<Sent, acked, dropped>>
    BY DEF Pipe!pipeVars
  <1> USE DEF IInv, TypeOK, scanVars, flushVars
  <1>1. ASSUME NEW b \in Batch, ScanTick(b) \/ ScanOk(b) \/ ScanFail(b)
                                \/ ScanSendErr(b) \/ ScanPanic(b)
        PROVE  UNCHANGED <<Sent, acked, dropped>>
    BY <1>1 DEF Sent, ScanTick, ScanOk, ScanFail, ScanSendErr, ScanPanic
  <1>2. ASSUME NEW b \in Batch, ScanSend(b) PROVE Pipe!Collect(b)
    BY <1>2 DEF ScanSend, Sent, Pipe!Collect
  <1>3. ASSUME NEW g \in Flusher, \/ FlushTick(g) \/ FlushRecv(g)
                                  \/ FlushRecvClosed(g) \/ FlushDone(g)
                                  \/ FlushSendErr(g)
        PROVE  UNCHANGED <<Sent, acked, dropped>>
    BY <1>3 DEF Sent, FlushTick, FlushRecv, FlushRecvClosed, FlushDone,
                FlushSendErr
  <1>4. ASSUME NEW g \in Flusher, Insert(g)
        PROVE  \/ UNCHANGED <<Sent, acked, dropped>>
               \/ \E b \in Batch : Pipe!Ack(b) \/ Pipe!Drop(b)
    <2>1. /\ Sent' = Sent
          /\ \/ acked' = acked \cup Held(g) /\ dropped' = dropped
             \/ dropped' = dropped \cup Held(g) /\ acked' = acked
      BY <1>4 DEF Insert, InsertEmpty, InsertOk, InsertErr, Sent
    <2>2. CASE cur[g] = NoBatch
      BY <2>1, <2>2 DEF Held
    <2>3. CASE cur[g] # NoBatch
      <3>1. cur[g] \in Batch /\ cur[g] \in Inserting /\ Held(g) = {cur[g]}
        BY <2>3 DEF Inserting, Held
      <3>2. Pipe!InFlight(cur[g])
        BY <3>1 DEF EachBatchInOnePlace, PlacesCoverSent, PlacesDisjoint,
                    Settled, Pipe!InFlight
      <3>3. Pipe!Ack(cur[g]) \/ Pipe!Drop(cur[g])
        BY <2>1, <3>1, <3>2 DEF Pipe!Ack, Pipe!Drop
      <3> QED BY <3>1, <3>3
    <2> QED BY <2>2, <2>3
  <1>5. ASSUME \/ WatchRecvErr \/ FlusherRecvErr \/ Signal \/ ShutdownStep
               \/ Closed \/ InsertPanic \/ Gone \/ UNCHANGED vars
        PROVE  UNCHANGED <<Sent, acked, dropped>>
    BY <1>5 DEF Sent, WatchRecvErr, FlusherRecvErr, Signal, ShutdownStep,
                CloseDb, CloseBuffer, Closed, Exit, InsertPanic, Gone, vars
  <1> QED BY <1>1, <1>2, <1>3, <1>4, <1>5
          DEF Next, ScanStep, FlushStep, Pipe!Next

(* The agent implements the abstract pipe: no batch is acked or given up   *)
(* that was not collected, and none is settled twice.                      *)
THEOREM ImplementsPipe == Spec => PipeSpec
  <1>1. Init => Pipe!Init
    BY DEF Init, Sent, Pipe!Init
  <1> QED BY <1>1, InitIInv, NextIInv, NextRefines, PTL
          DEF Spec, PipeSpec, Pipe!Spec

-----------------------------------------------------------------------------
(* A flush that runs alone *)

(* A step of an agent whose flushes do not overlap keeps len(buffer) above *)
(* the receives that are left.                                             *)
LEMMA NextFlushNeverBlocks ==
  TypeOK /\ FlushNeverBlocks /\ [Next]_vars => FlushNeverBlocks'
  <1> SUFFICES ASSUME TypeOK, [Next]_vars,
                      \A g, h \in Flusher : g = h,
                      NEW f \in Flusher,
                      pc[f] \in {"loop", "insert"} => left[f] <= Len(buffer),
                      pc'[f] \in {"loop", "insert"}
               PROVE  left'[f] <= Len(buffer')
    BY DEF FlushNeverBlocks
  <1> USE CapIsPositive DEF TypeOK, scanVars, flushVars
  <1>0. Len(buffer) \in Nat /\ left[f] \in Nat
    OBVIOUS
  <1>1. ASSUME NEW b \in Batch, ScanTick(b) \/ ScanOk(b) \/ ScanFail(b)
                                \/ ScanSendErr(b) \/ ScanPanic(b)
        PROVE  left'[f] <= Len(buffer')
    BY <1>1 DEF ScanTick, ScanOk, ScanFail, ScanSendErr, ScanPanic
  <1>2. ASSUME NEW b \in Batch, ScanSend(b) PROVE left'[f] <= Len(buffer')
    <2>1. Len(buffer') = Len(buffer) + 1
      BY <1>2, AppendElems DEF ScanSend
    <2> QED BY <1>0, <1>2, <2>1 DEF ScanSend
  <1>3. CASE FlushTick(f)
    BY <1>3 DEF FlushTick
  <1>4. CASE FlushRecv(f)
    <2>1. Len(buffer') = Len(buffer) - 1
      BY <1>4 DEF FlushRecv
    <2>2. left'[f] = left[f] - 1 /\ pc[f] = "loop"
      BY <1>4 DEF FlushRecv
    <2> QED BY <1>0, <2>1, <2>2
  <1>5. CASE FlushRecvClosed(f)
    BY <1>5 DEF FlushRecvClosed
  <1>6. CASE FlushDone(f)
    BY <1>6 DEF FlushDone
  <1>7. CASE FlushSendErr(f)
    BY <1>7 DEF FlushSendErr
  <1>8. CASE Insert(f)
    BY <1>8 DEF Insert, InsertEmpty, InsertOk, InsertErr
  <1>9. CASE \/ WatchRecvErr \/ FlusherRecvErr \/ Signal \/ ShutdownStep
             \/ Closed \/ InsertPanic \/ Gone \/ UNCHANGED vars
    BY <1>9 DEF WatchRecvErr, FlusherRecvErr, Signal, ShutdownStep, CloseDb,
                CloseBuffer, Closed, Exit, InsertPanic, Gone, vars
  <1> QED BY <1>1, <1>2, <1>3, <1>4, <1>5, <1>6, <1>7, <1>8, <1>9
          DEF Next, ScanStep, FlushStep

(* As long as flushes do not overlap, the length of the channel read at    *)
(* the start of a flush is never too large for the receives that follow.   *)
THEOREM FlushAloneNeverBlocks == Spec => []FlushNeverBlocks
  <1>1. Init => FlushNeverBlocks
    BY DEF Init, FlushNeverBlocks
  <1> QED BY <1>1, InitTypeOK, NextTypeOK, NextFlushNeverBlocks, PTL DEF Spec
=============================================================================
