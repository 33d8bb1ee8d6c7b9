------------------------ MODULE StreamingAgentProofs ------------------------
(***************************************************************************)
(* Proofs about the streaming agent for any flows, any channel size and    *)
(* any number of events and failing calls.                                 *)
(***************************************************************************)
EXTENDS StreamingAgent, FiniteSetTheorems, TLAPS

-----------------------------------------------------------------------------
(* The flows of a key in the channel *)

(* The flows of a key in a channel can be counted. *)
LEMMA CountInType ==
  ASSUME NEW S, NEW s \in Seq(S), NEW k
  PROVE  /\ IsFiniteSet({i \in 1..Len(s) : s[i] = k})
         /\ CountIn(s, k) \in Nat
  <1>1. IsFiniteSet(1..Len(s))
    BY FS_Interval
  <1>2. IsFiniteSet({i \in 1..Len(s) : s[i] = k})
    BY <1>1, FS_Subset
  <1> QED BY <1>2, FS_CardinalityType DEF CountIn

(* Sending a flow adds one to the count of its key, and to no other. *)
LEMMA CountInAppend ==
  ASSUME NEW S, NEW s \in Seq(S), NEW x \in S, NEW k
  PROVE  CountIn(Append(s, x), k) = CountIn(s, k) + (IF x = k THEN 1 ELSE 0)
  <1> DEFINE n == Len(s)
             t == Append(s, x)
             A == {i \in 1..n : s[i] = k}
             B == {i \in 1..(n + 1) : t[i] = k}
  <1>1. n \in Nat /\ Len(t) = n + 1 /\ t[n + 1] = x /\ \A i \in 1..n : t[i] = s[i]
    OBVIOUS
  <1>2. /\ IsFiniteSet(A) /\ Cardinality(A) \in Nat
        /\ CountIn(s, k) = Cardinality(A) /\ CountIn(t, k) = Cardinality(B)
    BY <1>1, CountInType DEF CountIn
  <1> HIDE DEF n, t
  <1>3. B = IF x = k THEN A \cup {n + 1} ELSE A
    BY <1>1
  <1>4. n + 1 \notin A
    BY <1>1
  <1> HIDE DEF A, B
  <1>5. Cardinality(B) = Cardinality(A) + (IF x = k THEN 1 ELSE 0)
    <2>1. CASE x = k
      <3>1. Cardinality(A \cup {n + 1}) = Cardinality(A) + 1
        BY <1>2, <1>4, FS_AddElement
      <3> QED BY <1>3, <2>1, <3>1
    <2>2. CASE x # k
      BY <1>2, <1>3, <2>2
    <2> QED BY <2>1, <2>2
  <1> QED BY <1>2, <1>5 DEF t

(* Receiving takes one from the count of the key at the head. *)
LEMMA CountInTail ==
  ASSUME NEW S, NEW s \in Seq(S), s # <<>>, NEW k
  PROVE  CountIn(s, k) = CountIn(Tail(s), k) + (IF Head(s) = k THEN 1 ELSE 0)
  <1> DEFINE n == Len(s)
             t == Tail(s)
             A == {i \in 1..(n - 1) : t[i] = k}
             B == {i \in 2..n : s[i] = k}
             C == {i \in 1..n : s[i] = k}
             f == [i \in A |-> i + 1]
  <1>1. /\ n \in Nat /\ n >= 1 /\ Len(t) = n - 1 /\ Head(s) = s[1]
        /\ t \in Seq(S)
        /\ \A i \in 1..(n - 1) : t[i] = s[i + 1]
    OBVIOUS
  <1>2. /\ IsFiniteSet(A) /\ Cardinality(A) \in Nat
        /\ CountIn(t, k) = Cardinality(A) /\ CountIn(s, k) = Cardinality(C)
    BY <1>1, CountInType DEF CountIn
  <1> HIDE DEF n, t
  <1>3. f \in Bijection(A, B)
    <2>1. f \in [A -> B]
      BY <1>1
    <2>2. ASSUME NEW i \in A, NEW j \in A, f[i] = f[j] PROVE i = j
      BY <2>2, <1>1
    <2>3. ASSUME NEW j \in B PROVE \E i \in A : f[i] = j
      <3>1. j - 1 \in A /\ (j - 1) + 1 = j
        BY <1>1
      <3>2. f[j - 1] = j
        BY <3>1
      <3> QED BY <3>1, <3>2
    <2> HIDE DEF f, A, B
    <2> QED BY <2>1, <2>2, <2>3 DEF Bijection, Injection, Surjection, IsInjective
  <1>4. C = (IF s[1] = k THEN B \cup {1} ELSE B) /\ 1 \notin B
    BY <1>1
  <1> HIDE DEF f, A, B, C
  <1>5. IsFiniteSet(B) /\ Cardinality(B) = Cardinality(A)
    <2>1. ExistsBijection(A, B)
      BY <1>3 DEF ExistsBijection
    <2> QED BY <1>2, <2>1, FS_Bijection
  <1>6. Cardinality(C) = Cardinality(B) + (IF s[1] = k THEN 1 ELSE 0)
    <2>1. CASE s[1] = k
      <3>1. Cardinality(B \cup {1}) = Cardinality(B) + 1
        BY <1>4, <1>5, FS_AddElement
      <3> QED BY <1>4, <2>1, <3>1
    <2>2. CASE s[1] # k
      BY <1>2, <1>4, <1>5, <2>2
    <2> QED BY <2>1, <2>2
  <1> QED BY <1>1, <1>2, <1>5, <1>6 DEF t

-----------------------------------------------------------------------------
(* Type correctness *)

(* Sending keeps the channel a sequence of flows, one longer. *)
LEMMA SendType ==
  ASSUME TypeOK, CbSend
  PROVE  /\ hand \in Key
         /\ aggBuffer' \in Seq(Key) /\ Len(aggBuffer') = Len(aggBuffer) + 1
         /\ Len(aggBuffer) \in Nat
  BY DEF TypeOK, CbSend

(* Receiving keeps the channel a sequence of flows, one shorter. *)
LEMMA ReceiveType ==
  ASSUME TypeOK, AggDrain
  PROVE  /\ Head(aggBuffer) \in Key
         /\ aggBuffer' \in Seq(Key) /\ Len(aggBuffer') = Len(aggBuffer) - 1
         /\ Len(aggBuffer) \in Nat
  BY DEF TypeOK, AggDrain

(* A slice of flows added to a total per flow is a total per flow, and adds *)
(* to each flow what the slice has of it.                                  *)
LEMMA AddToType ==
  ASSUME TypeOK, NEW total \in [Key -> Nat]
  PROVE  /\ AddTo(total) \in [Key -> Nat]
         /\ \A k \in Key :
              AddTo(total)[k] = total[k] + (IF k \in DOMAIN aggMap THEN aggMap[k] ELSE 0)
  BY DEF TypeOK, AddTo

(* Initially nothing is traced, buffered or counted. *)
LEMMA InitTypeOK == Init => TypeOK
BY BufSizeAssumption, BoundsAssumption DEF Init, TypeOK, ErrCap, Zero, NoFlows

(* Every step keeps the types and the channel capacities. *)
LEMMA NextTypeOK == TypeOK /\ [Next]_vars => TypeOK'
  <1> SUFFICES ASSUME TypeOK, [Next]_vars PROVE TypeOK'
    OBVIOUS
  <1> USE BufSizeAssumption, BoundsAssumption DEF ErrCap, aggVars
  <1>1. ASSUME NEW k \in Key, TraceEvent(k) PROVE TypeOK'
    <2>1. events' \in 0..MaxEvents
      BY <1>1 DEF TraceEvent, TypeOK
    <2>2. traced' \in [Key -> Nat]
      BY <1>1 DEF TraceEvent, TypeOK
    <2> QED BY <1>1, <2>1, <2>2 DEF TraceEvent, TypeOK
  <1>2. CASE CbSend
    <2>1. Len(aggBuffer') <= BufSize
      BY <1>2, SendType DEF CbSend, TypeOK
    <2> QED BY <1>2, <2>1, SendType DEF CbSend, TypeOK
  <1>3. CASE AggTick
    BY <1>3 DEF AggTick, TypeOK
  <1>4. CASE AggDrain
    <2>0. /\ DOMAIN aggMap \subseteq Key /\ \A j \in DOMAIN aggMap : aggMap[j] \in Nat \ {0}
          /\ left \in 0..BufSize /\ Len(aggBuffer) <= BufSize
      BY DEF TypeOK
    <2>1. DOMAIN aggMap' \subseteq Key /\ aggMap' \in [DOMAIN aggMap' -> Nat \ {0}]
      BY <1>4, <2>0, ReceiveType DEF AggDrain, Counted
    <2>2. left' \in 0..BufSize /\ Len(aggBuffer') <= BufSize
      BY <1>4, <2>0, ReceiveType DEF AggDrain
    <2> QED BY <1>4, <2>1, <2>2, ReceiveType DEF AggDrain, TypeOK
  <1>5. CASE AggDrained
    BY <1>5 DEF AggDrained, TypeOK
  <1>6. CASE InsertOk
    <2>1. sent' \in [Key -> Nat]
      BY <1>6, AddToType DEF InsertOk, TypeOK
    <2> QED BY <1>6, <2>1 DEF InsertOk, NoFlows, TypeOK
  <1>7. CASE InsertErr
    <2>1. lost' \in [Key -> Nat]
      BY <1>7, AddToType DEF InsertErr, TypeOK
    <2> QED BY <1>7, <2>1 DEF InsertErr, NoFlows, TypeOK
  <1>8. CASE AggSendErr
    BY <1>8 DEF AggSendErr, TypeOK
  <1>9. CASE AggRecvErr
    BY <1>9 DEF AggRecvErr, TypeOK
  <1>10. CASE Killed
    BY <1>10 DEF Killed, TypeOK
  <1>11. CASE UNCHANGED vars
    BY <1>11 DEF vars, TypeOK
  <1> QED BY <1>1, <1>2, <1>3, <1>4, <1>5, <1>6, <1>7, <1>8, <1>9, <1>10, <1>11
          DEF Next, Aggregator

(* The channels of the streaming agent keep to their capacities, and no    *)
(* flow without a connection is ever inserted.                             *)
THEOREM TypeCorrect == Spec => []TypeOK
BY InitTypeOK, NextTypeOK, PTL DEF Spec

-----------------------------------------------------------------------------
(* aggregate *)

(* The receives of aggregate keep pace with the length that it has read. *)
LEMMA NextDrainNeverBlocks ==
  TypeOK /\ DrainNeverBlocks /\ [Next]_vars => DrainNeverBlocks'
  <1> SUFFICES ASSUME TypeOK, DrainNeverBlocks, [Next]_vars, pc' = "drain"
               PROVE  left' <= Len(aggBuffer')
    BY DEF DrainNeverBlocks
  <1> USE DEF aggVars, DrainNeverBlocks
  <1>0. left \in Nat /\ Len(aggBuffer) \in Nat
    BY BufSizeAssumption DEF TypeOK
  <1>1. CASE CbSend
    BY <1>0, <1>1, SendType DEF CbSend
  <1>2. CASE AggTick
    BY <1>0, <1>2 DEF AggTick
  <1>3. CASE AggDrain
    BY <1>0, <1>3, ReceiveType DEF AggDrain
  <1>4. CASE AggDrained \/ InsertOk \/ InsertErr \/ AggSendErr
    BY <1>4 DEF AggDrained, InsertOk, InsertErr, AggSendErr
  <1>5. CASE \/ \E k \in Key : TraceEvent(k)
             \/ AggRecvErr \/ Killed \/ UNCHANGED vars
    BY <1>5 DEF TraceEvent, AggRecvErr, Killed, vars
  <1> QED BY <1>1, <1>2, <1>3, <1>4, <1>5 DEF Next, Aggregator

(* However fast the tracer fills the channel meanwhile, aggregate never    *)
(* receives from an empty channel (streaming.go:69-76).                    *)
THEOREM AggregateNeverBlocks == Spec => []DrainNeverBlocks
  <1>1. Init => DrainNeverBlocks
    BY DEF Init, DrainNeverBlocks
  <1> QED BY <1>1, InitTypeOK, NextTypeOK, NextDrainNeverBlocks, PTL DEF Spec

-----------------------------------------------------------------------------
(* Conservation of connections *)

(* The connections of a flow that the aggregated flows have. *)
InMap(k) == IF k \in DOMAIN aggMap THEN aggMap[k] ELSE 0

(* The connections of flow k, wherever they are. *)
Found(k) == (IF hand = k THEN 1 ELSE 0) + CountIn(aggBuffer, k) + InMap(k) + sent[k] + lost[k]

LEMMA CountedIsFound ==
  EveryConnectionCounted <=> \A k \in Key : traced[k] = Found(k)
BY DEF EveryConnectionCounted, Found, InMap

(* A step moves connections from place to place, and a traced event adds   *)
(* one that is found at once.                                              *)
LEMMA NextEveryConnectionCounted ==
  TypeOK /\ EveryConnectionCounted /\ [Next]_vars => EveryConnectionCounted'
  <1> SUFFICES ASSUME TypeOK, EveryConnectionCounted, [Next]_vars, NEW k \in Key
               PROVE  traced'[k] = Found(k)'
    BY DEF EveryConnectionCounted, Found, InMap
  <1> USE DEF aggVars
  <1>0. /\ traced[k] = Found(k) /\ k # NoKey
        /\ CountIn(aggBuffer, k) \in Nat /\ InMap(k) \in Nat
        /\ traced[k] \in Nat /\ sent[k] \in Nat /\ lost[k] \in Nat
    BY CountedIsFound, CountInType, NoKeyAssumption DEF TypeOK, InMap
  <1>1. ASSUME NEW j \in Key, TraceEvent(j) PROVE traced'[k] = Found(k)'
    <2>1. traced'[k] = traced[k] + (IF j = k THEN 1 ELSE 0)
      BY <1>0, <1>1 DEF TraceEvent, TypeOK
    <2> QED BY <1>0, <1>1, <2>1 DEF TraceEvent, Found, InMap
  <1>2. CASE CbSend
    <2>1. CountIn(aggBuffer', k) = CountIn(aggBuffer, k) + (IF hand = k THEN 1 ELSE 0)
      BY <1>2, SendType, CountInAppend DEF CbSend, TypeOK
    <2> QED BY <1>0, <1>2, <2>1 DEF CbSend, Found, InMap
  <1>3. CASE AggDrain
    <2>1. CountIn(aggBuffer, k)
            = CountIn(aggBuffer', k) + (IF Head(aggBuffer) = k THEN 1 ELSE 0)
      BY <1>3, CountInTail DEF AggDrain, TypeOK
    <2>2. InMap(k)' = InMap(k) + (IF Head(aggBuffer) = k THEN 1 ELSE 0)
      BY <1>0, <1>3 DEF AggDrain, Counted, InMap
    <2>3. CountIn(aggBuffer', k) \in Nat
      BY <1>3, ReceiveType, CountInType
    <2>4. UNCHANGED <<traced, hand, sent, lost>>
      BY <1>3 DEF AggDrain
    <2> QED BY <1>0, <2>1, <2>2, <2>3, <2>4 DEF Found
  <1>4. CASE InsertOk
    <2>1. sent'[k] = sent[k] + InMap(k) /\ InMap(k)' = 0
      BY <1>4, AddToType DEF InsertOk, InMap, NoFlows, TypeOK
    <2> QED BY <1>0, <1>4, <2>1 DEF InsertOk, Found
  <1>5. CASE InsertErr
    <2>1. lost'[k] = lost[k] + InMap(k) /\ InMap(k)' = 0
      BY <1>5, AddToType DEF InsertErr, InMap, NoFlows, TypeOK
    <2> QED BY <1>0, <1>5, <2>1 DEF InsertErr, Found
  <1>6. CASE \/ AggTick \/ AggDrained \/ AggSendErr \/ AggRecvErr \/ Killed
             \/ UNCHANGED vars
    <2>1. UNCHANGED <<traced, hand, aggBuffer, aggMap, sent, lost>>
      BY <1>6 DEF AggTick, AggDrained, AggSendErr, AggRecvErr, Killed, vars
    <2> QED BY <1>0, <2>1 DEF Found, InMap
  <1> QED BY <1>1, <1>2, <1>3, <1>4, <1>5, <1>6 DEF Next, Aggregator

(* Initially nothing is traced and nothing is found. *)
LEMMA InitEveryConnectionCounted == Init => EveryConnectionCounted
  <1> SUFFICES ASSUME Init, NEW k \in Key PROVE traced[k] = Found(k)
    BY CountedIsFound
  <1>1. {i \in 1..Len(aggBuffer) : aggBuffer[i] = k} = {}
    BY DEF Init
  <1>2. CountIn(aggBuffer, k) = 0
    BY <1>1, FS_EmptySet DEF CountIn
  <1> QED BY <1>2, NoKeyAssumption DEF Init, Found, InMap, Zero, NoFlows

(* While the tracer and the aggregator run side by side, every traced      *)
(* connect or accept is in exactly one place: none is counted twice or     *)
(* forgotten (streaming.go:36-39, 68-95).                                  *)
THEOREM ConnectionsConserved == Spec => []EveryConnectionCounted
BY InitTypeOK, NextTypeOK, InitEveryConnectionCounted,
   NextEveryConnectionCounted, PTL DEF Spec

-----------------------------------------------------------------------------
(* Refinement *)

(* A step of the agent traces a connection, reports or gives up            *)
(* connections that are in the aggregated flows, or stutters.              *)
LEMMA NextRefines ==
  TypeOK /\ EveryConnectionCounted /\ [Next]_vars
    => [Count!Next]_(Count!countVars)
  <1> SUFFICES ASSUME TypeOK, EveryConnectionCounted, [Next]_vars
               PROVE  Count!Next \/ UNCHANGED <<traced, sent, lost>>
    BY DEF Count!countVars
  <1> USE DEF aggVars
  <1>0. ASSUME NEW k \in Key
        PROVE  /\ InMap(k) \in Nat /\ sent[k] \in Nat /\ lost[k] \in Nat
               /\ sent[k] + lost[k] + InMap(k) <= traced[k]
    <2>1. /\ CountIn(aggBuffer, k) \in Nat /\ InMap(k) \in Nat
          /\ traced[k] \in Nat /\ sent[k] \in Nat /\ lost[k] \in Nat
      BY CountInType DEF TypeOK, InMap
    <2>2. traced[k] = Found(k)
      BY CountedIsFound
    <2> QED BY <2>1, <2>2 DEF Found
  <1>1. ASSUME NEW k \in Key, TraceEvent(k) PROVE Count!Next
    BY <1>1 DEF TraceEvent, Count!Next, Count!Trace
  <1>2. CASE InsertOk
    <2>1. \A k \in Key : sent'[k] = sent[k] + InMap(k)
      BY <1>2, AddToType DEF InsertOk, InMap, TypeOK
    <2>2. Count!Settled(sent, sent', lost)
      BY <1>0, <2>1 DEF Count!Settled
    <2> QED BY <1>2, <2>2 DEF InsertOk, Count!Next, Count!Report
  <1>3. CASE InsertErr
    <2>1. \A k \in Key : lost'[k] = lost[k] + InMap(k)
      BY <1>3, AddToType DEF InsertErr, InMap, TypeOK
    <2>2. Count!Settled(lost, lost', sent)
      BY <1>0, <2>1 DEF Count!Settled
    <2> QED BY <1>3, <2>2 DEF InsertErr, Count!Next, Count!GiveUp
  <1>4. CASE \/ CbSend \/ AggTick \/ AggDrain \/ AggDrained \/ AggSendErr
             \/ AggRecvErr \/ Killed \/ UNCHANGED vars
    BY <1>4 DEF CbSend, AggTick, AggDrain, AggDrained, AggSendErr, AggRecvErr,
                Killed, vars
  <1> QED BY <1>1, <1>2, <1>3, <1>4 DEF Next, Aggregator

(* The streaming agent implements the abstract count of CountPipe: it      *)
(* never reports or gives up more of a flow than was traced of it.         *)
THEOREM ImplementsCount == Spec => CountSpec
  <1>1. Init => Count!Init
    BY DEF Init, Zero, Count!Init
  <1> QED BY <1>1, InitTypeOK, NextTypeOK, InitEveryConnectionCounted,
             NextEveryConnectionCounted, NextRefines, PTL
          DEF Spec, CountSpec, Count!Spec
=============================================================================
