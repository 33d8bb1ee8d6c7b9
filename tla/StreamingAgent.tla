--------------------------- MODULE StreamingAgent ---------------------------
(***************************************************************************)
(* The streaming agent of agent/streaming and probe/ebpf.  StartTracer     *)
(* ranges over the unbuffered channel of traced TCP events and calls back  *)
(* for every IPv4 connect and accept; the callback sends the flow to a     *)
(* bounded channel; the aggregator goroutine drains that channel on every  *)
(* tick, counts the flows with equal UniqKey as connections of one flow,   *)
(* and inserts them into the CMDB.                                         *)
(*                                                                         *)
(* A flow is its UniqKey (direction, local and peer address): the process  *)
(* is always known here and plays no part in the aggregation.  Events that *)
(* StartTracer skips (IPv6, close) change no state and are left out, as is *)
(* the goroutine that waits to hand an event over.  StartTracer returns    *)
(* only when its event channel is closed, which nothing does: agent.Wait   *)
(* after it is never reached, and a signal ends the process at once.       *)
(***************************************************************************)
EXTENDS Integers, Sequences, FiniteSets

CONSTANTS
  Key,          \* the UniqKeys of the flows that are traced
  BufSize,      \* flowBufferSize
  MaxEvents,    \* bound on the events of a run
  MaxFail,      \* bound on the failing CMDB calls of a run
  NoKey         \* the tracer holds no flow

ASSUME BufSizeAssumption == BufSize \in Nat \ {0}
ASSUME BoundsAssumption == MaxEvents \in Nat /\ MaxFail \in Nat
ASSUME NoKeyAssumption == NoKey \notin Key

MutErrCap == 0

\* make(chan error, 1)
ErrCap == 1

VARIABLES
  events,       \* events received so far
  hand,         \* the flow the callback is sending
  aggBuffer,    \* the flowAggBuffer channel
  pc,           \* where the aggregator is
  left,         \* size - i in aggregate
  aggMap,       \* the keys aggregated so far, with their Connections
  errChan,      \* errors in the aggregator's channel
  fails,        \* failed CMDB calls
  traced,       \* traced[k]: connects and accepts of key k
  sent,         \* sent[k]: connections of k in calls that returned nil
  lost,         \* lost[k]: connections of k in calls that failed
  alive         \* the process runs

aggVars == <<pc, left, aggMap, errChan, fails, sent, lost>>
vars == <<events, hand, aggBuffer, pc, left, aggMap, errChan, fails, traced,
          sent, lost, alive>>

Zero == [k \in Key |-> 0]
NoFlows == [k \in {} |-> 0]

Init ==
  /\ events = 0
  /\ hand = NoKey
  /\ aggBuffer = <<>>
  /\ pc = "select"
  /\ left = 0
  /\ aggMap = NoFlows
  /\ errChan = 0
  /\ fails = 0
  /\ traced = Zero
  /\ sent = Zero
  /\ lost = Zero
  /\ alive = TRUE

-----------------------------------------------------------------------------
(* StartTracer and the callback of Run *)

\* TCPEventV4 hands a connect or accept over, and cb is called with its flow
TraceEvent(k) ==
  /\ alive
  /\ events < MaxEvents
  /\ hand = NoKey
  /\ events' = events + 1
  /\ hand' = k
  /\ traced' = [traced EXCEPT ![k] = @ + 1]
  /\ UNCHANGED <<aggBuffer, aggVars, alive>>

MutCbSend ==
  /\ alive
  /\ hand # NoKey
  /\ aggBuffer' = Append(aggBuffer, hand)
  /\ hand' = NoKey
  /\ UNCHANGED <<events, traced, aggVars, alive>>

\* aggBuffer <- v, which waits while the channel is full
CbSend ==
  /\ alive
  /\ hand # NoKey
  /\ Len(aggBuffer) < BufSize
  /\ aggBuffer' = Append(aggBuffer, hand)
  /\ hand' = NoKey
  /\ UNCHANGED <<events, traced, aggVars, alive>>

-----------------------------------------------------------------------------
(* aggregator and aggregate *)

MutAggTick ==
  /\ alive
  /\ pc = "select"
  /\ pc' = "drain"
  /\ left' = Len(aggBuffer) + 1
  /\ UNCHANGED <<events, hand, aggBuffer, traced, aggMap, errChan, fails, sent,
                 lost, alive>>

\* case <-ticker.C: aggregate reads len(buffer) once
AggTick ==
  /\ alive
  /\ pc = "select"
  /\ pc' = "drain"
  /\ left' = Len(aggBuffer)
  /\ UNCHANGED <<events, hand, aggBuffer, traced, aggMap, errChan, fails, sent,
                 lost, alive>>

MutCounted(m, k) == [j \in DOMAIN m \cup {k} |-> IF j = k THEN 1 ELSE m[j]]

\* the first flow of a key enters the map, then its Connections++
Counted(m, k) ==
  [j \in DOMAIN m \cup {k} |->
    (IF j \in DOMAIN m THEN m[j] ELSE 0) + (IF j = k THEN 1 ELSE 0)]

\* flow := <-buffer, which would wait on an empty channel
AggDrain ==
  /\ alive
  /\ pc = "drain"
  /\ left > 0
  /\ aggBuffer # <<>>
  /\ left' = left - 1
  /\ aggBuffer' = Tail(aggBuffer)
  /\ aggMap' = Counted(aggMap, Head(aggBuffer))
  /\ UNCHANGED <<events, hand, traced, pc, errChan, fails, sent, lost, alive>>

\* the loop of aggregate is done; the map becomes the slice to insert
AggDrained ==
  /\ alive
  /\ pc = "drain"
  /\ left = 0
  /\ pc' = "insert"
  /\ UNCHANGED <<events, hand, aggBuffer, traced, left, aggMap, errChan, fails,
                 sent, lost, alive>>

\* the connections of a slice added to a count per key
AddTo(total) ==
  [k \in Key |-> total[k] + (IF k \in DOMAIN aggMap THEN aggMap[k] ELSE 0)]

MutInsertOk ==
  /\ alive
  /\ pc = "insert"
  /\ pc' = "select"
  /\ sent' = AddTo(sent)
  /\ UNCHANGED <<events, hand, aggBuffer, traced, left, aggMap, errChan, fails,
                 lost, alive>>

\* InsertOrUpdateHostFlows returned nil; on an empty slice it always does
InsertOk ==
  /\ alive
  /\ pc = "insert"
  /\ pc' = "select"
  /\ sent' = AddTo(sent)
  /\ aggMap' = NoFlows
  /\ UNCHANGED <<events, hand, aggBuffer, traced, left, errChan, fails, lost,
                 alive>>

\* InsertOrUpdateHostFlows returned an error; the slice is not kept
InsertErr ==
  /\ alive
  /\ pc = "insert"
  /\ aggMap # NoFlows
  /\ fails < MaxFail
  /\ fails' = fails + 1
  /\ pc' = "senderr"
  /\ lost' = AddTo(lost)
  /\ aggMap' = NoFlows
  /\ UNCHANGED <<events, hand, aggBuffer, traced, left, errChan, sent, alive>>

\* errChan <- err, by the goroutine that is also the channel's only reader
AggSendErr ==
  /\ alive
  /\ pc = "senderr"
  /\ errChan < ErrCap
  /\ errChan' = errChan + 1
  /\ pc' = "select"
  /\ UNCHANGED <<events, hand, aggBuffer, traced, left, aggMap, fails, sent,
                 lost, alive>>

\* case err := <-errChan: the error is logged
AggRecvErr ==
  /\ alive
  /\ pc = "select"
  /\ errChan > 0
  /\ errChan' = errChan - 1
  /\ UNCHANGED <<events, hand, aggBuffer, traced, pc, left, aggMap, fails, sent,
                 lost, alive>>

\* SIGTERM or SIGINT: no handler is installed yet, the process just dies
Killed ==
  /\ alive
  /\ alive' = FALSE
  /\ UNCHANGED <<events, hand, aggBuffer, traced, aggVars>>

-----------------------------------------------------------------------------
Aggregator ==
  \/ AggDrain
  \/ AggDrained
  \/ InsertOk
  \/ InsertErr
  \/ AggSendErr

Next ==
  \/ \E k \in Key : TraceEvent(k)
  \/ CbSend
  \/ AggTick
  \/ Aggregator
  \/ AggRecvErr
  \/ Killed

Spec == Init /\ [][Next]_vars

(* Runnable goroutines are scheduled, the ticker ticks, and a CMDB call    *)
(* returns because of its 10 second context.  select chooses at random     *)
(* among the ready cases, so a pending error is not passed over for ever.  *)
Fairness ==
  /\ WF_vars(CbSend)
  /\ WF_vars(AggTick)
  /\ WF_vars(Aggregator)
  /\ SF_vars(AggRecvErr)

FairSpec == Spec /\ Fairness

-----------------------------------------------------------------------------
(* Type invariant; the channels keep to their capacities and a flow to be  *)
(* inserted has at least one connection, as the flows table demands.       *)
TypeOK ==
  /\ events \in 0..MaxEvents
  /\ hand \in Key \cup {NoKey}
  /\ aggBuffer \in Seq(Key)
  /\ Len(aggBuffer) <= BufSize
  /\ pc \in {"select", "drain", "insert", "senderr"}
  /\ left \in 0..BufSize
  /\ DOMAIN aggMap \subseteq Key
  /\ aggMap \in [DOMAIN aggMap -> Nat \ {0}]
  /\ errChan \in 0..ErrCap
  /\ fails \in 0..MaxFail
  /\ traced \in [Key -> Nat]
  /\ sent \in [Key -> Nat]
  /\ lost \in [Key -> Nat]
  /\ alive \in BOOLEAN

CountIn(s, k) == Cardinality({i \in 1..Len(s) : s[i] = k})

(* Every traced connect or accept is counted once: it is in the callback,  *)
(* in the channel, in the aggregated flows, or in what a CMDB call took or *)
(* lost, while the tracer and the aggregator run side by side (streaming   *)
(* 36-39 and 68-95).                                                       *)
EveryConnectionCounted ==
  \A k \in Key :
    traced[k] = (IF hand = k THEN 1 ELSE 0) + CountIn(aggBuffer, k)
                + (IF k \in DOMAIN aggMap THEN aggMap[k] ELSE 0)
                + sent[k] + lost[k]

(* aggregate never waits for a flow: the length it read covers its         *)
(* receives, because the aggregator is the channel's only reader           *)
(* (streaming 69-76).                                                      *)
DrainNeverBlocks == pc = "drain" => left <= Len(aggBuffer)

(* The agent implements the abstract count: what it reports of a flow and  *)
(* what it gives up stay within what was traced (streaming 58-64).         *)
Count == INSTANCE CountPipe
CountSpec == Count!Spec

Total(f) == Cardinality({p \in Key \X (1..MaxEvents) : p[2] <= f[p[1]]})

(* As long as no more than one CMDB call fails, everything traced reaches  *)
(* the CMDB or that failing call, unless the process is killed             *)
(* (streaming 52-65).                                                      *)
TracedFlowsSettle ==
  \A n \in 1..MaxEvents :
    Total(traced) >= n
      ~> (Total(sent) + Total(lost) >= n \/ ~alive \/ fails > 1)

(* "Tracer running on each host sends connection information to the        *)
(* central Connection Management DataBase" (README.md:23): the aggregator  *)
(* always comes back to its select, also after CMDB errors.                *)
AggregatorKeepsRunning == []<>(pc = "select" \/ ~alive)
=============================================================================
