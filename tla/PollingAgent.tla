---------------------------- MODULE PollingAgent ----------------------------
(***************************************************************************)
(* The polling agent of agent/polling: watch starts a scanFlows goroutine  *)
(* on every tick of the polling interval, each sends one slice of flows to *)
(* a bounded channel, and flusher starts a flush goroutine on every tick   *)
(* of the flush interval that takes the slices out again and inserts them  *)
(* into the CMDB.  agent.Wait shuts the process down on a signal while all *)
(* of these goroutines keep running.                                       *)
(*                                                                         *)
(* A batch is the slice one scanFlows call sends.  The channel is the      *)
(* sequence buffer, an error channel (capacity 1) the number of errors in  *)
(* it.  Every step between two channel operations or CMDB calls of a       *)
(* goroutine is one action.                                                *)
(***************************************************************************)
EXTENDS Integers, Sequences

CONSTANTS
  Batch,            \* the scanFlows calls of a run, one batch each (a bound)
  Flusher,          \* flush goroutines that can run at one time (a bound)
  Interval,         \* SHAWK_PROBE_INTERVAL
  FlushInterval,    \* SHAWK_PROBE_FLUSH_INTERVAL
  NoBatch           \* a flush that holds no batch: the nil of a closed channel

ASSUME IntervalAssumption == Interval \in Nat \ {0}
ASSUME FlushIntervalAssumption == FlushInterval \in Nat
ASSUME NoBatchAssumption == NoBatch \notin Batch

\* make(flowBuffer, flushInterval/interval+1)
BufferCap == FlushInterval \div Interval + 1

\* make(chan error, 1), in watch and in flusher
ErrCap == 1

VARIABLES
  scan,       \* scan[b]: where the scanFlows call of batch b is
  empty,      \* the batches that are a slice of length 0
  buffer,     \* the flowBuffer channel
  scanErr,    \* errors in watch's errChan
  flushErr,   \* errors in flusher's errChan
  pc,         \* pc[g]: where flush goroutine g is
  left,       \* left[g]: size - i, the receives flush g still means to do
  cur,        \* cur[g]: the batch flush g is inserting
  acked,      \* batches InsertOrUpdateHostFlows returned nil for
  dropped,    \* batches it returned an error for; nobody retries them
  conn,       \* the one pgx connection
  phase       \* how far Run and the process are

scanVars == <<scan, empty, scanErr>>
flushVars == <<pc, left, cur, flushErr, acked, dropped>>
vars == <<scan, empty, buffer, scanErr, flushErr, pc, left, cur, acked,
          dropped, conn, phase>>

(* Run refuses an interval above the flush interval before it starts       *)
(* anything.                                                               *)
Init ==
  /\ scan = [b \in Batch |-> "idle"]
  /\ empty = {}
  /\ buffer = <<>>
  /\ scanErr = 0
  /\ flushErr = 0
  /\ pc = [g \in Flusher |-> "idle"]
  /\ left = [g \in Flusher |-> 0]
  /\ cur = [g \in Flusher |-> NoBatch]
  /\ acked = {}
  /\ dropped = {}
  /\ conn = "open"
  /\ phase = IF Interval > FlushInterval THEN "refused" ELSE "running"

Alive == phase \in {"running", "signaled", "closing", "hanging", "dbclosed",
                    "bufclosed"}
BufferOpen == phase # "bufclosed"

-----------------------------------------------------------------------------
(* watch and scanFlows *)

\* case <-ticker.C of watch: go scanFlows
ScanTick(b) ==
  /\ Alive
  /\ scan[b] = "idle"
  /\ scan' = [scan EXCEPT ![b] = "scanning"]
  /\ UNCHANGED <<empty, buffer, scanErr, flushVars, conn, phase>>

\* GetHostFlows returned the flows of the host, possibly none.
ScanOk(b) ==
  /\ Alive
  /\ scan[b] = "scanning"
  /\ scan' = [scan EXCEPT ![b] = "sending"]
  /\ empty' \in {empty, empty \cup {b}}
  /\ UNCHANGED <<buffer, scanErr, flushVars, conn, phase>>

\* GetHostFlows failed: the map is nil, and the slice made from it is empty.
ScanFail(b) ==
  /\ Alive
  /\ scan[b] = "scanning"
  /\ scan' = [scan EXCEPT ![b] = "senderr"]
  /\ empty' = empty \cup {b}
  /\ UNCHANGED <<buffer, scanErr, flushVars, conn, phase>>

\* errChan <- err; there is no return after it, so the empty slice is sent too
ScanSendErr(b) ==
  /\ Alive
  /\ scan[b] = "senderr"
  /\ scanErr < ErrCap
  /\ scan' = [scan EXCEPT ![b] = "sending"]
  /\ scanErr' = scanErr + 1
  /\ UNCHANGED <<empty, buffer, flushVars, conn, phase>>

MutScanSend(b) ==
  /\ Alive
  /\ scan[b] = "sending"
  /\ BufferOpen
  /\ scan' = [scan EXCEPT ![b] = "sent"]
  /\ buffer' = Append(buffer, b)
  /\ UNCHANGED <<empty, scanErr, flushVars, conn, phase>>

\* buffer <- flows, which waits while the channel is full
ScanSend(b) ==
  /\ Alive
  /\ scan[b] = "sending"
  /\ BufferOpen
  /\ Len(buffer) < BufferCap
  /\ scan' = [scan EXCEPT ![b] = "sent"]
  /\ buffer' = Append(buffer, b)
  /\ UNCHANGED <<empty, scanErr, flushVars, conn, phase>>

\* buffer <- flows on a channel that Run has closed ends the process
ScanPanic(b) ==
  /\ Alive
  /\ scan[b] = "sending"
  /\ ~BufferOpen
  /\ phase' = "panicked"
  /\ UNCHANGED <<scanVars, buffer, flushVars, conn>>

MutWatchRecvErr ==
  /\ FALSE
  /\ UNCHANGED vars

\* case err := <-errChan of watch: the error is logged
WatchRecvErr ==
  /\ Alive
  /\ scanErr > 0
  /\ scanErr' = scanErr - 1
  /\ UNCHANGED <<scan, empty, buffer, flushVars, conn, phase>>

-----------------------------------------------------------------------------
(* flusher and flush *)

\* case <-ticker.C of flusher: go flush, which reads len(buffer) once
FlushTick(g) ==
  /\ Alive
  /\ pc[g] = "idle"
  /\ pc' = [pc EXCEPT ![g] = "loop"]
  /\ left' = [left EXCEPT ![g] = Len(buffer)]
  /\ UNCHANGED <<scanVars, buffer, flushErr, cur, acked, dropped, conn, phase>>

MutFlushRecv(g) ==
  /\ Alive
  /\ pc[g] = "loop"
  /\ left[g] > 0
  /\ buffer # <<>>
  /\ pc' = [pc EXCEPT ![g] = "insert"]
  /\ left' = [left EXCEPT ![g] = @ - 1]
  /\ cur' = [cur EXCEPT ![g] = Head(buffer)]
  /\ UNCHANGED <<scanVars, buffer, flushErr, acked, dropped, conn, phase>>

\* flows := <-buffer, which waits while the channel is empty
FlushRecv(g) ==
  /\ Alive
  /\ pc[g] = "loop"
  /\ left[g] > 0
  /\ buffer # <<>>
  /\ pc' = [pc EXCEPT ![g] = "insert"]
  /\ left' = [left EXCEPT ![g] = @ - 1]
  /\ cur' = [cur EXCEPT ![g] = Head(buffer)]
  /\ buffer' = Tail(buffer)
  /\ UNCHANGED <<scanVars, flushErr, acked, dropped, conn, phase>>

\* <-buffer on a closed and empty channel yields nil, a slice of length 0
FlushRecvClosed(g) ==
  /\ Alive
  /\ pc[g] = "loop"
  /\ left[g] > 0
  /\ buffer = <<>>
  /\ ~BufferOpen
  /\ pc' = [pc EXCEPT ![g] = "insert"]
  /\ left' = [left EXCEPT ![g] = @ - 1]
  /\ UNCHANGED <<scanVars, buffer, flushErr, cur, acked, dropped, conn, phase>>

\* the loop has done size rounds and the goroutine returns
FlushDone(g) ==
  /\ Alive
  /\ pc[g] = "loop"
  /\ left[g] = 0
  /\ pc' = [pc EXCEPT ![g] = "idle"]
  /\ UNCHANGED <<scanVars, buffer, left, cur, flushErr, acked, dropped, conn,
                 phase>>

\* the batch flush g holds, {} for a nil slice
Held(g) == IF cur[g] = NoBatch THEN {} ELSE {cur[g]}

\* len(flows) < 1: InsertOrUpdateHostFlows returns nil without the connection
InsertEmpty(g) ==
  /\ Alive
  /\ pc[g] = "insert"
  /\ Held(g) \subseteq empty
  /\ pc' = [pc EXCEPT ![g] = "loop"]
  /\ cur' = [cur EXCEPT ![g] = NoBatch]
  /\ acked' = acked \cup Held(g)
  /\ UNCHANGED <<scanVars, buffer, left, flushErr, dropped, conn, phase>>

\* the transaction committed and InsertOrUpdateHostFlows returned nil
InsertOk(g) ==
  /\ Alive
  /\ pc[g] = "insert"
  /\ ~(Held(g) \subseteq empty)
  /\ conn = "open"
  /\ pc' = [pc EXCEPT ![g] = "loop"]
  /\ cur' = [cur EXCEPT ![g] = NoBatch]
  /\ acked' = acked \cup Held(g)
  /\ UNCHANGED <<scanVars, buffer, left, flushErr, dropped, conn, phase>>

MutInsertErr(g) ==
  /\ Alive
  /\ pc[g] = "insert"
  /\ ~(Held(g) \subseteq empty)
  /\ dropped' = dropped \cup Held(g)
  /\ conn' \in {conn, "closed"}
  /\ UNCHANGED <<scanVars, buffer, pc, left, cur, flushErr, acked, phase>>

(* InsertOrUpdateHostFlows returned an error.  A failed begin or commit,   *)
(* and a timeout in the middle of a statement, leave the connection closed *)
(* and nothing opens it again; other errors leave it as it is.             *)
InsertErr(g) ==
  /\ Alive
  /\ pc[g] = "insert"
  /\ ~(Held(g) \subseteq empty)
  /\ pc' = [pc EXCEPT ![g] = "senderr"]
  /\ cur' = [cur EXCEPT ![g] = NoBatch]
  /\ dropped' = dropped \cup Held(g)
  /\ conn' \in {conn, "closed"}
  /\ UNCHANGED <<scanVars, buffer, left, flushErr, acked, phase>>

\* flush g is using the connection
Using(g) == pc[g] = "insert" /\ ~(Held(g) \subseteq empty)

\* The calls of two flushes meet on the connection, which is not safe for
\* concurrent usage: one of the ways that ends is a panic (module CmdbConn).
InsertPanic ==
  /\ Alive
  /\ conn = "open"
  /\ \E g, h \in Flusher : g # h /\ Using(g) /\ Using(h)
  /\ phase' = "panicked"
  /\ UNCHANGED <<scanVars, buffer, flushVars, conn>>

\* errChan <- err and break: the goroutine returns
FlushSendErr(g) ==
  /\ Alive
  /\ pc[g] = "senderr"
  /\ flushErr < ErrCap
  /\ flushErr' = flushErr + 1
  /\ pc' = [pc EXCEPT ![g] = "idle"]
  /\ left' = [left EXCEPT ![g] = 0]
  /\ UNCHANGED <<scanVars, buffer, cur, acked, dropped, conn, phase>>

\* case err := <-errChan of flusher: the error is logged
FlusherRecvErr ==
  /\ Alive
  /\ flushErr > 0
  /\ flushErr' = flushErr - 1
  /\ UNCHANGED <<scanVars, buffer, pc, left, cur, acked, dropped, conn, phase>>

-----------------------------------------------------------------------------
(* Run, agent.Wait and the end of the process *)

\* sig := <-sigch
Signal ==
  /\ phase = "running"
  /\ phase' = "signaled"
  /\ UNCHANGED <<scanVars, buffer, flushVars, conn>>

MutCloseDb ==
  /\ phase = "signaled"
  /\ \A g \in Flusher : pc[g] = "idle"
  /\ phase' = "dbclosed"
  /\ conn' = "closed"
  /\ UNCHANGED <<scanVars, buffer, flushVars>>

\* time.Sleep(3s), then db.Shutdown: a connection that an error has closed is
\* left alone; otherwise the CMDB is told, and Close reads on without a deadline
\* until it hangs up, which a CMDB that has gone silent never does.
CloseDb ==
  /\ phase = "signaled"
  /\ phase' \in IF conn = "closed" THEN {"dbclosed"} ELSE {"closing", "hanging"}
  /\ conn' = "closed"
  /\ UNCHANGED <<scanVars, buffer, flushVars>>

\* The read in Close returns: the CMDB has hung up, or the deadline of a flush
\* that uses the connection has passed.  Run returns whether it failed or not.
Closed ==
  /\ phase \in {"closing", "hanging"}
  /\ phase' = "dbclosed"
  /\ UNCHANGED <<scanVars, buffer, flushVars, conn>>

\* the deferred close(buffer) of Run
CloseBuffer ==
  /\ phase = "dbclosed"
  /\ phase' = "bufclosed"
  /\ UNCHANGED <<scanVars, buffer, flushVars, conn>>

\* the process exits, and every goroutine with it
Exit ==
  /\ phase = "bufclosed"
  /\ phase' = "exited"
  /\ UNCHANGED <<scanVars, buffer, flushVars, conn>>

\* the process is gone
Gone ==
  /\ ~Alive
  /\ UNCHANGED vars

-----------------------------------------------------------------------------
ScanStep(b) ==
  \/ ScanTick(b)
  \/ ScanOk(b)
  \/ ScanFail(b)
  \/ ScanSendErr(b)
  \/ ScanSend(b)
  \/ ScanPanic(b)

Insert(g) == InsertEmpty(g) \/ InsertOk(g) \/ InsertErr(g)

FlushStep(g) ==
  \/ FlushRecv(g)
  \/ FlushRecvClosed(g)
  \/ FlushDone(g)
  \/ Insert(g)
  \/ FlushSendErr(g)

ShutdownStep == CloseDb \/ CloseBuffer \/ Exit

Next ==
  \/ \E b \in Batch : ScanStep(b)
  \/ \E g \in Flusher : FlushTick(g) \/ FlushStep(g)
  \/ InsertPanic
  \/ WatchRecvErr
  \/ FlusherRecvErr
  \/ Signal
  \/ ShutdownStep
  \/ Closed
  \/ Gone

Spec == Init /\ [][Next]_vars

(* A runnable goroutine is scheduled and a ticker ticks; InsertOrUpdate-   *)
(* HostFlows returns because of its 10 second context.  Close has no       *)
(* deadline and returns if the CMDB is there to hang up.  Nothing makes a  *)
(* signal arrive.                                                          *)
Fairness ==
  /\ \A b \in Batch : WF_vars(ScanStep(b))
  /\ \A g \in Flusher : WF_vars(FlushStep(g))
  /\ WF_vars(\E g \in Flusher : FlushTick(g))
  /\ WF_vars(WatchRecvErr)
  /\ WF_vars(FlusherRecvErr)
  /\ WF_vars(ShutdownStep)
  /\ WF_vars(Closed /\ phase = "closing")

FairSpec == Spec /\ Fairness

-----------------------------------------------------------------------------
(* Type invariant; the channels never hold more than they were made for.   *)
TypeOK ==
  /\ scan \in [Batch -> {"idle", "scanning", "senderr", "sending", "sent"}]
  /\ empty \in SUBSET Batch
  /\ buffer \in Seq(Batch)
  /\ Len(buffer) <= BufferCap
  /\ scanErr \in 0..ErrCap
  /\ flushErr \in 0..ErrCap
  /\ pc \in [Flusher -> {"idle", "loop", "insert", "senderr"}]
  /\ left \in [Flusher -> 0..BufferCap]
  /\ cur \in [Flusher -> Batch \cup {NoBatch}]
  /\ acked \in SUBSET Batch
  /\ dropped \in SUBSET Batch
  /\ conn \in {"open", "closed"}
  /\ phase \in {"refused", "running", "signaled", "closing", "hanging",
                "dbclosed", "bufclosed", "exited", "panicked"}

Elems(s) == {s[i] : i \in 1..Len(s)}
NoRepeat(s) == \A i, j \in 1..Len(s) : s[i] = s[j] => i = j

Sent == {b \in Batch : scan[b] = "sent"}
Buffered == Elems(buffer)
Inserting == {cur[g] : g \in Flusher} \ {NoBatch}
Settled == acked \cup dropped

PlacesCoverSent == Sent = Buffered \cup Inserting \cup Settled

PlacesDisjoint ==
  /\ Buffered \cap Inserting = {}
  /\ Buffered \cap Settled = {}
  /\ Inserting \cap Settled = {}
  /\ acked \cap dropped = {}

HeldByOneFlush ==
  \A g, h \in Flusher : cur[g] = cur[h] /\ cur[g] # NoBatch => g = h

(* However many scans and flushes overlap, a batch that was sent is in     *)
(* exactly one place: once in the channel, in the hands of one flush, or   *)
(* settled one way; and nothing is there that no scan sent (scanFlows 82,  *)
(* flush 103-110).                                                         *)
EachBatchInOnePlace ==
  /\ PlacesCoverSent
  /\ PlacesDisjoint
  /\ NoRepeat(buffer)
  /\ HeldByOneFlush

(* What makes EachBatchInOnePlace inductive: a flush holds a batch only    *)
(* while it inserts it, so that the next receive overwrites nothing.       *)
HoldOnlyInInsert == \A g \in Flusher : cur[g] # NoBatch => pc[g] = "insert"

IInv == TypeOK /\ EachBatchInOnePlace /\ HoldOnlyInInsert

(* A flush that runs alone never waits for a batch that is not there: the  *)
(* len(buffer) it read once covers the receives it goes on to do (flush    *)
(* 103-105).  It fails as soon as two flushes overlap.                     *)
FlushNeverBlocks ==
  (\A g, h \in Flusher : g = h) => \A g \in Flusher :
    pc[g] \in {"loop", "insert"} => left[g] <= Len(buffer)

(* The agent implements the abstract pipe: what it does to a batch is to   *)
(* collect it, and later to ack it or to give it up.                       *)
Pipe == INSTANCE FlowPipe WITH
          collected <- Sent
PipeSpec == Pipe!Spec

(* Every scan that starts has its batch inserted or given up, errors and   *)
(* full channels notwithstanding, unless the agent is told to stop (watch, *)
(* scanFlows, flusher and flush together).                                 *)
EveryScanSettles ==
  \A b \in Batch :
    scan[b] = "scanning" ~> (b \in Settled \/ phase # "running")

(* A signal ends the process, whatever the goroutines are waiting for and  *)
(* whatever has become of the connection, unless db.Shutdown waits for the *)
(* answer of a CMDB that has gone silent (agent.Wait 17-31, Run 27-32,     *)
(* db.Shutdown 53).  The end may be a panic of a scan or a flush.          *)
SignalEndsProcess ==
  phase = "signaled" ~> phase \in {"exited", "panicked", "hanging"}
=============================================================================
