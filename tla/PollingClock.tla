---------------------------- MODULE PollingClock ----------------------------
(***************************************************************************)
(* The polling agent with a clock: whether the channel of                  *)
(* flushInterval/interval+1 slices is large enough for what is scanned     *)
(* between two flushes, and whether the scans that wait after a time of    *)
(* CMDB errors are worked off again.  They are if the errors have left the *)
(* connection open; once one has closed it every flush takes one slice,    *)
(* fails and breaks, and the scans that wait pile up.  Which slice is      *)
(* where, overlapping flushes and the shutdown are the subject of          *)
(* PollingAgent; here slices are counted and a flush is over before the    *)
(* next one starts.                                                        *)
(*                                                                         *)
(* How long a scan and a flush take at most differs from host to host and  *)
(* is chosen at the start: Elapse does not let time pass while one is due  *)
(* to end.                                                                 *)
(***************************************************************************)
EXTENDS Naturals

CONSTANTS
  Interval,         \* SHAWK_PROBE_INTERVAL
  FlushInterval,    \* SHAWK_PROBE_FLUSH_INTERVAL
  MaxScan,          \* bound on the time a scan takes
  MaxFlush,         \* bound on the time a flush takes
  MaxErrors         \* bound on failing CMDB calls

ASSUME ClockAssumption ==
  /\ {Interval, FlushInterval, MaxScan, MaxFlush, MaxErrors} \subseteq Nat
  /\ 0 < Interval /\ Interval <= FlushInterval /\ MaxFlush < FlushInterval

MutBufferCap == FlushInterval \div Interval

\* make(flowBuffer, flushInterval/interval+1)
BufferCap == FlushInterval \div Interval + 1

VARIABLES
  takes,        \* the most time a scan and a flush take
  scanClock,    \* time since the last tick of watch
  flushClock,   \* time since the last tick of flusher
  scanning,     \* scanning[a]: scans that have run for a units of time
  buffer,       \* len(buffer)
  waiting,      \* scans that wait to send to a full channel
  left,         \* size - i of the running flush
  errors,       \* CMDB calls that have failed
  conn          \* the one pgx connection

vars == <<takes, scanClock, flushClock, scanning, buffer, waiting, left, errors,
          conn>>

\* Run starts the goroutine of flusher, and the two tickers not quite at once.
Init ==
  /\ takes \in [scan : 0..MaxScan, flush : 0..MaxFlush]
  /\ scanClock \in 0..(Interval - 1)
  /\ flushClock = 0
  /\ scanning = [a \in 0..MaxScan |-> 0]
  /\ buffer = 0
  /\ waiting = 0
  /\ left = 0
  /\ errors = 0
  /\ conn = "open"

-----------------------------------------------------------------------------
(* watch and scanFlows *)

ScanTick ==
  /\ scanClock = Interval
  /\ scanClock' = 0
  /\ scanning' = [scanning EXCEPT ![0] = @ + 1]
  /\ UNCHANGED <<takes, flushClock, buffer, waiting, left, errors, conn>>

MutScanSend(a) ==
  /\ scanning[a] > 0
  /\ scanning' = [scanning EXCEPT ![a] = @ - 1]
  /\ buffer' = buffer + 1
  /\ UNCHANGED <<takes, scanClock, flushClock, waiting, left, errors, conn>>

\* buffer <- flows, which a scan that failed does too
ScanSend(a) ==
  /\ scanning[a] > 0
  /\ scanning' = [scanning EXCEPT ![a] = @ - 1]
  /\ IF buffer < BufferCap THEN buffer' = buffer + 1 /\ UNCHANGED waiting
     ELSE waiting' = waiting + 1 /\ UNCHANGED buffer
  /\ UNCHANGED <<takes, scanClock, flushClock, left, errors, conn>>

-----------------------------------------------------------------------------
(* flusher and flush *)

MutFlushTick ==
  /\ flushClock = FlushInterval
  /\ flushClock' = 0
  /\ left' = IF buffer < BufferCap THEN buffer ELSE BufferCap - 1
  /\ UNCHANGED <<takes, scanClock, scanning, buffer, waiting, errors, conn>>

\* size := len(buffer)
FlushTick ==
  /\ flushClock = FlushInterval
  /\ flushClock' = 0
  /\ left' = buffer
  /\ UNCHANGED <<takes, scanClock, scanning, buffer, waiting, errors, conn>>

\* <-buffer, which makes room for the first of the scans that wait
Recv ==
  IF waiting > 0 THEN waiting' = waiting - 1 /\ UNCHANGED buffer
  ELSE buffer' = buffer - 1 /\ UNCHANGED waiting

\* InsertOrUpdateHostFlows returns nil
FlushInsert ==
  /\ left > 0 /\ conn = "open"
  /\ Recv
  /\ left' = left - 1
  /\ UNCHANGED <<takes, scanClock, flushClock, scanning, errors, conn>>

(* InsertOrUpdateHostFlows returns an error: errChan <- err and break.  A  *)
(* statement that fails leaves the connection open; a timeout or a network *)
(* error closes it, nothing opens it again, and every later call fails.    *)
FlushError ==
  /\ left > 0 /\ errors < MaxErrors
  /\ Recv
  /\ left' = 0
  /\ errors' = errors + 1
  /\ conn' \in {conn, "closed"}
  /\ UNCHANGED <<takes, scanClock, flushClock, scanning>>

\* The outage is followed for MaxErrors calls and no further.
Bounded ==
  /\ left > 0 /\ conn = "closed" /\ errors = MaxErrors
  /\ UNCHANGED vars

-----------------------------------------------------------------------------
\* Nothing is due: one unit of time passes.
Elapse ==
  /\ scanClock < Interval /\ flushClock < FlushInterval
  /\ scanning[takes.scan] = 0
  /\ left > 0 => flushClock < takes.flush
  /\ scanClock' = scanClock + 1
  /\ flushClock' = flushClock + 1
  /\ scanning' = [a \in 0..MaxScan |-> IF a = 0 THEN 0 ELSE scanning[a - 1]]
  /\ UNCHANGED <<takes, buffer, waiting, left, errors, conn>>

Next ==
  \/ ScanTick
  \/ \E a \in 0..MaxScan : ScanSend(a)
  \/ FlushTick
  \/ FlushInsert
  \/ FlushError
  \/ Bounded
  \/ Elapse

Spec == Init /\ [][Next]_vars

(* Time passes, and at every instant only finitely many steps are due.     *)
FairSpec == Spec /\ WF_vars(Next)

-----------------------------------------------------------------------------
(* Type invariant.                                                         *)
TypeOK ==
  /\ takes \in [scan : 0..MaxScan, flush : 0..MaxFlush]
  /\ scanClock \in 0..Interval
  /\ flushClock \in 0..FlushInterval
  /\ scanning \in [0..MaxScan -> Nat]
  /\ buffer \in 0..BufferCap
  /\ waiting \in Nat
  /\ left \in 0..buffer
  /\ errors \in 0..MaxErrors
  /\ conn \in {"open", "closed"}

(* Until a CMDB call fails no scan waits for room in the channel, as long  *)
(* as a scan and a flush together take less than what the flush interval   *)
(* lacks to the next multiple of the interval (polling.go:26).             *)
NoScanWaits ==
  errors = 0 /\ takes.scan + takes.flush < Interval - (FlushInterval % Interval)
    => waiting = 0

(* However many scans wait when statements have failed, at some time after *)
(* the last error none does: a flush of a full channel takes more slices   *)
(* than are scanned until the next one (polling.go:26, 103-113).  It says  *)
(* nothing of an outage that closes the connection: from then on scans     *)
(* wait and pile up for good (polling.go:106-108).                         *)
WaitingIsWorkedOff == waiting > 0 ~> waiting = 0 \/ conn = "closed"
=============================================================================
