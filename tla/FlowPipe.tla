------------------------------ MODULE FlowPipe ------------------------------
(***************************************************************************)
(* What a shawk agent promises about the flows it collects, whatever its   *)
(* goroutines, buffers and errors do: a batch that a scan produced is      *)
(* either reported as inserted into the CMDB or given up, at most one of   *)
(* the two and at most once, and never before it was collected.            *)
(***************************************************************************)
CONSTANT Batch      \* the batches of flows a run of the agent may collect

VARIABLES
  collected,        \* batches a scan has produced
  acked,            \* batches InsertOrUpdateHostFlows returned nil for
  dropped           \* batches given up after an error

pipeVars == <<collected, acked, dropped>>

Init ==
  /\ collected = {}
  /\ acked = {}
  /\ dropped = {}

Collect(b) ==
  /\ b \notin collected
  /\ collected' = collected \cup {b}
  /\ UNCHANGED <<acked, dropped>>

InFlight(b) == b \in collected \ (acked \cup dropped)

Ack(b) ==
  /\ InFlight(b)
  /\ acked' = acked \cup {b}
  /\ UNCHANGED <<collected, dropped>>

Drop(b) ==
  /\ InFlight(b)
  /\ dropped' = dropped \cup {b}
  /\ UNCHANGED <<collected, acked>>

Next == \E b \in Batch : Collect(b) \/ Ack(b) \/ Drop(b)

Spec == Init /\ [][Next]_pipeVars
=============================================================================
