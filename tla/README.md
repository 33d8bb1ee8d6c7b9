# Shawk in TLA+

Shawk discovers which processes of a distributed application talk to which. On
every host an agent collects the TCP connections and the processes behind them
as *host flows* and reports them to a central PostgreSQL database, the CMDB;
`shawk look` prints the dependencies of an address from there. This directory
holds TLA+ models of these parts, TLC configurations that check them on small
instances, and TLAPS proofs for every size.

Line numbers refer to `agent/polling/polling.go`, `agent/agent.go`,
`agent/streaming/streaming.go`, `probe/ebpf/ebpf.go`, `probe/probe.go`,
`probe/netlink/connections.go`, `probe/netlink/netutil/netutil_linux.go`,
`db/db.go`, `command/*.go`, `config/config.go` and `main.go`, and to the vendored
`pgx/v4` and `pgconn`.

## Inventory

| Component | State | Operations | What is hard about it |
|---|---|---|---|
| Polling agent (`agent/polling`, `agent`) | flow channel of `flushInterval/interval+1`, two error channels of 1, the goroutines of scans and flushes, one pgx connection | `watch` starts `scanFlows` on every tick; `flusher` starts `flush` on every tick; `agent.Wait` ends it all | scans and flushes overlap; `len(buffer)` is stale when used; channels fill; errors drop batches; shutdown races with everything |
| Streaming agent (`agent/streaming`, `probe/ebpf`) | event channel, channel of 65535 flows, error channel of 1 | `StartTracer` calls back for every event; `aggregator` drains, counts and inserts on every tick | the aggregator is both sender and only reader of its error channel; back pressure |
| CMDB writes (`db`) | four tables; an open transaction per agent | `InsertOrUpdateHostFlows`: per flow, upsert process and node, find or make the peer's node, upsert the flow | transactions of hosts overlap; lookups see committed rows only; deadlines hit anywhere |
| CMDB connection (`db`, pgx) | status idle, busy or closed; a context watcher; the server's one transaction per connection | begin, statements, commit, deferred rollback, with one context of 10 seconds; `Shutdown` | calls of overlapping flushes meet on it unsynchronised; a timeout closes it for ever; closing it can block |
| CMDB reads (`command/look`, `db`) | none | `FindPassiveFlows`, `FindActiveFlows` | two queries beside writers; rows carry the start time of their transaction, without a time zone |
| Probe (`probe/netlink`) | inode-to-process map, grouped flows | walk `/proc`, dump the socket table, classify, group | processes come and go between any two system calls |
| Command line, configuration, schema creation (`main`, `command`, `config`, `db`) | arguments, environment, the step a command is at | dispatch, flags, checks, `create-scheme`, start of an agent | what an exit code means; intervals that pass the checks; `--once` |
| Logging, version, credits | none worth modelling | | |

How they interact: the agents call `GetHostFlows` (polling) or are called back
by the tracer (streaming), and call `InsertOrUpdateHostFlows`; agents of
different hosts meet only in the CMDB, the flushes of one polling agent on its
connection too; `shawk look` reads what they left there.

What makes each part correct: an agent loses and doubles nothing between a scan and
the CMDB call, and does not get stuck; a call that returns nil has stored its flows;
a call leaves its connection fit for the next one or closed; a command that exits
with 0 has done its work; the CMDB has no dependency that does not exist, and has
the dependency between two processes once both hosts reported it; a flow names a
process that had the connection and counts each connection once; look shows what is
there.

## Modules

| Module | Models | State and actions |
|---|---|---|
| `FlowPipe` | abstract specification of an agent | collected, acked and dropped batches; `Collect`, `Ack`, `Drop` |
| `PollingAgent` | polling.go, agent.go | a batch is what one `scanFlows` sends. Every step between channel operations or CMDB calls is an action: `ScanTick` ... `ScanSend`, `ScanPanic`, `FlushTick`, `FlushRecv`, `Insert*`, `InsertPanic` (what `CmdbConn` shows of two calls at once), `FlushSendErr`, `Signal`, `CloseDb`, `Closed`, `CloseBuffer`, `Exit` |
| `PollingClock` | polling.go with time | slices counted, two tickers as clocks, scans by age, whether the connection is lost; `ScanTick`, `ScanSend`, `FlushTick`, `FlushInsert`, `FlushError`, `Elapse` |
| `CountPipe` | abstract specification of the streaming agent | connections traced, reported and given up per flow; `Trace`, `Report`, `GiveUp` |
| `StreamingAgent` | streaming.go, ebpf.go | a flow is its `UniqKey`; `TraceEvent`, `CbSend`, `AggTick`, `AggDrain`, `Insert*`, `AggSendErr`, `AggRecvErr`, `Killed` |
| `Cmdb` | `InsertOrUpdateHostFlows`, flows.sql | `rows` (committed), `own[a]` (uncommitted), one action per SQL statement, `Commit`, `CommitTimeout`, `Rollback` |
| `CmdbConn` | `InsertOrUpdateHostFlows` as pgx commands, `Shutdown`, pgx, pgconn | the connection's status and watcher, the server's transaction, each caller's command and how far it is; `Enter`, `LockRead`, `Lock`, `Watch`, `Send`, `Answer`, `Done`, `Broken`, `AsyncClose`, `Return`, `Die` ..., and the faults `Expire`, `Disconnect`, `Shutdown` |
| `HostFlowScan` | `GetHostFlows` and what it calls | the kernel's processes and sockets, which change at any time, and one action per system call of the walk, the dump, one per connection grouped |
| `Look` | `shawk look` | the `updated` column, transactions with their start time, the time zones of CMDB and client, the two queries |
| `Cli` | main.go, command/, config.go, the start of an agent, `RunOnce`, `CreateSchema` | one run of the command: `Load`, `Options`, `Dispatch`, `Do*`, `Connect`, `Query`, `Schema`, `RunPolling`, ... |
| `MC*` | | constants of the runs |
| `PollingAgentProofs`, `PollingClockProofs`, `StreamingAgentProofs`, `CmdbProofs`, `CmdbConnProofs`, `HostFlowScanProofs`, `LookProofs`, `CliProofs` | | inductive invariants and theorems of the module of that name |

Abstractions. A batch, key, process, address or port is a model value or a plain
value. CMDB rows are named by their UNIQUE columns instead of serial ids, so that an
upsert adds a row or leaves it; counts and timestamps are in `StreamingAgent` and
`Look` only. In `PollingAgent` a scan and a CMDB call are outcomes (flows, no flows,
error; nil, error), detailed in `HostFlowScan` and `Cmdb`. In `CmdbConn` a call has
a fixed number of statements, the k-th of which writes the k-th row of the call:
whose rows are stored is what matters there, what they say is in `Cmdb`. Nothing
synchronises the callers of a connection, so `lock` reads and sets the status in two
steps, the context watcher is asked and set in two (it has no mutex), and unwatching
and unlocking are two. Where the steps of two commands mix (a second `lock` between
the two steps of the first, a reader that another command resets, a connection
closed under a command in flight) the outcome is a data race, with any answer to any
caller; the model ends there with `raced`, and the properties of `CmdbConn` say
nothing about the rest. `Touch` may or may not end it, as the other command may not
notice. An address of the scan is a sequence of numbers, which the procfs table has
in the host's byte order and `decodeAddress` turns round. `Cmdb` leaves the foreign
keys of flows.sql out: the statements upsert a process before its node and both
nodes before the flow, so they never fire. In `Cli` an argument is a token, a flag
with its value one token. PostgreSQL (READ COMMITTED), pgx, the kernel and the
tracer are modelled from how the code uses them. The directory stream of go-gnulib
is modelled as vendored: it returns the entries of its first 4096 byte read
(`Listings`).

## Runs

| Run | Result | Shows |
|---|---|---|
| `polling` | holds | channel capacities, `EachBatchInOnePlace`, refinement of `FlowPipe` (`PipeSpec`); every scan settles; a signal ends the process, unless `Shutdown` waits for a silent CMDB |
| `clock` | holds | `NoScanWaits`: the channel of `flushInterval/interval+1` has room for every scan, if scans and flushes are quick and no CMDB call fails; `WaitingIsWorkedOff`: scans that wait, because statements failed or all is slow, are worked off, unless the connection is lost |
| `conn` | holds | unless two commands race: `CleanWhenIdle`: calls that overlap, fail or time out leave nothing behind on the connection; `AllOrNothing` and `SerialCallsKeepConn` for calls that do not overlap (which never race); every call returns, even if the server never answers |
| `conn_shared` | violated | `OnlyFaultsCloseConn`: a begin that meets another flush's command fails and closes the connection under it, without any fault |
| `cli` | holds | `SuccessMeansDone` for all argument lists; agents run with usable intervals and a channel that can be made only |
| `cli_once` | violated | `OnceEnds`: `RunOnce` does not return after a successful scan |
| `streaming` | holds | `EveryConnectionCounted`, `DrainNeverBlocks`, refinement of `CountPipe` (`CountSpec`); while at most one call fails, everything traced is taken by a CMDB call |
| `streaming_stuck` | violated | two failing calls in a row can leave the aggregator waiting on itself |
| `cmdb_graph` | holds | `NoFalseFlow`, `ReportedIsStored`: overlapping and failing transactions, flows that lack their process |
| `cmdb_match` | violated | `MatchedOnceBothReported`: two hosts report the ends of a connection in overlapping transactions, and it is not matched |
| `scan` | holds | `ConnectionsCounted`, `ProcessHadSocket`, `ConnectionsLinked`, while processes fork, exit, open and close and any system call fails |
| `look` | holds | `ProcessesShown`: a process with a flow reported since `--since` is shown, if the time zones of client and CMDB fit |

The models show further limits of the code, which the properties above state as
conditions instead of being violated:

- a scan that sends after `Run` has closed the channel (polling.go:27) ends the
  shutdown with a panic (`ScanPanic`; `SignalEndsProcess` allows it);
- `db.Shutdown` closes the connection with a context that has no deadline
  (db.go:53): pgconn writes, and reads until the CMDB hangs up, so that with a
  silent CMDB the process stays (phase `hanging`; `SignalEndsProcess` excepts it);
- a timeout or a network error closes the only connection of an agent, nothing
  opens another, and every later call fails (`SerialCallsKeepConn` allows it):
  each flush then gives up one batch, and scans that wait to send pile up
  (`WaitingIsWorkedOff` excepts it);
- of calls that overlap, one can return nil although the rollback of the other
  took its rows, and a call can return an error although its rows are stored
  (`AllOrNothing` excepts the first; the second is the commit that timed out);
- two client processes of a host that use one port of different servers are
  confused (db.go:78 looks for the port alone), and a flow is stored for a
  connection that does not exist: `NoFalseFlow` needs `OneClientPerPort`. With
  `Conn <- SamePort` and three agents TLC shows it in two transactions;
- a process that exits during the walk fails the whole scan (netutil_linux.go:306),
  and so does any other error of `os.Stat`, of opening a directory but EACCES, and
  of reading a link but ENOENT; the deferred `Close` in the loop (321) keeps a
  descriptor per process open until the walk ends, so that EMFILE is one of them;
- without netlink only `/proc/net/tcp` is read: IPv6 sockets are missing
  (`ConnectionsCounted` is about what was dumped), and on a big-endian host its
  addresses come out reversed (netutil_linux.go:158);
- `--debug` cannot be combined with a command: before it the flag is taken for the
  command, after it it is unknown; `--once` is ignored in streaming mode;
  an interval of 0 or below passes the checks and panics, as does one so short that
  the channel cannot be made (`AgentIntervals`);
- `logger.Fatalf` does not exit: `credits` without its file exits with 0;
- `MatchedOnceBothReported` fails without overlap too: with two client hosts of one
  server port, with one client of two servers on the same port, or with reports that
  lack their process, the placeholder made for one report can be found for the next
  (db.go:215, 252), and no match follows;
- only the entries of the first 4096 byte read of `/proc` and of a process's
  `fd` are visited (`DirsFit` in `ConnectionsLinked`);
- a process with a socket and a blank in its name fails the scan (`Spaced`;
  netutil_linux.go:209), as an exit does;
- a listener on one address is not recognised (netutil_linux.go:58), and its
  connections become active flows;
- the columns of flows.sql are timestamps without a time zone, in the zone of the
  CMDB's session, and pgtype sends the wall clock of look's host: with a client to
  the west `look` misses the latest flows, with one to the east `--since` does
  (`ZonesFit` in `ProcessesShown`). Changes to and from summer time are left out;
- of several dependencies of one process `look` prints the latest
  (`DISTINCT ON`), so `ProcessesShown` asks for processes, not dependencies.

Bounds, and why they are enough. `polling` has three batches and two flushes with a
channel of two (`Interval = FlushInterval = 1`): two flushes are the least that
overlap, a third batch fills the channel and waits. `clock` has intervals 3 and 6
(the case in which a channel smaller by one would never recover), all combinations
of scans of up to 4 and flushes of up to 5 units, and eight errors (`MaxErrors`),
after which more than a channel full of scans wait; an outage is followed as far
(`Bounded`). `conn` has two callers, the least that overlap, three calls, so that
one follows after two that met, and two statements (`Stmts`), so that one can fail
or be interrupted with another done. `cli` takes all lists of up to three arguments,
which is a command with two flags, and intervals -1, 0, 1, 2 and 3: of either sign,
one no multiple of another, and, as a channel of more than three slices cannot be
made (`MaxChan`), one too short for another. In streaming, two keys and a channel of
two suffice for aggregation and back pressure, six events (`MaxEvents`) for several
rounds of it; three calls may fail (`MaxFail`), which includes the stuck aggregator.
Each CMDB topology is the smallest with its effect: `TwoPorts` two clients of one
host and a peer without an agent, and a loopback connection; a transaction has up to
two flows (`MaxFlows`). A scan meets up to four processes, one of which it may not
look at, and four sockets, of which the outgoing one is IPv6 (the walk by netlink
has it, the one by procfs does not); directories of more than three entries
(`DirCap`) are cut short; two events (`MaxEvents`), of which one may be an exit or
the close of a listener (`MaxExits`), happen anywhere up to the dump. `Look` has two
flows of one process and two writers, whose transactions may take any time, times
0..3, time zones 0 and 1, and `--since` and `--until` of 0 and 2 ago, so that rows
on either side of the window exist. Symmetry is used for the writers of `Look`.
Deadlock is checked except where the modelled program ends or stops at a bound
(streaming, `CmdbConn`, `Cli`, `HostFlowScan`, `Look`).

Fairness. The Go runtime schedules runnable goroutines, tickers tick, and a CMDB
call returns because of its context of 10 seconds: weak fairness of every
goroutine's steps. `Close` has no such context, so that it is fair to end only while
there is a CMDB that hangs up (`Closed`, in phase `closing`, not `hanging`).
`select` chooses at random among ready cases, so the aggregator does not pass over a
pending error for ever: strong fairness of `AggRecvErr`. In `CmdbConn` the server
need not answer, as it may wait for another agent's locks: fair are only a caller's
own steps and the end of its context. In `PollingClock` time passes and what is due
is done; that a flush ends within its interval is assumed there (`MaxFlush`). In
`Cli` the command's own steps are fair. No fairness for signals, failures, events or
new scans beyond the ticks.

## Proofs

Every invariant and both refinements that the passing runs check are proved for
all values of the constants, under the assumptions named here. Each proof module
has the inductive invariant as a conjunction of named parts, one lemma or step per
action, and the theorems at the end.

`PollingAgentProofs`, for any sets of batches and flushes and any intervals
(assuming only a positive polling interval, polling.go:26, and that the nil slice is
not a batch): `TypeCorrect`; `BatchesConserved`, from the inductive invariant `IInv`
of `PollingAgent`. `EachBatchInOnePlace` alone is not inductive: a receive
overwrites `cur[g]`, so one needs that a flush holds a batch only while it inserts
(`HoldOnlyInInsert`). `InsertPanic` leaves all batches where they are, so that it
maps to a stutter. `ImplementsPipe` maps `collected` to the batches that were sent:
a step of the agent acks or drops at most the batch it holds, which by `IInv` is in
flight. `FlushAloneNeverBlocks` uses that with one flush nobody else takes from the
channel; it is the one theorem whose property no run checks.

`PollingClockProofs`, for all intervals with `0 < Interval <= FlushInterval` and
flushes that end within their interval: `TypeCorrect` and `ChannelLargeEnough`.
`NoScanWaits` says nothing of how the channel fills, so `ClockInv` counts: every
running scan has begun at a tick of its own (`AgeInv`), hence n scans and slices
go back at least (n - 1) intervals; what the running flush takes comes from ticks
since the last but one flush tick, the rest from ticks since the last (`TickInv`),
each at most a scan earlier. With the premise on the times this leaves at most
`BufferCap` of them (lemma `Room`).

`StreamingAgentProofs`, for any flows and channel capacity: `TypeCorrect`,
`AggregateNeverBlocks`, `ConnectionsConserved` and `ImplementsCount`, the
refinement of `CountPipe`. The aggregator is the only reader, so that `left` never
exceeds the channel while it drains; what it counts leaves the channel in the same
step.

`CmdbProofs`, for any connections, agents and bounds: `TypeCorrect`;
`GraphIsTrue`, from the invariant that every flow in any transaction, and the flow
about to be made, stands for a connection, under the assumptions `OneClientPerPort`
and `OneServerPerPort`, which the topology `SamePort` shows to be needed;
`NilMeansStored`, from the invariant that the flows a call has dealt with are in
what its transaction sees.

`CmdbConnProofs`, for any callers, calls and statements: `TypeCorrect`;
`ConnLeftClean`, from `UseInv`, which holds while the process lives and no commands
have raced: at most one command is in flight and the connection is busy for it
alone (`LockInv`), the watcher watches a command that was sent (`WatchInv`), and a
transaction on an open connection has a call that is in it, one that has begun it
or has yet to end it (`TxInv`, `Holds`); `CallsAllOrNothing`, from `CallInv`: while
a call has met no other it runs alone (`AloneInv`), the transaction holds the rows
of its statements so far (`ProgressInv`) and nobody else's (`RowsInv`), and what is
stored of a call that returned is as it left it (`ReturnedInv`); and
`SerialKeepsConn`, from `QuietInv`: while nothing has failed and no calls have
overlapped, no context has expired and no command has failed on the connection,
which is open. The last two need `UseInv` as well: only with one command in flight
is an answer the answer to its caller's command.

`HostFlowScanProofs`, for any finite sets of processes and sockets and any events
during the scan (`PidAssumption`, `SockAssumption`): `ScanInv` says that dead
processes have no sockets (`KernelInv`), that `held` remembers what processes have
and `kept` nothing else (`MemoryInv`), that what the walk found about a socket was
true at some time of the scan (`WalkInv`), that the table is empty up to the dump
and then what the kernel has (`TableInv`), and relates the flows to the connections
grouped so far (`FlowInv`) and to the entries of the walk (`LinkInv`). From it
`TypeCorrect`, `EachConnectionCountedOnce`, `FlowNamesAnOwner` and
`KeptConnectionsLinked`.

`LookProofs`, for any finite set of flows, any writers, times and time zones and
transactions of any length: `TypeCorrect` and `LookShowsProcesses`. A row carries
the time its transaction began in the zone of the CMDB, which is never later than
now (`RowInv`); what was due when look began is in the window of both queries if
the zones fit (lemma `FitsWindow`) and stays there until it is shown (`DueInv`); a
query returns a flow of every process it chose from (`DistinctOnResult`).

`CliProofs`, for any number of arguments and any intervals: `TypeCorrect`,
`ZeroOnlyWhenDone` and `IntervalsOfAgents`. The invariant says which sub command
leads to each place (`PlaceInv`) and what has been checked of the configuration
there (`ConfigInv`); an agent that runs has made its channel, which is neither
negative nor beyond `MaxChan`, whatever that is; that flushInterval/interval+1
slices cover the flush interval is the lemma `QuoPositive` about Go's division.

Only model-checked: the liveness properties (`EveryScanSettles`,
`SignalEndsProcess`, `WaitingIsWorkedOff`, `EveryCallReturns`, `TracedFlowsSettle`),
which need fairness and `ENABLED` and are
out of the prover's reach, and the properties of the runs that end in a violation.
No theorem needs an induction over data or a RECURSIVE operator.

## Not modelled

Reverse DNS and the address filter of the probe (no agent sets it), helpers of
`probe/netlink/netutil` that nothing calls, IPv6 events (the tracer loop ignores
them), lost-event counters, logging, the wording of output, the syntax of
environment variables (`Load` and `LoadError` are outcomes), `db/testing.go`.
Overlapping calls of one agent are modelled as such in `CmdbConn`, of several
agents in `Cmdb`; not both at once. What follows once two commands have raced on a
connection is left open (`raced`). A process keeps its name: an exec during a scan
is not modelled. Neither are clocks that disagree, nor summer time, in `Look`.

## Plan

1. Core: `FlowPipe`, `PollingAgent` with proofs, `Cmdb` with proofs. Done.
2. Other parts: `StreamingAgent`, `HostFlowScan`, `Look`. Done.
3. `CmdbConn`, `Cli`, `CountPipe`, `PollingClock`. Done.
4. Proofs of every invariant of `PollingClock`, `StreamingAgent`, `CmdbConn`,
   `HostFlowScan`, `Look` and `Cli`, and of the refinement `CountSpec`. Done.
5. Next: which reports of two hosts are matched in spite of `cmdb_match`, that is, a
   condition on how transactions overlap under which `MatchedOnceBothReported`
   holds; `NoScanWaits` after errors; an exec during a scan.
