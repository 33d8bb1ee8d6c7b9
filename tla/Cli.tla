-------------------------------- MODULE Cli ---------------------------------
(***************************************************************************)
(* One run of the shawk command: main.go, the sub commands of command/,    *)
(* the configuration, and the start of an agent up to its tickers.  What   *)
(* an agent does then is the subject of PollingAgent and StreamingAgent,   *)
(* how look picks flows that of Look.                                      *)
(*                                                                         *)
(* The arguments are tokens; a flag with a value is written as one token,  *)
(* and stands for a value of its kind.  Calls of the CMDB (external) may   *)
(* fail at every step.                                                     *)
(***************************************************************************)
EXTENDS Integers, Sequences

CONSTANTS
  MaxArgs,      \* bound on the arguments
  Durations,    \* values of the two intervals, in some unit of time
  MaxChan       \* the most slices a channel can be made for

ASSUME BoundsAssumption ==
  MaxArgs \in Nat /\ Durations \subseteq Int /\ MaxChan \in Nat

Flag == {"--help", "--debug", "--once", "--ipv4=ADDR", "--depth=5", "--since=soon",
         "--unknown"}
Word == {"look", "probe", "create-scheme", "version", "credits", "help", "other"}

VARIABLES
  args,         \* os.Args[1:]
  config,       \* what the environment says
  pc,           \* where the command is
  once,         \* probe's --once
  done,         \* what the command has achieved
  code          \* its exit code

vars == <<args, config, pc, once, done, code>>

MutExitCodeErr == 10

exitCodeOK == 0
exitCodeErr == 10 + 1   \* 10 + iota
fatal == 1              \* log.Fatalf

Init ==
  /\ args \in UNION {[1..n -> Flag \cup Word] : n \in 0..MaxArgs}
  /\ config \in [mode : {"polling", "streaming", "other"},
                 interval : Durations, flush : Durations]
  /\ pc = "start"
  /\ once = FALSE
  /\ done = {}
  /\ code = exitCodeOK

-----------------------------------------------------------------------------
Goto(place) ==
  /\ pc' = place
  /\ UNCHANGED <<args, config, once, done, code>>

Exit(c) ==
  /\ pc' = "exited"
  /\ code' = c
  /\ UNCHANGED <<args, config, once, done>>

\* the flags that FlagSet.Parse meets: it stops at the first other argument
Parsed(s) == {s[i] : i \in {j \in DOMAIN s : \A k \in 1..j : s[k] \in Flag}}

\* A flag that the set does not define, -h for one, ends in an error; so does
\* --help after a sub command.
ParseFails(s, defined) == ~(Parsed(s) \subseteq defined)

Rest == Tail(args)

-----------------------------------------------------------------------------
(* CLI.Run *)

NoArgs ==
  /\ pc = "start" /\ args = <<>>
  /\ Exit(exitCodeErr)

\* the environment file cannot be read, or a value cannot be parsed
LoadError ==
  /\ pc = "start" /\ args # <<>>
  /\ Exit(fatal)

Load ==
  /\ pc = "start" /\ args # <<>>
  /\ IF config.mode \in {"streaming", "polling"} THEN Goto("run") ELSE Exit(fatal)

\* --help and --debug come before the sub command, which is always args[1]
Options ==
  /\ pc = "run" /\ args[1] \in Flag
  /\ IF ParseFails(args, {"--help", "--debug"}) THEN Exit(exitCodeErr)
     ELSE IF "--help" \in Parsed(args) THEN Exit(exitCodeOK)
     ELSE Exit(exitCodeErr)

Dispatch ==
  /\ pc = "run" /\ args[1] \in {"look", "probe", "create-scheme"}
  /\ Goto(args[1])

\* FindString fails without the embedded file; logger.Fatalf does not exit
Credits ==
  /\ pc = "run" /\ args[1] = "credits"
  /\ Exit(exitCodeOK)

OtherWord ==
  /\ pc = "run" /\ args[1] \in {"version", "help", "other"}
  /\ Exit(IF args[1] = "other" THEN exitCodeErr ELSE exitCodeOK)

-----------------------------------------------------------------------------
(* look, create-scheme and probe *)

\* doLook and Look, up to doIPv4; without an address nothing is looked up
DoLook ==
  /\ pc = "look"
  /\ IF \/ ParseFails(Rest, {"--ipv4=ADDR", "--depth=5", "--since=soon"})
        \/ Parsed(Rest) \cap {"--depth=5", "--since=soon"} # {}
     THEN Exit(exitCodeErr)
     ELSE IF "--ipv4=ADDR" \in Parsed(Rest) THEN Goto("connect") ELSE Exit(exitCodeOK)

DoCreateScheme ==
  /\ pc = "create-scheme"
  /\ IF ParseFails(Rest, {}) THEN Exit(exitCodeErr) ELSE Goto("connect")

DoProbe ==
  /\ pc = "probe"
  /\ IF ParseFails(Rest, {"--once"}) THEN Exit(exitCodeErr)
     ELSE /\ once' = ("--once" \in Parsed(Rest))
          /\ pc' = "connect"
          /\ UNCHANGED <<args, config, done, code>>

\* db.New: the URL, the connection or the ping fails
ConnectError ==
  /\ pc = "connect"
  /\ Exit(exitCodeErr)

\* --once has no effect in streaming mode
Connect ==
  /\ pc = "connect"
  /\ Goto(CASE args[1] = "look" -> "query"
            [] args[1] = "create-scheme" -> "schema"
            [] args[1] = "probe" -> IF config.mode = "streaming" THEN "streaming"
                                    ELSE IF once THEN "scan" ELSE "polling")

Succeed(result) ==
  /\ pc' = "exited"
  /\ code' = exitCodeOK
  /\ done' = done \cup {result}
  /\ UNCHANGED <<args, config, once>>

\* doIPv4: the two queries, with what they print
Query == pc = "query" /\ (Succeed("looked") \/ Exit(exitCodeErr))

MutSchema == pc = "schema" /\ (Succeed("schema") \/ Exit(exitCodeOK))

\* CreateSchema; the statements of a file take effect together
Schema == pc = "schema" /\ (Succeed("schema") \/ Exit(exitCodeErr))

-----------------------------------------------------------------------------
(* Agents *)

\* scanFlows with channels of its own, and the error it sent is received
OnceFailed == pc = "scan" /\ Exit(exitCodeErr)

\* scanFlows sent its flows, and nothing is ever sent to errChan
OnceScanned == pc = "scan" /\ Goto("blocked")

\* the Go runtime may notice that no goroutine can go on
RuntimeDeadlock == pc = "blocked" /\ Goto("deadlock")

\* integer division of Go, which rounds towards zero
Abs(n) == IF n < 0 THEN -n ELSE n
Quo(a, b) == (Abs(a) \div Abs(b)) * (IF (a < 0) = (b < 0) THEN 1 ELSE -1)

MutRunPolling ==
  /\ pc = "polling"
  /\ CASE config.interval = 0 -> Goto("panicked")
       [] OTHER -> Goto("tickers")

\* make(flowBuffer, flushInterval/interval+1): a size that is negative or that
\* the runtime cannot allocate panics (a sum beyond int64 is negative)
BufferSize == Quo(config.flush, config.interval) + 1
MakeFails == BufferSize \notin 0..MaxChan

RunPolling ==
  /\ pc = "polling"
  /\ CASE config.interval > config.flush -> Exit(exitCodeErr)
       [] config.interval <= config.flush /\ config.interval = 0 -> Goto("panicked")
       [] config.interval <= config.flush /\ config.interval # 0 ->
            Goto(IF MakeFails THEN "panicked" ELSE "tickers")

\* the kernel is not supported, or the tracer does not start
RunStreamingError == pc = "streaming" /\ Exit(exitCodeErr)

RunStreaming == pc = "streaming" /\ Goto("tickers")

\* time.NewTicker
Tickers ==
  /\ pc = "tickers"
  /\ Goto(IF config.interval <= 0 THEN "panicked" ELSE "agent")

\* agent.Wait returned; streaming never gets to it and the signal kills it
Signal ==
  /\ pc = "agent"
  /\ IF config.mode = "streaming" THEN Goto("killed")
     ELSE Succeed("agent") \/ Exit(exitCodeErr)

-----------------------------------------------------------------------------
Step ==
  \/ NoArgs \/ LoadError \/ Load \/ Options \/ Dispatch \/ Credits \/ OtherWord
  \/ DoLook \/ DoCreateScheme \/ DoProbe \/ ConnectError \/ Connect
  \/ Query \/ Schema \/ OnceFailed \/ OnceScanned
  \/ RunPolling \/ RunStreamingError \/ RunStreaming \/ Tickers

Next == Step \/ RuntimeDeadlock \/ Signal

Spec == Init /\ [][Next]_vars

(* The main goroutine runs, and the CMDB answers; nothing makes a signal   *)
(* arrive, or makes the runtime notice that RunOnce is stuck.              *)
FairSpec == Spec /\ WF_vars(Step)

-----------------------------------------------------------------------------
(* Type invariant.                                                         *)
TypeOK ==
  /\ pc \in {"start", "run", "look", "probe", "create-scheme", "connect", "query",
             "schema", "scan", "blocked", "deadlock", "polling", "streaming",
             "tickers", "agent", "exited", "panicked", "killed"}
  /\ once \in BOOLEAN
  /\ done \in SUBSET {"looked", "schema", "agent"}
  /\ code \in {0, 1, 11}

Command == IF args = <<>> THEN "" ELSE args[1]

(* Exit code 0 of create-scheme means that the schema exists, of probe     *)
(* that an agent has run and was told to stop, and of look with an address *)
(* that the flows were looked up (main.go:83-115, command).                *)
SuccessMeansDone ==
  pc = "exited" /\ code = exitCodeOK =>
    /\ Command = "create-scheme" => "schema" \in done
    /\ Command = "probe" => "agent" \in done
    /\ Command = "look" /\ "--ipv4=ADDR" \in Parsed(Rest) => "looked" \in done

(* An agent runs only with a positive interval, and a polling agent with a *)
(* channel that the runtime can make and that holds the slices of a flush  *)
(* interval; every other pair of intervals is refused, or panics because   *)
(* it is not positive or asks for too large a channel.  (The first part is *)
(* what PollingAgent assumes of its intervals.)  (polling.go:20-26, 45;    *)
(* streaming.go:48)                                                        *)
AgentIntervals ==
  /\ pc = "agent" =>
       /\ config.interval > 0
       /\ config.mode = "polling" =>
            /\ config.interval <= config.flush
            /\ BufferSize <= MaxChan
            /\ BufferSize * config.interval > config.flush
  /\ pc = "panicked" =>
       \/ config.interval <= 0
       \/ config.mode = "polling" /\ BufferSize > MaxChan

(* "Run scanning connections only once." (README.md:71), "RunOnce runs     *)
(* agent once." (agent/polling/polling.go:35): probe --once ends.          *)
OnceEnds == once ~> pc \in {"exited", "panicked"}
=============================================================================
